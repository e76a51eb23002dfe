-------------------------- MODULE FileSystemProofs ---------------------------
(***************************************************************************)
(* Theorems about FileSystem: what prefixes, parents and the calls of the  *)
(* file system do to a tree of any depth, over any names and inodes.       *)
(***************************************************************************)
EXTENDS FileSystem, SequenceTheorems, WellFoundedInduction, TLAPS

-----------------------------------------------------------------------------
(* Paths are sequences of names of a bounded length. *)

LEMMA SeqOfDef ==
    ASSUME NEW S, NEW n \in Nat, NEW s
    PROVE  s \in SeqOf(S, n) <=> s \in Seq(S) /\ Len(s) <= n
<1>1. ASSUME s \in SeqOf(S, n)
      PROVE  s \in Seq(S) /\ Len(s) <= n
  <2>1. PICK m \in 0..n : s \in [1..m -> S]
    BY <1>1 DEF SeqOf
  <2>2. s \in Seq(S)
    BY <2>1, SeqDef
  <2>3. Len(s) = m
    BY <2>1, <2>2, LenProperties
  <2>4. QED
    BY <2>2, <2>3
<1>2. ASSUME s \in Seq(S), Len(s) <= n
      PROVE  s \in SeqOf(S, n)
  BY <1>2, LenProperties DEF SeqOf
<1>3. QED
  BY <1>1, <1>2

LEMMA PathsDef ==
    ASSUME NEW s
    PROVE  s \in Paths <=> s \in Seq(Names) /\ Len(s) <= MaxDepth
<1>1. MaxDepth \in Nat
  BY FileSystemAssumption
<1>2. s \in SeqOf(Names, MaxDepth) <=> s \in Seq(Names) /\ Len(s) <= MaxDepth
  BY <1>1, SeqOfDef
<1>3. QED
  BY <1>2 DEF Paths

LEMMA RootPath == Root \in Paths
<1>1. <<>> \in Seq(Names) /\ Len(<<>>) = 0
  BY EmptySeq
<1>2. 0 <= MaxDepth
  BY FileSystemAssumption
<1>3. QED
  BY <1>1, <1>2, PathsDef DEF Root

(* A name below a path may be one longer than a path. *)
LEMMA AppendLong ==
    ASSUME NEW p \in Paths, NEW n \in Names
    PROVE  Append(p, n) \in SeqOf(Names, MaxDepth + 1)
<1>1. p \in Seq(Names) /\ Len(p) <= MaxDepth /\ Len(p) \in Nat
  BY PathsDef, LenProperties
<1>2. Append(p, n) \in Seq(Names) /\ Len(Append(p, n)) = Len(p) + 1
  BY <1>1, AppendProperties
<1>3. MaxDepth + 1 \in Nat /\ MaxDepth \in Nat
  BY FileSystemAssumption
<1>4. Len(Append(p, n)) <= MaxDepth + 1
  BY <1>1, <1>2, <1>3
<1>5. QED
  BY <1>2, <1>3, <1>4, SeqOfDef

LEMMA PathsLong == Paths \subseteq SeqOf(Names, MaxDepth + 1)
<1>1. MaxDepth + 1 \in Nat /\ MaxDepth \in Nat
  BY FileSystemAssumption
<1>2. QED
  BY <1>1, SeqOfDef, PathsDef, LenProperties

-----------------------------------------------------------------------------
(* Prefixes, entry by entry. *)

LEMMA PrefixDef ==
    ASSUME NEW s \in Seq(Names), NEW t \in Seq(Names)
    PROVE  IsPrefix(s, t) <=> /\ Len(s) <= Len(t)
                              /\ \A i \in 1..Len(s) : s[i] = t[i]
<1>1. Len(s) \in Nat /\ Len(t) \in Nat
  BY LenProperties
<1>2. SubSeq(s, 1, Len(s)) = s
  BY SubSeqFull
<1>3. ASSUME Len(s) <= Len(t)
      PROVE  /\ SubSeq(t, 1, Len(s)) \in Seq(Names)
             /\ Len(SubSeq(t, 1, Len(s))) = Len(s)
             /\ \A i \in 1..Len(s) : SubSeq(t, 1, Len(s))[i] = t[i]
  <2>1. \A i \in 1..Len(s) : t[i] \in Names
    BY <1>1, <1>3, ElementOfSeq
  <2>2. QED
    BY <1>1, <2>1, SubSeqProperties
<1>4. QED
  BY <1>1, <1>2, <1>3, SeqEqual DEF IsPrefix

LEMMA FrontProperties ==
    ASSUME NEW s \in Seq(Names), s # <<>>
    PROVE  /\ Front(s) \in Seq(Names)
           /\ Len(Front(s)) = Len(s) - 1
           /\ Len(s) \in Nat \ {0}
           /\ \A i \in 1..(Len(s) - 1) : Front(s)[i] = s[i]
<1>1. Len(s) \in Nat \ {0}
  BY EmptySeq
<1>2. \A i \in 1..(Len(s) - 1) : s[i] \in Names
  BY <1>1, ElementOfSeq
<1>3. Len(s) - 1 \in Int
  BY <1>1
<1>4. /\ SubSeq(s, 1, Len(s) - 1) \in Seq(Names)
      /\ Len(SubSeq(s, 1, Len(s) - 1))
            = IF 1 <= Len(s) - 1 THEN Len(s) - 1 - 1 + 1 ELSE 0
      /\ \A i \in 1..(Len(s) - 1 - 1 + 1) :
            SubSeq(s, 1, Len(s) - 1)[i] = s[1 + i - 1]
  BY <1>2, <1>3, SubSeqProperties
<1>5. Len(s) - 1 - 1 + 1 = Len(s) - 1 /\ \A i \in 1..(Len(s) - 1) : 1 + i - 1 = i
  BY <1>1
<1>6. QED
  BY <1>1, <1>4, <1>5 DEF Front

LEMMA ParentPath ==
    ASSUME NEW s \in Paths, s # Root
    PROVE  Front(s) \in Paths /\ Front(s) # s /\ IsStrictPrefix(Front(s), s)
<1>1. s \in Seq(Names) /\ s # <<>> /\ Len(s) <= MaxDepth
  BY PathsDef DEF Root
<1>2. /\ Front(s) \in Seq(Names) /\ Len(Front(s)) = Len(s) - 1
      /\ Len(s) \in Nat \ {0}
      /\ \A i \in 1..(Len(s) - 1) : Front(s)[i] = s[i]
  BY <1>1, FrontProperties
<1>3. Front(s) # s
  BY <1>2
<1>4. Front(s) \in Paths
  BY <1>1, <1>2, PathsDef, FileSystemAssumption
<1>5. IsPrefix(Front(s), s)
  BY <1>1, <1>2, PrefixDef
<1>6. QED
  BY <1>3, <1>4, <1>5 DEF IsStrictPrefix

(* What a prefix of a path's parent is, is one of the path; and the other  *)
(* way round, but for the path itself.                                     *)
LEMMA PrefixOfParent ==
    ASSUME NEW q \in Paths, NEW s \in Paths, s # Root
    PROVE  /\ IsPrefix(q, Front(s)) => IsPrefix(q, s) /\ q # s
           /\ IsPrefix(q, s) /\ q # s => IsPrefix(q, Front(s))
<1>1. /\ s \in Seq(Names) /\ s # <<>> /\ q \in Seq(Names)
      /\ Len(q) \in Nat
  BY PathsDef, LenProperties DEF Root
<1>2. /\ Front(s) \in Seq(Names) /\ Len(Front(s)) = Len(s) - 1
      /\ Len(s) \in Nat \ {0}
      /\ \A i \in 1..(Len(s) - 1) : Front(s)[i] = s[i]
  BY <1>1, FrontProperties
<1>3. ASSUME IsPrefix(q, Front(s))
      PROVE  IsPrefix(q, s) /\ q # s
  <2>1. Len(q) <= Len(s) - 1 /\ \A i \in 1..Len(q) : q[i] = Front(s)[i]
    BY <1>1, <1>2, <1>3, PrefixDef
  <2>2. \A i \in 1..Len(q) : q[i] = s[i]
    BY <1>1, <1>2, <2>1
  <2>3. QED
    BY <1>1, <1>2, <2>1, <2>2, PrefixDef
<1>4. ASSUME IsPrefix(q, s), q # s
      PROVE  IsPrefix(q, Front(s))
  <2>1. Len(q) <= Len(s) /\ \A i \in 1..Len(q) : q[i] = s[i]
    BY <1>1, <1>4, PrefixDef
  <2>2. Len(q) # Len(s)
    BY <1>1, <1>4, <2>1, SeqEqual
  <2>3. Len(q) <= Len(s) - 1
    BY <1>1, <1>2, <2>1, <2>2
  <2>4. \A i \in 1..Len(q) : q[i] = Front(s)[i]
    BY <1>1, <1>2, <2>1, <2>3
  <2>5. QED
    BY <1>1, <1>2, <2>3, <2>4, PrefixDef
<1>5. QED
  BY <1>3, <1>4

LEMMA PrefixSelf == ASSUME NEW p \in Seq(Names) PROVE IsPrefix(p, p)
BY LenProperties DEF IsPrefix

LEMMA PrefixTrans ==
    ASSUME NEW p \in Seq(Names), NEW q \in Seq(Names), NEW s \in Seq(Names),
           IsPrefix(p, q), IsPrefix(q, s)
    PROVE  IsPrefix(p, s)
<1>1. Len(p) \in Nat /\ Len(q) \in Nat /\ Len(s) \in Nat
  BY LenProperties
<1>2. Len(p) <= Len(q) /\ Len(q) <= Len(s) /\ Len(p) <= Len(s)
  BY <1>1, PrefixDef
<1>3. \A i \in 1..Len(p) : p[i] = q[i] /\ q[i] = s[i]
  BY <1>1, <1>2, PrefixDef
<1>4. QED
  BY <1>2, <1>3, PrefixDef

-----------------------------------------------------------------------------
(* What lies below a path, moved below another one. *)

LEMMA BelowProperties ==
    ASSUME NEW q \in Paths, NEW s \in Paths, IsPrefix(q, s)
    PROVE  /\ Below(q, s) \in Seq(Names)
           /\ Len(Below(q, s)) = Len(s) - Len(q)
           /\ \A i \in 1..(Len(s) - Len(q)) : Below(q, s)[i] = s[Len(q) + i]
<1>1. /\ q \in Seq(Names) /\ s \in Seq(Names)
      /\ Len(q) \in Nat /\ Len(s) \in Nat /\ Len(q) <= Len(s)
  BY PathsDef, LenProperties, PrefixDef
<1>2. \A i \in (Len(q) + 1)..Len(s) : s[i] \in Names
  BY <1>1, ElementOfSeq
<1>3. /\ Below(q, s) \in Seq(Names)
      /\ Len(Below(q, s)) = IF Len(q) + 1 <= Len(s)
                            THEN Len(s) - (Len(q) + 1) + 1 ELSE 0
      /\ \A i \in 1..(Len(s) - (Len(q) + 1) + 1) :
            Below(q, s)[i] = s[(Len(q) + 1) + i - 1]
  <2>1. Len(q) + 1 \in Int /\ Len(s) \in Int
    BY <1>1
  <2>2. QED
    BY <1>2, <2>1, SubSeqProperties DEF Below
<1>4. /\ Len(s) - (Len(q) + 1) + 1 = Len(s) - Len(q)
      /\ \A i \in 1..(Len(s) - Len(q)) : (Len(q) + 1) + i - 1 = Len(q) + i
  BY <1>1
<1>5. Len(Below(q, s)) = Len(s) - Len(q)
  <2>1. CASE Len(q) + 1 <= Len(s)
    BY <1>3, <1>4, <2>1
  <2>2. CASE ~(Len(q) + 1 <= Len(s))
    <3>1. Len(Below(q, s)) = 0
      BY <1>3, <2>2
    <3>2. Len(s) - Len(q) = 0
      BY <1>1, <2>2
    <3>3. QED  BY <3>1, <3>2
  <2>3. QED
    BY <2>1, <2>2
<1>6. \A i \in 1..(Len(s) - Len(q)) : Below(q, s)[i] = s[Len(q) + i]
  BY <1>3, <1>4
<1>7. QED
  BY <1>3, <1>5, <1>6

LEMMA MovedProperties ==
    ASSUME NEW p \in Paths, NEW q \in Paths, NEW s \in Paths, IsPrefix(q, s)
    PROVE  /\ p \o Below(q, s) \in Seq(Names)
           /\ Len(p \o Below(q, s)) = Len(p) + Len(s) - Len(q)
           /\ \A i \in 1..Len(p) : (p \o Below(q, s))[i] = p[i]
           /\ \A i \in 1..(Len(s) - Len(q)) :
                (p \o Below(q, s))[Len(p) + i] = s[Len(q) + i]
<1> DEFINE b == Below(q, s)
<1>1. /\ p \in Seq(Names) /\ Len(p) \in Nat
      /\ Len(q) \in Nat /\ Len(s) \in Nat
  BY PathsDef, LenProperties
<1>2. /\ b \in Seq(Names) /\ Len(b) = Len(s) - Len(q)
      /\ \A i \in 1..(Len(s) - Len(q)) : b[i] = s[Len(q) + i]
  BY BelowProperties
<1>3. Len(b) \in Nat
  BY <1>2, LenProperties
<1> HIDE DEF b
<1>4. /\ p \o b \in Seq(Names) /\ Len(p \o b) = Len(p) + Len(b)
      /\ \A i \in 1..(Len(p) + Len(b)) :
            (p \o b)[i] = IF i <= Len(p) THEN p[i] ELSE b[i - Len(p)]
  BY <1>1, <1>2, ConcatProperties
<1>5. \A i \in 1..Len(p) : (p \o b)[i] = p[i]
  BY <1>1, <1>3, <1>4
<1>6. ASSUME NEW i \in 1..(Len(s) - Len(q))
      PROVE  (p \o b)[Len(p) + i] = s[Len(q) + i]
  <2>1. Len(p) + i \in 1..(Len(p) + Len(b)) /\ ~(Len(p) + i <= Len(p))
        /\ (Len(p) + i) - Len(p) = i
    BY <1>1, <1>2
  <2>2. (p \o b)[Len(p) + i] = b[i]
    BY <1>4, <2>1
  <2>3. QED
    BY <1>2, <2>2
<1>7. QED
  BY <1>1, <1>2, <1>4, <1>5, <1>6 DEF b

LEMMA MovedItself ==
    ASSUME NEW p \in Paths, NEW q \in Paths
    PROVE  p \o Below(q, q) = p
<1>1. p \in Seq(Names) /\ q \in Seq(Names) /\ Len(q) \in Nat /\ Len(p) \in Nat
  BY PathsDef, LenProperties
<1>2. IsPrefix(q, q)
  BY <1>1, PrefixSelf
<1>3. /\ p \o Below(q, q) \in Seq(Names)
      /\ Len(p \o Below(q, q)) = Len(p) + Len(q) - Len(q)
      /\ \A i \in 1..Len(p) : (p \o Below(q, q))[i] = p[i]
  BY <1>2, MovedProperties
<1>4. Len(p) + Len(q) - Len(q) = Len(p)
  BY <1>1
<1>5. QED
  BY <1>1, <1>3, <1>4, SeqEqual

LEMMA MovedParent ==
    ASSUME NEW p \in Paths, NEW q \in Paths, NEW s \in Paths,
           IsPrefix(q, s), s # q
    PROVE  /\ s # Root /\ p \o Below(q, s) # Root
           /\ p \o Below(q, Front(s)) = Front(p \o Below(q, s))
<1> DEFINE o == p \o Below(q, s)
           t == Front(s)
           u == p \o Below(q, t)
<1>1. /\ p \in Seq(Names) /\ q \in Seq(Names) /\ s \in Seq(Names)
      /\ Len(p) \in Nat /\ Len(q) \in Nat /\ Len(s) \in Nat
  BY PathsDef, LenProperties
<1>2. Len(q) < Len(s)
  BY <1>1, PrefixDef, SeqEqual
<1>3. s # <<>>
  BY <1>1, <1>2, EmptySeq
<1>4. /\ t \in Paths /\ IsPrefix(q, t) /\ Len(t) = Len(s) - 1
      /\ \A i \in 1..(Len(s) - 1) : t[i] = s[i]
  BY <1>1, <1>3, ParentPath, PrefixOfParent, FrontProperties DEF Root
<1> HIDE DEF t
<1>5. /\ o \in Seq(Names) /\ Len(o) = Len(p) + Len(s) - Len(q)
      /\ \A i \in 1..Len(p) : o[i] = p[i]
      /\ \A i \in 1..(Len(s) - Len(q)) : o[Len(p) + i] = s[Len(q) + i]
  BY MovedProperties
<1>6. /\ u \in Seq(Names) /\ Len(u) = Len(p) + Len(t) - Len(q)
      /\ \A i \in 1..Len(p) : u[i] = p[i]
      /\ \A i \in 1..(Len(t) - Len(q)) : u[Len(p) + i] = t[Len(q) + i]
  BY <1>4, MovedProperties
<1> HIDE DEF o, u
<1>7. o # <<>>
  BY <1>1, <1>2, <1>5, EmptySeq
<1>8. /\ Front(o) \in Seq(Names) /\ Len(Front(o)) = Len(o) - 1
      /\ \A i \in 1..(Len(o) - 1) : Front(o)[i] = o[i]
  BY <1>5, <1>7, FrontProperties
<1>9. Len(u) = Len(Front(o)) /\ Len(u) = Len(p) + Len(s) - 1 - Len(q)
  BY <1>1, <1>4, <1>5, <1>6, <1>8
<1>10. ASSUME NEW i \in 1..Len(u)
       PROVE  u[i] = Front(o)[i]
  <2>1. Front(o)[i] = o[i]
    BY <1>8, <1>9
  <2>2. CASE i \in 1..Len(p)
    BY <1>5, <1>6, <2>1, <2>2
  <2>3. CASE i \notin 1..Len(p)
    <3> DEFINE j == i - Len(p)
    <3>1. j \in 1..(Len(t) - Len(q)) /\ j \in 1..(Len(s) - Len(q))
          /\ i = Len(p) + j /\ Len(q) + j \in 1..(Len(s) - 1)
      BY <1>1, <1>2, <1>4, <1>9, <2>3
    <3> HIDE DEF j
    <3>2. u[i] = t[Len(q) + j] /\ o[i] = s[Len(q) + j]
      BY <1>5, <1>6, <3>1
    <3>3. QED
      BY <1>4, <2>1, <3>1, <3>2
  <2>4. QED
    BY <2>2, <2>3
<1>11. u = Front(o)
  BY <1>6, <1>8, <1>9, <1>10, SeqEqual
<1>12. QED
  BY <1>3, <1>7, <1>11 DEF o, u, t, Root

-----------------------------------------------------------------------------
(* What the calls do to the tree: every name stays in a directory.         *)

TreeOK == TreeTypeOK /\ \A p \in Paths \ {Root} : Exists(p) => Is(Front(p), "dir")

Kinds == {"file", "dir", "symlink"}

LEMMA TreeStart == TreeInit => TreeOK
BY RootPath, FileSystemAssumption DEF TreeInit, TreeOK, TreeTypeOK, Exists

LEMMA Smallest ==
    ASSUME NEW T \in SUBSET Nat, T # {}
    PROVE  \E n \in T : \A m \in T : n <= m
<1>1. PICK n \in T : \A m \in T : ~(<<m, n>> \in OpToRel(<, Nat))
  BY NatLessThanWellFounded, WFMin
<1>2. ASSUME NEW m \in T PROVE n <= m
  <2>1. ~(m < n) /\ m \in Nat /\ n \in Nat
    BY <1>1 DEF OpToRel
  <2>2. QED  BY <2>1
<1>3. QED
  BY <1>2

LEMMA NewInodeFree ==
    ASSUME InodeLeft
    PROVE  NewInode \in Inodes /\ kind[NewInode] = None
<1> DEFINE T == {i \in Inodes : kind[i] = None}
<1>1. T \in SUBSET Nat /\ T # {}
  BY FileSystemAssumption DEF InodeLeft
<1>2. PICK i \in T : \A j \in T : i <= j
  BY <1>1, Smallest
<1>3. \E k \in Inodes : kind[k] = None /\ \A j \in Inodes : kind[j] = None => k <= j
  BY <1>2
<1>4. QED
  BY <1>3 DEF NewInode

(* Directories stay where and what they are when a name is made or linked. *)
LEMMA NewName ==
    ASSUME TreeOK, NEW p \in Paths, HasParent(p), ~Exists(p),
           NEW i \in Inodes, tree' = [tree EXCEPT ![p] = i],
           kind' \in [Inodes -> Kinds \cup {None}],
           \A j \in Inodes : kind[j] = "dir" => kind'[j] = "dir"
    PROVE  TreeOK' /\ Exists(p)'
<1>1. tree' \in [Paths -> Inodes \cup {None}] /\ TreeTypeOK'
  BY DEF TreeOK, TreeTypeOK, Kinds
<1>2. \A s \in Paths : Is(s, "dir") => s # p /\ tree'[s] = tree[s] /\ Is(s, "dir")'
  <2> SUFFICES ASSUME NEW s \in Paths, Is(s, "dir")
               PROVE  s # p /\ tree'[s] = tree[s] /\ Is(s, "dir")'
    OBVIOUS
  <2>1. s # p
    BY DEF Is
  <2>2. tree'[s] = tree[s] /\ tree[s] \in Inodes /\ kind[tree[s]] = "dir"
        /\ tree[s] # None
    BY <2>1 DEF TreeOK, TreeTypeOK, Is, Exists
  <2>3. QED
    BY <2>1, <2>2 DEF Is, Exists
<1>3. ASSUME NEW s \in Paths \ {Root}, Exists(s)'
      PROVE  Is(Front(s), "dir")'
  <2>1. s = p \/ Exists(s)
    BY <1>3 DEF TreeOK, TreeTypeOK, Exists
  <2>2. Is(Front(s), "dir")
    BY <2>1 DEF HasParent, TreeOK
  <2>3. Front(s) \in Paths
    BY <2>2 DEF Is, Exists
  <2>4. QED
    BY <1>2, <2>2, <2>3
<1>4. Exists(p)'
  BY FileSystemAssumption DEF Exists, TreeOK, TreeTypeOK
<1>5. QED
  BY <1>1, <1>3, <1>4 DEF TreeOK

LEMMA TreeMake ==
    ASSUME TreeOK, NEW p, MakeOk(p), NEW k \in Kinds, Make(p, k)
    PROVE  TreeOK' /\ p \in Paths /\ Exists(p)'
<1> DEFINE i == NewInode
<1>1. i \in Inodes /\ kind[i] = None /\ p \in Paths /\ HasParent(p) /\ ~Exists(p)
  BY NewInodeFree DEF MakeOk, HasParent
<1>2. tree' = [tree EXCEPT ![p] = i] /\ kind' = [kind EXCEPT ![i] = k]
  BY DEF Make
<1> HIDE DEF i
<1>3. kind' \in [Inodes -> Kinds \cup {None}]
  BY <1>1, <1>2 DEF TreeOK, TreeTypeOK, Kinds
<1>4. \A j \in Inodes : kind[j] = "dir" => kind'[j] = "dir"
  BY <1>1, <1>2, FileSystemAssumption DEF TreeOK, TreeTypeOK
<1>5. QED
  BY <1>1, <1>2, <1>3, <1>4, NewName

LEMMA TreeOpenW ==
    ASSUME TreeOK, NEW p, OpenWOk(p), OpenW(p)
    PROVE  TreeOK' /\ p \in Paths /\ Exists(p)'
<1>1. CASE Is(p, "file")
  BY <1>1 DEF OpenW, fsvars, TreeOK, TreeTypeOK, Is, Exists
<1>2. CASE ~Is(p, "file")
  BY <1>2, TreeMake DEF OpenW, OpenWOk, Kinds
<1>3. QED
  BY <1>1, <1>2

LEMMA TreeLink ==
    ASSUME TreeOK, NEW p, NEW q, LinkOk(p, q), Link(p, q)
    PROVE  TreeOK'
<1>1. /\ p \in Paths /\ q \in Paths /\ HasParent(q) /\ ~Exists(q)
      /\ tree[p] \in Inodes
  BY DEF LinkOk, HasParent, Exists, TreeOK, TreeTypeOK
<1>2. tree' = [tree EXCEPT ![q] = tree[p]] /\ kind' = kind
  BY DEF Link
<1>3. kind' \in [Inodes -> Kinds \cup {None}]
      /\ \A j \in Inodes : kind[j] = "dir" => kind'[j] = "dir"
  BY <1>2 DEF TreeOK, TreeTypeOK, Kinds
<1>4. QED
  BY <1>1, <1>2, <1>3, NewName

(* What is dropped has nothing below it.                                   *)
LEMMA TreeDrop ==
    ASSUME TreeOK, NEW p, UnlinkOk(p) \/ RmdirOk(p), Drop(p)
    PROVE  TreeOK' /\ p \in Paths /\ ~Exists(p)'
<1>1. /\ p \in Paths /\ tree' = [tree EXCEPT ![p] = None] /\ kind' = kind
  BY DEF UnlinkOk, RmdirOk, Is, Exists, Drop
<1>2. TreeTypeOK' /\ ~Exists(p)'
  BY <1>1 DEF TreeOK, TreeTypeOK, Exists
<1>3. ASSUME NEW s \in Paths \ {Root}, Exists(s)'
      PROVE  Is(Front(s), "dir")'
  <2>1. Exists(s) /\ Is(Front(s), "dir")
    BY <1>1, <1>3 DEF TreeOK, TreeTypeOK, Exists
  <2>2. Front(s) # p
    BY <2>1, ParentPath DEF UnlinkOk, RmdirOk, Empty
  <2>3. QED
    BY <1>1, <2>1, <2>2 DEF Is, Exists, TreeOK, TreeTypeOK
<1>4. QED
  BY <1>1, <1>2, <1>3 DEF TreeOK

(* What has moved is below a name that was a directory before; what has    *)
(* not keeps its parents.                                                  *)
LEMMA TreeRename ==
    ASSUME TreeOK, NEW p, NEW q, RenameOk(p, q), Rename(p, q)
    PROVE  TreeOK' /\ p \in Paths /\ q \in Paths /\ Exists(q)'
<1>1. /\ p \in Paths /\ q \in Paths \ {Root} /\ kind' = kind
      /\ tree[p] # None /\ Is(Front(q), "dir") /\ ~IsStrictPrefix(p, q)
  BY DEF RenameOk, HasParent, Exists, Rename
<1>2. CASE tree[p] = tree[q]
  BY <1>1, <1>2 DEF Rename, TreeOK, TreeTypeOK, Is, Exists
<1>3. CASE tree[p] # tree[q]
  <2> DEFINE Src(s) == p \o Below(q, s)
  <2>1. tree' = [s \in Paths |->
                    IF IsPrefix(q, s)
                    THEN IF Src(s) \in Paths THEN tree[Src(s)] ELSE None
                    ELSE IF IsPrefix(p, s) THEN None ELSE tree[s]]
    BY <1>3 DEF Rename
  <2>2. tree' \in [Paths -> Inodes \cup {None}]
    <3>1. \A s \in Paths : tree[s] \in Inodes \cup {None}
      BY DEF TreeOK, TreeTypeOK
    <3> HIDE DEF Src
    <3>2. QED
      BY <2>1, <3>1
  <2> HIDE DEF Src
  <2>3. IsPrefix(q, q) /\ Src(q) = p
    BY <1>1, PathsDef, PrefixSelf, MovedItself DEF Src
  <2>10. ASSUME NEW s \in Paths, IsPrefix(q, s), Src(s) \in Paths
         PROVE  tree'[s] = tree[Src(s)]
    BY <2>1, <2>10
  <2>4. tree'[q] = tree[p]
    BY <1>1, <2>10, <2>3
  <2>5. ASSUME NEW s \in Paths, ~IsPrefix(q, s), ~IsPrefix(p, s), Is(s, "dir")
        PROVE  Is(s, "dir")'
    BY <1>1, <2>1, <2>5 DEF Is, Exists
  <2>6. ASSUME NEW s \in Paths \ {Root}, Exists(s)'
        PROVE  Is(Front(s), "dir")'
    <3>1. Front(s) \in Paths
      BY ParentPath
    <3>2. CASE s = q
      <4>1. ~IsPrefix(q, Front(s)) /\ ~IsPrefix(p, Front(s))
        BY <1>1, <3>2, PrefixOfParent DEF IsStrictPrefix
      <4>2. QED
        BY <1>1, <2>5, <3>1, <3>2, <4>1
    <3>3. CASE s # q /\ IsPrefix(q, s)
      <4>1. Src(s) \in Paths /\ Exists(Src(s))
        BY <2>1, <2>6, <3>3 DEF Exists
      <4>2. Src(s) # Root /\ Src(Front(s)) = Front(Src(s))
        BY <1>1, <3>3, MovedParent DEF Src
      <4>3. Is(Front(Src(s)), "dir") /\ Front(Src(s)) \in Paths
        BY <4>1, <4>2, ParentPath DEF TreeOK
      <4>4. IsPrefix(q, Front(s))
        BY <1>1, <3>3, PrefixOfParent
      <4>5. tree'[Front(s)] = tree[Front(Src(s))]
        BY <2>10, <3>1, <4>2, <4>3, <4>4
      <4>6. QED
        BY <1>1, <3>1, <4>3, <4>5 DEF Is, Exists
    <3>4. CASE s # q /\ ~IsPrefix(q, s)
      <4>1. ~IsPrefix(p, s) /\ Exists(s)
        BY <2>1, <2>6, <3>4 DEF Exists
      <4>2. Is(Front(s), "dir")
        BY <4>1 DEF TreeOK
      <4>3. ~IsPrefix(q, Front(s)) /\ ~IsPrefix(p, Front(s))
        BY <1>1, <3>4, <4>1, PrefixOfParent
      <4>4. QED
        BY <2>5, <3>1, <4>2, <4>3
    <3>5. QED
      BY <3>2, <3>3, <3>4
  <2>7. TreeTypeOK'
    BY <1>1, <2>2 DEF TreeOK, TreeTypeOK
  <2>8. QED
    BY <1>1, <2>4, <2>6, <2>7 DEF TreeOK, Exists
<1>4. QED
  BY <1>2, <1>3

(* What exists lies in directories only.                                   *)
LEMMA AncestorDir ==
    ASSUME TreeOK, NEW q \in Paths, NEW s \in Paths, IsPrefix(q, s), q # s, Exists(s)
    PROVE  Is(q, "dir")
<1> DEFINE Under == {x \in Paths : IsPrefix(q, x) /\ q # x /\ Exists(x)}
           Depths == {Len(x) : x \in Under}
<1>1. \A x \in Paths : x \in Seq(Names) /\ Len(x) \in Nat
  BY PathsDef, LenProperties
<1>2. Depths \in SUBSET Nat /\ Depths # {}
  BY <1>1
<1>3. PICK n \in Depths : \A m \in Depths : n <= m
  BY <1>2, Smallest
<1>4. PICK x \in Under : Len(x) = n
  BY <1>3
<1>5. x # Root
  BY <1>4, MovedParent
<1>6. IsPrefix(q, Front(x)) /\ Front(x) \in Paths /\ Is(Front(x), "dir")
  BY <1>4, <1>5, PrefixOfParent, ParentPath DEF TreeOK
<1>7. Len(Front(x)) = n - 1 /\ n \in Nat
  BY <1>1, <1>4, <1>5, FrontProperties DEF Root
<1>8. Front(x) \notin Under
  <2>1. SUFFICES ASSUME Front(x) \in Under PROVE FALSE
    OBVIOUS
  <2>2. n <= Len(Front(x))
    BY <1>3, <2>1
  <2>3. QED
    BY <1>7, <2>2
<1>9. QED
  BY <1>6, <1>8 DEF Is

(* A rename moves what is at or below the old name; but for a file that is *)
(* replaced, nothing else changes.                                         *)
LEMMA RenameMoves ==
    ASSUME TreeOK, NEW p, NEW q, RenameOk(p, q), Rename(p, q)
    PROVE  /\ tree'[q] = tree[p]
           /\ Exists(p)' => tree'[p] = tree'[q]
           /\ \A s \in Paths :
                Exists(s) /\ tree'[s] # tree[s] => s = q \/ IsPrefix(p, s)
<1>1. p \in Paths /\ q \in Paths /\ Exists(p)
  BY DEF RenameOk, HasParent, Exists
<1>2. CASE tree[p] = tree[q]
  BY <1>2 DEF Rename
<1>3. CASE tree[p] # tree[q]
  <2> DEFINE Src(s) == p \o Below(q, s)
  <2>1. tree' = [s \in Paths |->
                    IF IsPrefix(q, s)
                    THEN IF Src(s) \in Paths THEN tree[Src(s)] ELSE None
                    ELSE IF IsPrefix(p, s) THEN None ELSE tree[s]]
    BY <1>3 DEF Rename
  <2>2. IsPrefix(q, q) /\ IsPrefix(p, p) /\ Src(q) = p
    BY <1>1, PathsDef, PrefixSelf, MovedItself DEF Src
  <2> HIDE DEF Src
  <2>3. tree'[q] = tree[p]
    BY <1>1, <2>1, <2>2
  <2>4. ASSUME NEW s \in Paths, IsPrefix(q, s), s # q, Exists(s)
        PROVE  FALSE
    <3>1. Is(q, "dir")
      BY <1>1, <2>4, AncestorDir
    <3>2. Empty(q)
      BY <1>3, <3>1 DEF RenameOk, Is
    <3>3. QED
      BY <2>4, <3>2 DEF Empty, IsStrictPrefix
  <2>5. ~IsPrefix(q, p)
    BY <1>1, <1>3, <2>4
  <2>6. tree'[p] = None
    BY <1>1, <2>1, <2>2, <2>5
  <2>7. ASSUME NEW s \in Paths, Exists(s), tree'[s] # tree[s], s # q
        PROVE  IsPrefix(p, s)
    <3>1. ~IsPrefix(q, s)
      BY <2>4, <2>7
    <3>2. QED
      BY <2>1, <2>7, <3>1
  <2>8. QED
    BY <2>3, <2>6, <2>7 DEF Exists
<1>4. QED
  BY <1>2, <1>3
=============================================================================
