--------------------------- MODULE ReaddirProofs ----------------------------
(***************************************************************************)
(* Theorems about Readdir, for any names, paths, sizes of pages and number *)
(* of changes: the pages of a listing are from one path, a refusal has a   *)
(* cause, and what a listing misses or repeats is bounded by the changes   *)
(* made to the directory while it went on.                                 *)
(***************************************************************************)
EXTENDS Readdir, FiniteSetTheorems, TLAPS

-----------------------------------------------------------------------------
(* Sets of a bounded size. *)

LEMMA NoMore ==
    ASSUME NEW A, NEW B, IsFiniteSet(B), A \subseteq B
    PROVE  IsFiniteSet(A) /\ Cardinality(A) \in Nat /\ Cardinality(A) <= Cardinality(B)
BY FS_Subset, FS_CardinalityType

(* B and one more. *)
LEMMA OneMore ==
    ASSUME NEW A, NEW B, NEW X, IsFiniteSet(B), A \subseteq B \cup X,
           \A x, y \in X : x = y
    PROVE  Cardinality(A) <= Cardinality(B) + 1
<1>1. Cardinality(B) \in Nat
  BY FS_CardinalityType
<1>2. CASE X = {}
  <2>1. A \subseteq B
    BY <1>2
  <2>2. Cardinality(A) \in Nat /\ Cardinality(A) <= Cardinality(B)
    BY <2>1, NoMore
  <2>3. QED
    BY <1>1, <2>2
<1>3. CASE X # {}
  <2>1. PICK x \in X : TRUE
    BY <1>3
  <2>2. A \subseteq B \cup {x}
    BY <2>1
  <2>3. IsFiniteSet(B \cup {x}) /\ Cardinality(B \cup {x}) <= Cardinality(B) + 1
    BY <1>1, FS_AddElement
  <2>4. Cardinality(A) \in Nat /\ Cardinality(A) <= Cardinality(B \cup {x})
    BY <2>2, <2>3, NoMore
  <2>5. Cardinality(B \cup {x}) \in Nat
    BY <2>3, FS_CardinalityType
  <2>6. QED
    BY <1>1, <2>3, <2>4, <2>5
<1>4. QED
  BY <1>2, <1>3

-----------------------------------------------------------------------------
(* Positions in a directory d. *)
Directory(d) == d \subseteq Nat \ {0} /\ IsFiniteSet(d)

LEMMA PositionType ==
    ASSUME NEW d, Directory(d), NEW n \in d
    PROVE  Position(d, n) \in 1..Cardinality(d)
<1> DEFINE B == {m \in d : m < n}
<1>1. IsFiniteSet(d \ {n}) /\ Cardinality(d \ {n}) = Cardinality(d) - 1
  BY FS_RemoveElement DEF Directory
<1>2. B \subseteq d \ {n}
  BY DEF Directory
<1>3. Cardinality(B) \in Nat /\ Cardinality(B) <= Cardinality(d \ {n})
  BY <1>1, <1>2, NoMore
<1>4. Cardinality(d) \in Nat
  BY FS_CardinalityType DEF Directory
<1> HIDE DEF B
<1>5. Cardinality(B) + 1 \in 1..Cardinality(d)
  BY <1>1, <1>3, <1>4
<1>6. QED
  BY <1>5 DEF Position, B

LEMMA PositionGrows ==
    ASSUME NEW d, Directory(d), NEW m \in d, NEW n \in d, m < n
    PROVE  Position(d, m) < Position(d, n)
<1> DEFINE A == {x \in d : x < m}  B == {x \in d : x < n}
<1>1. IsFiniteSet(A) /\ IsFiniteSet(B)
  BY FS_Subset DEF Directory
<1>2. m \notin A /\ A \cup {m} \subseteq B
  <2>1. \A x \in d : x \in Nat
    BY DEF Directory
  <2>2. ~(m < m) /\ \A x \in d : x < m => x < n
    BY <2>1
  <2>3. QED
    BY <2>2
<1>3. IsFiniteSet(A \cup {m}) /\ Cardinality(A \cup {m}) = Cardinality(A) + 1
  BY <1>1, <1>2, FS_AddElement
<1>4. Cardinality(A \cup {m}) <= Cardinality(B)
  BY <1>1, <1>2, NoMore
<1>5. Cardinality(A) \in Nat /\ Cardinality(B) \in Nat
  BY <1>1, FS_CardinalityType
<1> HIDE DEF A, B
<1>6. Cardinality(A) + 1 < Cardinality(B) + 1
  BY <1>3, <1>4, <1>5
<1>7. QED
  BY <1>6 DEF Position, A, B

LEMMA PositionApart ==
    ASSUME NEW d, Directory(d), NEW m \in d, NEW n \in d, Position(d, m) = Position(d, n)
    PROVE  m = n
<1>1. Position(d, m) \in Nat /\ m \in Nat /\ n \in Nat
  <2>1. Position(d, m) \in 1..Cardinality(d)
    BY PositionType
  <2>2. QED
    BY <2>1 DEF Directory
<1>2. ~(m < n) /\ ~(n < m)
  BY <1>1, PositionGrows
<1>3. QED
  BY <1>1, <1>2

(* Each position from the first to the last is taken. *)
LEMMA PositionOnto ==
    ASSUME NEW d, Directory(d), NEW i \in 1..Cardinality(d)
    PROVE  \E n \in d : Position(d, n) = i
<1> DEFINE f == [n \in d |-> Position(d, n)]
           T == 1..Cardinality(d)
<1>1. Cardinality(d) \in Nat /\ IsFiniteSet(d)
  BY FS_CardinalityType DEF Directory
<1>2. IsFiniteSet(T) /\ Cardinality(T) = Cardinality(d)
  BY <1>1, FS_Interval
<1>3. f \in Injection(d, T)
  <2>1. f \in [d -> T]
    BY PositionType
  <2>2. \A m, n \in d : f[m] = f[n] => m = n
    BY PositionApart
  <2>3. QED
    BY <2>1, <2>2 DEF Injection, IsInjective
<1>4. f \in Surjection(d, T)
  BY <1>2, <1>3, FS_Injection
<1>5. QED
  BY <1>4 DEF Surjection

(* A name is added: those after it move up by one. *)
LEMMA PositionAdded ==
    ASSUME NEW d, Directory(d), NEW a \in Nat \ {0}, a \notin d, NEW n \in d
    PROVE  /\ Directory(d \cup {a})
           /\ Position(d \cup {a}, n) = IF a < n THEN Position(d, n) + 1
                                                 ELSE Position(d, n)
<1> DEFINE A == {x \in d : x < n}  B == {x \in d \cup {a} : x < n}
<1>1. IsFiniteSet(A) /\ a \notin A
  BY FS_Subset DEF Directory
<1>2. CASE a < n
  <2>1. B = A \cup {a}
    BY <1>2
  <2>2. Cardinality(B) = Cardinality(A) + 1
    BY <1>1, <2>1, FS_AddElement
  <2>3. QED
    BY <1>2, <2>2, FS_AddElement DEF Position, Directory
<1>3. CASE ~(a < n)
  <2>1. B = A
    BY <1>3
  <2>2. QED
    BY <1>3, <2>1, FS_AddElement DEF Position, Directory
<1>4. QED
  BY <1>2, <1>3

LEMMA PositionRemoved ==
    ASSUME NEW d, Directory(d), NEW a \in d, NEW n \in d \ {a}
    PROVE  /\ Directory(d \ {a})
           /\ Position(d, n) = IF a < n THEN Position(d \ {a}, n) + 1
                                        ELSE Position(d \ {a}, n)
<1>1. Directory(d \ {a}) /\ a \in Nat \ {0} /\ (d \ {a}) \cup {a} = d
  BY FS_RemoveElement DEF Directory
<1>2. QED
  BY <1>1, PositionAdded

(* readdir(3) returns the names in the order of their positions. *)
LEMMA SortedGood ==
    ASSUME Directory(dir)
    PROVE  /\ Sorted \in Seq(dir) /\ Len(Sorted) = Cardinality(dir)
           /\ \A i \in 1..Len(Sorted) : Sorted[i] \in dir /\ Position(dir, Sorted[i]) = i
           /\ \A n \in dir : /\ Position(dir, n) \in 1..Len(Sorted)
                             /\ Sorted[Position(dir, n)] = n
           /\ \A i, j \in 1..Len(Sorted) : i < j => Sorted[i] < Sorted[j]
<1>1. Cardinality(dir) \in Nat
  BY FS_CardinalityType DEF Directory
<1>2. \A i \in 1..Cardinality(dir) : Sorted[i] \in dir /\ Position(dir, Sorted[i]) = i
  BY PositionOnto DEF Sorted
<1>3. Sorted \in Seq(dir) /\ Len(Sorted) = Cardinality(dir)
  BY <1>1, <1>2 DEF Sorted
<1>4. \A n \in dir : /\ Position(dir, n) \in 1..Cardinality(dir)
                     /\ Sorted[Position(dir, n)] = n
  BY <1>2, PositionType, PositionApart
<1>5. ASSUME NEW i \in 1..Cardinality(dir), NEW j \in 1..Cardinality(dir), i < j
      PROVE  Sorted[i] < Sorted[j]
  <2>1. Sorted[i] \in Nat /\ Sorted[j] \in Nat
    BY <1>2 DEF Directory
  <2>2. ~(Sorted[j] < Sorted[i]) /\ Sorted[i] # Sorted[j]
    BY <1>1, <1>2, <1>5, PositionGrows
  <2>3. QED
    BY <2>1, <2>2
<1>6. QED
  BY <1>2, <1>3, <1>4, <1>5

-----------------------------------------------------------------------------
(* Of the names S, those a listing that has come to position x has passed, *)
(* and those it has still before it.                                       *)
Behind(S, d, x) == {n \in S \cap d : Position(d, n) <= x}
Ahead(S, d, x)  == {n \in S \cap d : Position(d, n) > x}

LEMMA PositionNat ==
    ASSUME NEW d, Directory(d)
    PROVE  \A n \in d : Position(d, n) \in Nat /\ Position(d, n) >= 1
<1>1. \A n \in d : Position(d, n) \in 1..Cardinality(d)
  BY PositionType
<1>2. QED
  BY <1>1

LEMMA PassedFinite ==
    ASSUME NEW S, NEW d, NEW x, Directory(d)
    PROVE  /\ IsFiniteSet(Behind(S, d, x)) /\ Cardinality(Behind(S, d, x)) \in Nat
           /\ IsFiniteSet(Ahead(S, d, x)) /\ Cardinality(Ahead(S, d, x)) \in Nat
<1>1. Behind(S, d, x) \subseteq d /\ Ahead(S, d, x) \subseteq d /\ IsFiniteSet(d)
  BY DEF Behind, Ahead, Directory
<1>2. QED
  BY <1>1, NoMore

(* One name is removed: at most one of the others falls behind. *)
LEMMA BehindRemoved ==
    ASSUME NEW d, Directory(d), NEW a \in d, NEW S, NEW x \in Int
    PROVE  Cardinality(Behind(S \ {a}, d \ {a}, x)) <= Cardinality(Behind(S, d, x)) + 1
<1> DEFINE X == {n \in d : Position(d, n) = x + 1}
<1>1. \A n \in d \ {a} : /\ Position(d, n) \in {Position(d \ {a}, n), Position(d \ {a}, n) + 1}
                         /\ Position(d \ {a}, n) \in Nat
  <2>1. \A n \in d \ {a} : Position(d, n) \in {Position(d \ {a}, n), Position(d \ {a}, n) + 1}
    BY PositionRemoved
  <2>2. d \ {a} # {} => Directory(d \ {a})
    BY PositionRemoved
  <2>3. QED
    BY <2>1, <2>2, PositionNat
<1>2. \A n \in d \ {a} : Position(d \ {a}, n) <= x => Position(d, n) <= x \/ Position(d, n) = x + 1
  BY <1>1
<1>3. Behind(S \ {a}, d \ {a}, x) \subseteq Behind(S, d, x) \cup X
  BY <1>2 DEF Behind
<1>4. \A m, n \in X : m = n
  BY PositionApart
<1>5. QED
  BY <1>3, <1>4, PassedFinite, OneMore

(* One is added that does not count: nothing falls behind. *)
LEMMA BehindAdded ==
    ASSUME NEW d, Directory(d), NEW a \in Nat \ {0}, a \notin d, NEW S, a \notin S,
           NEW x \in Int
    PROVE  Cardinality(Behind(S, d \cup {a}, x)) <= Cardinality(Behind(S, d, x))
<1>1. \A n \in d : /\ Position(d \cup {a}, n) \in {Position(d, n), Position(d, n) + 1}
                   /\ Position(d, n) \in Nat
  BY PositionAdded, PositionNat
<1>2. Behind(S, d \cup {a}, x) \subseteq Behind(S, d, x)
  BY <1>1 DEF Behind
<1>3. QED
  BY <1>2, PassedFinite, NoMore

(* One position on, one name more. *)
LEMMA BehindNext ==
    ASSUME NEW d, Directory(d), NEW S, NEW x \in Int
    PROVE  Cardinality(Behind(S, d, x + 1)) <= Cardinality(Behind(S, d, x)) + 1
<1> DEFINE X == {n \in d : Position(d, n) = x + 1}
<1>1. Behind(S, d, x + 1) \subseteq Behind(S, d, x) \cup X
  BY PositionNat DEF Behind
<1>2. \A m, n \in X : m = n
  BY PositionApart
<1>3. QED
  BY <1>1, <1>2, PassedFinite, OneMore

LEMMA AheadRemoved ==
    ASSUME NEW d, Directory(d), NEW a \in d, NEW S, NEW x \in Int
    PROVE  Ahead(S, d \ {a}, x) \subseteq Ahead(S, d, x)
<1>1. \A n \in d \ {a} : /\ Position(d, n) \in {Position(d \ {a}, n), Position(d \ {a}, n) + 1}
                         /\ Position(d \ {a}, n) \in Nat
  <2>1. \A n \in d \ {a} : Position(d, n) \in {Position(d \ {a}, n), Position(d \ {a}, n) + 1}
    BY PositionRemoved
  <2>2. d \ {a} # {} => Directory(d \ {a})
    BY PositionRemoved
  <2>3. QED
    BY <2>1, <2>2, PositionNat
<1>2. \A n \in d \ {a} : Position(d \ {a}, n) > x => Position(d, n) > x
  BY <1>1
<1>3. QED
  BY <1>2 DEF Ahead

(* One is added: either it is ahead itself, or one of the others gets       *)
(* ahead, and not both.                                                    *)
LEMMA AheadAdded ==
    ASSUME NEW d, Directory(d), NEW a \in Nat \ {0}, a \notin d, NEW S, NEW T,
           NEW x \in Int, IsFiniteSet(T)
    PROVE  Cardinality(T \cup Ahead(S, d \cup {a}, x))
                <= Cardinality(T \cup Ahead(S, d, x)) + 1
<1> DEFINE p == Position(d \cup {a}, a)
           X == {n \in d : a < n /\ Position(d, n) = x /\ p <= x} \cup {n \in {a} : p > x}
<1>1. Directory(d \cup {a})
  BY FS_AddElement DEF Directory
<1>2. /\ p \in Nat
      /\ \A n \in d : Position(d, n) \in Nat /\ Position(d \cup {a}, n) \in Nat
  BY <1>1, PositionNat
<1>3. \A n \in d : /\ Position(d \cup {a}, n) \in {Position(d, n), Position(d, n) + 1}
                   /\ Position(d \cup {a}, n) # Position(d, n) =>
                        a < n /\ Position(d \cup {a}, n) = Position(d, n) + 1
  BY PositionAdded
<1>4. \A n \in d : a < n => p < Position(d \cup {a}, n)
  BY <1>1, PositionGrows
<1>5. ASSUME NEW n \in d, Position(d \cup {a}, n) > x, ~(Position(d, n) > x)
      PROVE  a < n /\ Position(d, n) = x /\ p <= x
  BY <1>2, <1>3, <1>4, <1>5
<1>6. Ahead(S, d \cup {a}, x) \subseteq Ahead(S, d, x) \cup X
  BY <1>5 DEF Ahead
<1>7. \A m, n \in X : m = n
  <2>1. \A m, n \in d : Position(d, m) = x /\ Position(d, n) = x => m = n
    BY PositionApart
  <2>2. QED
    BY <1>2, <2>1
<1>8. IsFiniteSet(T \cup Ahead(S, d, x))
  BY PassedFinite, FS_Union
<1>9. QED
  BY <1>6, <1>7, <1>8, OneMore

LEMMA AheadBefore ==
    ASSUME NEW d, Directory(d), NEW S, NEW T, NEW x \in Int, IsFiniteSet(T)
    PROVE  Cardinality(T \cup Ahead(S, d, x - 1))
                <= Cardinality(T \cup Ahead(S, d, x)) + 1
<1> DEFINE X == {n \in d : Position(d, n) = x}
<1>1. Ahead(S, d, x - 1) \subseteq Ahead(S, d, x) \cup X
  BY PositionNat DEF Ahead
<1>2. \A m, n \in X : m = n
  BY PositionApart
<1>3. IsFiniteSet(T \cup Ahead(S, d, x))
  BY PassedFinite, FS_Union
<1>4. QED
  BY <1>1, <1>2, <1>3, OneMore

-----------------------------------------------------------------------------
(* hash, for paths of any length: its loop ends with an integer of its      *)
(* width, and of the absolute values -Half alone is out of range.          *)

LEMMA Least ==
    ASSUME NEW T \in SUBSET Nat, T # {}
    PROVE  \E n \in T : \A m \in T : ~(m < n)
<1>1. PICK n \in T : \A m \in T : ~(<<m, n>> \in OpToRel(<, Nat))
  BY NatLessThanWellFounded, WFMin
<1>2. QED
  BY <1>1 DEF OpToRel

LEMMA ToIntRange == \A x \in Int : ToInt(x) \in -Half .. Half - 1
<1> SUFFICES ASSUME NEW x \in Int PROVE ToInt(x) \in -Half .. Half - 1
  OBVIOUS
<1> DEFINE K == 2 * Half
           m == x % K
<1>1. K \in Nat \ {0} /\ Half \in Nat \ {0}
  BY ReaddirAssumption
<1> HIDE DEF K
<1>2. m \in 0 .. K - 1
  BY <1>1
<1> HIDE DEF m
<1>3. (IF m < Half THEN m ELSE m - K) \in -Half .. Half - 1
  BY <1>1, <1>2 DEF K
<1>4. QED
  BY <1>3 DEF ToInt, m, K

LEMMA SignedRange ==
    ASSUME NEW s \in Seq(Nat)
    PROVE  signed(s) \in -Half .. Half - 1
<1> DEFINE Loop(g, n) == g = [i \in 0..n |-> IF i = 0 THEN 0
                                             ELSE ToInt(31 * g[i - 1] + s[i])]
<1>1. Len(s) \in Nat /\ \A i \in 1..Len(s) : s[i] \in Nat
  OBVIOUS
<1>2. \A n \in 0..Len(s) : \E g : Loop(g, n)
  <2> DEFINE T == {n \in 0..Len(s) : ~ \E g : Loop(g, n)}
  <2> SUFFICES ASSUME T # {} PROVE FALSE
    OBVIOUS
  <2>1. T \in SUBSET Nat
    BY <1>1
  <2>2. PICK n \in T : \A m \in T : ~(m < n)
    BY <2>1, Least
  <2>3. n \in Nat /\ n <= Len(s) /\ ~ \E g : Loop(g, n)
    BY <1>1
  <2>4. CASE n = 0
    <3>1. Loop([i \in 0..0 |-> 0], 0)
      OBVIOUS
    <3>2. QED
      BY <2>3, <2>4, <3>1
  <2>5. CASE n # 0
    <3>1. n - 1 \in 0..Len(s) /\ n - 1 < n
      BY <1>1, <2>3, <2>5
    <3>2. n - 1 \notin T
      BY <2>2, <3>1
    <3>3. PICK g : Loop(g, n - 1)
      BY <3>1, <3>2
    <3> DEFINE e == [i \in 0..n |-> IF i = 0 THEN 0 ELSE ToInt(31 * g[i - 1] + s[i])]
    <3>4. \A i \in 0..(n - 1) : e[i] = g[i]
      BY <2>3, <3>3
    <3>5. \A i \in 0..n : i # 0 => e[i - 1] = g[i - 1]
      <4> HIDE DEF e
      <4>1. \A i \in 0..n : i # 0 => i - 1 \in 0..(n - 1)
        BY <2>3
      <4>2. QED
        BY <3>4, <4>1
    <3>6. Loop(e, n)
      BY <3>5
    <3>7. QED
      BY <2>3, <3>6
  <2>6. QED
    BY <2>4, <2>5
<1>3. PICK h : Loop(h, Len(s)) /\ signed(s) = h[Len(s)]
  <2> DEFINE h == CHOOSE g : Loop(g, Len(s))
  <2>1. Loop(h, Len(s))
    <3>1. \E g : Loop(g, Len(s))
      BY <1>1, <1>2
    <3> HIDE DEF Loop
    <3>2. QED
      BY <3>1, Zenon
  <2>2. signed(s) = h[Len(s)]
    BY DEF signed
  <2>3. QED
    BY <2>1, <2>2
<1>4. \A i \in 0..Len(s) : h[i] \in -Half .. Half - 1
  <2> DEFINE T == {i \in 0..Len(s) : h[i] \notin -Half .. Half - 1}
  <2> SUFFICES ASSUME T # {} PROVE FALSE
    OBVIOUS
  <2>1. T \in SUBSET Nat
    BY <1>1
  <2>2. PICK i \in T : \A j \in T : ~(j < i)
    BY <2>1, Least
  <2>3. h[i] = IF i = 0 THEN 0 ELSE ToInt(31 * h[i - 1] + s[i])
    BY <1>3, <2>2
  <2>4. i \in Nat /\ i <= Len(s)
    BY <1>1, <2>2
  <2>5. i # 0
    BY <2>2, <2>3, ReaddirAssumption
  <2>6. i - 1 \in 0..Len(s) /\ i - 1 < i
    BY <1>1, <2>4, <2>5
  <2>7. h[i - 1] \in Int
    BY <2>2, <2>6, ReaddirAssumption
  <2>8. 31 * h[i - 1] + s[i] \in Int
    BY <1>1, <2>4, <2>5, <2>7
  <2>9. QED
    BY <2>2, <2>3, <2>5, <2>8, ToIntRange
<1>5. QED
  BY <1>1, <1>3, <1>4

LEMMA HashRange == \A p \in Paths : hash(p) \in Verfs
BY SignedRange, ReaddirAssumption DEF hash, Verfs

-----------------------------------------------------------------------------
(* What process_entry makes of a request. *)

Request ==
    [pc : {"idle", "fhandle", "readdir", "stat", "plus_lstat", "plus_lookup",
           "plus_readdir", "sent"},
     proc : {"READDIR", "READDIRPLUS"}, path : Paths \cup {<<>>},
     cookie : Nat, verf : Verfs, room : Rooms \cup {Idle.room},
     todo : Seq(Entries), read : BOOLEAN, cook : Nat \ {0}, sz : Nat, totsz : Nat,
     eof : BOOLEAN, err : BOOLEAN, out : Seq([name : Entries, cookie : Nat]),
     status : {"OK", "IO", "NOTDIR", "BADHANDLE", "BAD_COOKIE"}, calm : BOOLEAN]

(* What no step of the chains changes but where it is said. *)
Same(r, t) == /\ t.proc = r.proc /\ t.path = r.path /\ t.cookie = r.cookie
              /\ t.verf = r.verf /\ t.read = r.read /\ t.err = r.err
              /\ t.out = r.out /\ (t.calm => r.calm)

(* After the entries to be skipped it comes to one to be listed, or has    *)
(* done with all of them: as there were no more, or not on this page.      *)
Processed(r, t) ==
    LET s == Skipped(r)
    IN  /\ Same(r, t) /\ t.cook = r.cook + s
        /\ \/ /\ t.pc = "plus_lstat" /\ t.status = r.status
              /\ s < Len(r.todo) /\ t.todo = SubSeq(r.todo, s + 1, Len(r.todo))
              /\ r.eof /\ t.eof /\ ~r.err
           \/ /\ t.pc = IF ~r.read THEN "plus_readdir"
                        ELSE IF r.err THEN "sent" ELSE "stat"
              /\ t.status = IF r.read /\ r.err THEN "IO" ELSE r.status
              /\ t.todo = <<>>
              /\ t.eof => r.eof /\ (r.err \/ s = Len(r.todo))
              /\ ~t.eof => ~r.eof \/ s < Len(r.todo)

LEMMA CookiesNat == Cookies \subseteq Nat /\ 0 \in Cookies /\ Entries \subseteq Int
<1>1. Cardinality(Names) \in Nat
  BY FS_CardinalityType, ReaddirAssumption
<1>2. QED
  BY <1>1, ReaddirAssumption DEF Cookies, Entries

LEMMA SkippedGood ==
    ASSUME NEW r \in Request
    PROVE  /\ Skipped(r) \in 0..Len(r.todo)
           /\ Skipped(r) > 0 => r.cook + Skipped(r) - 1 <= r.cookie
           /\ Skipped(r) < Len(r.todo) => r.cookie < r.cook + Skipped(r)
<1> DEFINE l == Len(r.todo)  c == r.cookie  k == r.cook
<1>1. l \in Nat /\ c \in Nat /\ k \in Nat \ {0}
  BY DEF Request
<1>2. Skipped(r) = IF c # 0 /\ c >= k THEN Min({l, c - k + 1}) ELSE 0
  BY DEF Skipped
<1> HIDE DEF l, c, k
<1>3. CASE c # 0 /\ c >= k
  <2>1. Min({l, c - k + 1}) = IF l <= c - k + 1 THEN l ELSE c - k + 1
    BY <1>1 DEF Min
  <2>2. Skipped(r) = IF l <= c - k + 1 THEN l ELSE c - k + 1
    BY <1>2, <1>3, <2>1
  <2>3. QED
    BY <1>1, <1>3, <2>2 DEF l, c, k
<1>4. CASE ~(c # 0 /\ c >= k)
  <2>1. Skipped(r) = 0
    BY <1>2, <1>4
  <2>2. QED
    BY <1>1, <1>4, <2>1 DEF l, c, k
<1>5. QED
  BY <1>3, <1>4

LEMMA Rest ==
    ASSUME NEW S, NEW q \in Seq(S), NEW i \in 0..Len(q)
    PROVE  /\ SubSeq(q, i + 1, Len(q)) \in Seq(S)
           /\ Len(SubSeq(q, i + 1, Len(q))) = Len(q) - i
           /\ \A j \in 1..(Len(q) - i) : SubSeq(q, i + 1, Len(q))[j] = q[i + j]
           /\ SubSeq(q, i + 1, Len(q)) = <<>> <=> i = Len(q)
<1> DEFINE t == SubSeq(q, i + 1, Len(q))
<1>1. Len(q) \in Nat /\ i \in Nat /\ i <= Len(q)
  OBVIOUS
<1>2. t \in Seq(S) /\ Len(t) = Len(q) - i
  BY <1>1
<1>3. \A j \in 1..(Len(q) - i) : t[j] = q[i + j]
  BY <1>1
<1> HIDE DEF t
<1>4. t = <<>> <=> Len(t) = 0
  BY <1>2
<1>5. t = <<>> <=> i = Len(q)
  BY <1>1, <1>2, <1>4
<1>6. QED
  BY <1>2, <1>3, <1>5 DEF t

LEMMA SkipGood ==
    ASSUME NEW r \in Request
    PROVE  /\ Skip(r) \in Request
           /\ Same(r, Skip(r)) /\ Skip(r).cook = r.cook + Skipped(r)
           /\ Skip(r).todo = SubSeq(r.todo, Skipped(r) + 1, Len(r.todo))
           /\ Skip(r).pc = r.pc /\ Skip(r).status = r.status /\ Skip(r).eof = r.eof
           /\ Skip(r).todo = <<>> <=> Skipped(r) = Len(r.todo)
<1>1. Skipped(r) \in 0..Len(r.todo)
  BY SkippedGood
<1>2. r.todo \in Seq(Entries) /\ r.cook \in Nat \ {0} /\ Len(r.todo) \in Nat
  BY DEF Request
<1>3. /\ SubSeq(r.todo, Skipped(r) + 1, Len(r.todo)) \in Seq(Entries)
      /\ r.cook + Skipped(r) \in Nat \ {0}
  BY <1>1, <1>2
<1>4. SubSeq(r.todo, Skipped(r) + 1, Len(r.todo)) = <<>> <=> Skipped(r) = Len(r.todo)
  BY <1>1, <1>2, Rest
<1>5. QED
  BY <1>3, <1>4 DEF Skip, Same, Request

LEMMA Cut ==
    ASSUME NEW r \in Request
    PROVE  LET t == [r EXCEPT !.todo = <<>>]
               u == [r EXCEPT !.todo = <<>>, !.eof = FALSE]
           IN  /\ t \in Request /\ Same(r, t) /\ t.cook = r.cook /\ t.todo = <<>>
               /\ t.status = r.status /\ t.eof = r.eof
               /\ u \in Request /\ Same(r, u) /\ u.cook = r.cook /\ u.todo = <<>>
               /\ u.status = r.status /\ u.eof = FALSE
<1>1. <<>> \in Seq(Entries) /\ FALSE \in BOOLEAN
  OBVIOUS
<1>2. [r EXCEPT !.todo = <<>>] \in Request
  BY <1>1 DEF Request
<1>3. [r EXCEPT !.todo = <<>>, !.eof = FALSE] \in Request
  BY <1>1 DEF Request
<1>4. QED
  BY <1>2, <1>3 DEF Request, Same

LEMMA NextStageGood ==
    ASSUME NEW r \in Request, NextStage(r)
    PROVE  /\ rq' \in Request /\ Same(r, rq') /\ rq'.cook = r.cook
           /\ rq'.todo = r.todo /\ rq'.eof = r.eof
           /\ rq'.pc = IF ~r.read THEN "plus_readdir"
                       ELSE IF r.err THEN "sent" ELSE "stat"
           /\ rq'.status = IF r.read /\ r.err THEN "IO" ELSE r.status
<1>1. CASE ~r.read
  <2>1. rq' = [r EXCEPT !.pc = "plus_readdir"]
    BY <1>1 DEF NextStage
  <2>2. QED
    BY <1>1, <2>1 DEF Request, Same
<1>2. CASE r.read /\ r.err
  <2>1. rq' = [r EXCEPT !.pc = "sent", !.status = "IO"]
    BY <1>2 DEF NextStage, SendR
  <2>2. QED
    BY <1>2, <2>1 DEF Request, Same
<1>3. CASE r.read /\ ~r.err
  <2>1. rq' = [r EXCEPT !.pc = "stat"]
    BY <1>3 DEF NextStage
  <2>2. QED
    BY <1>3, <2>1 DEF Request, Same
<1>4. QED
  BY <1>1, <1>2, <1>3

LEMMA ProcessEntry ==
    ASSUME NEW r0 \in Request, process_entry(r0)
    PROVE  rq' \in Request /\ Processed(r0, rq')
<1> DEFINE r == Skip(r0)
           sz == r.sz + 20 + byteLength(Head(r.todo))
           totsz == r.totsz + 28 + byteLength(Head(r.todo)) + 84 + 64
           full  == [r EXCEPT !.todo = <<>>, !.eof = FALSE]
<1>1. /\ r \in Request /\ Same(r0, r) /\ r.cook = r0.cook + Skipped(r0)
      /\ r.todo = SubSeq(r0.todo, Skipped(r0) + 1, Len(r0.todo))
      /\ r.pc = r0.pc /\ r.status = r0.status /\ r.eof = r0.eof
      /\ r.todo = <<>> <=> Skipped(r0) = Len(r0.todo)
  BY SkipGood
<1>2. Skipped(r0) \in 0..Len(r0.todo) /\ Len(r0.todo) \in Nat
  <2>1. r0.todo \in Seq(Entries)
    BY DEF Request
  <2>2. QED
    BY <2>1, SkippedGood
<1>3. sz \in Nat /\ totsz \in Nat
  <2>1. r.sz \in Nat /\ r.totsz \in Nat
    BY <1>1 DEF Request
  <2>2. byteLength(Head(r.todo)) \in Nat
    BY DEF byteLength
  <2>3. QED
    BY <2>1, <2>2
<1>4. \/ (r.todo = <<>> \/ ~r.eof \/ r.err) /\ NextStage([r EXCEPT !.todo = <<>>])
      \/ r.todo # <<>> /\ r.eof /\ NextStage(full)
      \/ r.todo # <<>> /\ r.eof /\ NextStage([full EXCEPT !.sz = sz])
      \/ /\ ~(r.todo = <<>> \/ ~r.eof \/ r.err)
         /\ rq' = [r EXCEPT !.pc = "plus_lstat", !.sz = sz, !.totsz = totsz]
  BY DEF process_entry
<1> HIDE DEF r, sz, totsz
<1>5. ASSUME NEW t \in Request, Same(r, t), t.cook = r.cook, t.todo = <<>>,
             t.status = r.status, NextStage(t),
             t.eof => r.eof /\ (r.todo = <<>> \/ r.err),
             ~t.eof => ~r.eof \/ r.todo # <<>>
      PROVE  rq' \in Request /\ Processed(r0, rq')
  <2>1. /\ rq' \in Request /\ Same(t, rq') /\ rq'.cook = t.cook
        /\ rq'.todo = <<>> /\ rq'.eof = t.eof
        /\ rq'.pc = IF ~t.read THEN "plus_readdir"
                    ELSE IF t.err THEN "sent" ELSE "stat"
        /\ rq'.status = IF t.read /\ t.err THEN "IO" ELSE t.status
    BY <1>5, NextStageGood
  <2>2. Same(r0, rq')
    BY <1>1, <1>5, <2>1 DEF Same
  <2>3. QED
    BY <1>1, <1>2, <1>5, <2>1, <2>2 DEF Processed, Same
<1>6. CASE (r.todo = <<>> \/ ~r.eof \/ r.err) /\ NextStage([r EXCEPT !.todo = <<>>])
  <2> DEFINE t == [r EXCEPT !.todo = <<>>]
  <2>1. /\ t \in Request /\ Same(r, t) /\ t.cook = r.cook /\ t.todo = <<>>
        /\ t.status = r.status /\ t.eof = r.eof
    BY <1>1, Cut
  <2> HIDE DEF t
  <2>2. NextStage(t)
    BY <1>6 DEF t
  <2>3. QED
    BY <1>5, <1>6, <2>1, <2>2
<1>7. CASE r.todo # <<>> /\ r.eof /\ NextStage(full)
  <2>1. /\ full \in Request /\ Same(r, full) /\ full.cook = r.cook /\ full.todo = <<>>
        /\ full.status = r.status /\ full.eof = FALSE
    BY <1>1, Cut
  <2> HIDE DEF full
  <2>2. QED
    BY <1>5, <1>7, <2>1
<1>8. CASE r.todo # <<>> /\ r.eof /\ NextStage([full EXCEPT !.sz = sz])
  <2> DEFINE t == [full EXCEPT !.sz = sz]
  <2>1. /\ full \in Request /\ Same(r, full) /\ full.cook = r.cook /\ full.todo = <<>>
        /\ full.status = r.status /\ full.eof = FALSE
    BY <1>1, Cut
  <2> HIDE DEF full
  <2>3. /\ t \in Request /\ Same(full, t) /\ t.cook = full.cook /\ t.todo = full.todo
        /\ t.status = full.status /\ t.eof = full.eof
    BY <1>3, <2>1 DEF Request, Same
  <2>4. /\ t \in Request /\ Same(r, t) /\ t.cook = r.cook /\ t.todo = <<>>
        /\ t.status = r.status /\ t.eof = FALSE
    BY <2>1, <2>3 DEF Same
  <2> HIDE DEF t
  <2>2. NextStage(t)
    BY <1>8 DEF t
  <2>5. QED
    BY <1>5, <1>8, <2>2, <2>4
<1>9. CASE /\ ~(r.todo = <<>> \/ ~r.eof \/ r.err)
           /\ rq' = [r EXCEPT !.pc = "plus_lstat", !.sz = sz, !.totsz = totsz]
  <2>0. rq' = [r EXCEPT !.pc = "plus_lstat", !.sz = sz, !.totsz = totsz]
    BY <1>9
  <2>1. /\ rq' \in Request /\ Same(r, rq') /\ rq'.cook = r.cook /\ rq'.todo = r.todo
        /\ rq'.status = r.status /\ rq'.eof = r.eof /\ rq'.pc = "plus_lstat"
    BY <1>1, <1>3, <2>0 DEF Request, Same
  <2>2. Same(r0, rq') /\ Skipped(r0) < Len(r0.todo)
    BY <1>1, <1>2, <1>9, <2>1 DEF Same
  <2>3. QED
    BY <1>1, <1>9, <2>1, <2>2 DEF Processed, Same
<1>10. QED
  BY <1>4, <1>6, <1>7, <1>8, <1>9

-----------------------------------------------------------------------------
(* The inductive invariant.  First what a request is at each pc, and how   *)
(* it belongs to the listing.                                              *)

Listing == [on : BOOLEAN, cookie : Cookies, verf : Verfs,
            last : {"none", "READDIR", "READDIRPLUS"}, room : Rooms \cup {Idle.room},
            status : {"none", "done", "IO", "NOTDIR", "BADHANDLE", "BAD_COOKIE"}]
Counts == [added : Nat, removed : Nat, moved : Nat, toPlain : Nat, toPlus : Nat]

Typed == /\ dir \subseteq Names /\ at \in Paths /\ known \in Paths
         /\ mvs \subseteq Paths \X Paths /\ rq \in Request /\ ls \in Listing
         /\ seen \subseteq Entries /\ twice \subseteq seen /\ stay \subseteq dir
         /\ changes \in Counts /\ from \subseteq Paths

(* A request whose path is known.                                           *)
Begun(r) == r.pc \notin {"idle", "fhandle"} /\ r.status # "BADHANDLE"
Phase(r) ==
    /\ r.pc \in {"idle", "fhandle", "readdir"} =>
            /\ ~r.read /\ ~r.err /\ r.eof /\ r.cook = 1
            /\ r.todo = <<>> /\ r.out = <<>>
    /\ r.pc = "readdir" => r.proc = "READDIR"
    /\ r.pc \in {"plus_lstat", "plus_lookup", "plus_readdir"} => r.proc = "READDIRPLUS"
    /\ Begun(r) => r.path \in Paths
    /\ r.pc \in {"plus_lstat", "plus_lookup"} =>
            r.todo # <<>> /\ r.eof /\ ~r.err /\ r.cookie < r.cook
    /\ r.pc = "plus_readdir" => ~r.read /\ r.todo = <<>>
    /\ r.pc = "stat" \/ (r.pc = "sent" /\ r.status = "OK") =>
            r.read /\ ~r.err /\ r.todo = <<>>
    /\ r.pc # "sent" => r.status = "OK"

Link == /\ rq.pc # "idle" => /\ ls.on /\ rq.proc = ls.last
                             /\ rq.cookie = ls.cookie /\ rq.verf = ls.verf
        /\ rq.pc = "idle" => rq.cookie = 0
        /\ ls.on => ls.status = "none"
        /\ ls.last = "none" => ls.cookie = 0 /\ seen = {}

(* Paths, verifiers and errors. *)
Calm(r) == r.calm => /\ ~r.err
                     /\ \A i \in 1..Len(r.todo) : r.todo[i] \in dir \cup {-1, 0}
Errors == /\ rq.status = "BAD_COOKIE" => changes.moved > 0
          /\ rq.status \in {"IO", "NOTDIR", "BADHANDLE"} => ~rq.calm
OneHash == \A p \in from : hash(p) = 0 \/ hash(p) = ls.verf
Paged == /\ OneHash
         /\ ls.on /\ changes.moved = 0 => ls.verf \in {0, hash(known)}
         /\ Begun(rq) /\ rq.calm => rq.path = at
         /\ Begun(rq) /\ changes.moved = 0 => rq.path = known
         /\ rq.read \/ rq.pc \in {"plus_lstat", "plus_lookup", "plus_readdir"} =>
                Verified(rq)
         /\ Errors

(* The page: in order, its cookies up to the number of entries passed.     *)
Ordered(r) ==
    /\ \A i, j \in 1..Len(r.out) : i < j => /\ r.out[i].name < r.out[j].name
                                            /\ r.out[i].cookie < r.out[j].cookie
    /\ \A i, j \in 1..Len(r.todo) : i < j => r.todo[i] < r.todo[j]
    /\ \A i \in 1..Len(r.out), j \in 1..Len(r.todo) : r.out[i].name < r.todo[j]
    /\ \A i \in 1..Len(r.out) : r.out[i].cookie < r.cook
    /\ r.out # <<>> => r.cookie < r.cook /\ r.out[Len(r.out)].cookie = r.cook - 1
    /\ r.cook - 1 + Len(r.todo) <= Cardinality(Names) + 2

(* Of the two dots, those that READDIRPLUS has not come to. *)
Dotted(r) == IF r.eof /\ ~r.err
             THEN /\ Len(r.todo) = 3 - r.cook
                  /\ \A i \in 1..Len(r.todo) : r.todo[i] = r.cook + i - 3
             ELSE r.cook <= 2 /\ r.cookie < r.cook

(* "." and "..": listed before the names of the directory, each with a      *)
(* cookie of its own, and so never again.                                  *)
Staged(r) ==
    /\ \A i \in 1..Len(r.out) : r.out[i].name <= 0 =>
            r.out[i].cookie = r.out[i].name + 2 /\ r.out[i].cookie > r.cookie
    /\ r.read => \A i \in 1..Len(r.todo) : r.todo[i] > 0
    /\ ~r.read =>
        /\ \A i \in 1..Len(r.out) : r.out[i].name <= 0
        /\ Begun(r) /\ r.proc = "READDIRPLUS" /\ r.status = "OK" => Dotted(r)
DotsSeen == \A x \in seen : x <= 0 => x + 2 <= ls.cookie

(* What is missed: at most Missable names, of those the listing has passed, *)
(* are not listed, whichever of the entries at hand will end the page.      *)
Off(proc) == IF proc = "READDIRPLUS" THEN 2 ELSE 0
Missable == changes.removed + 2 * changes.toPlain
Repeatable == changes.added + 2 * changes.toPlus

Reading(r) == r.read /\ ~r.err
Turns(r) == IF r.eof THEN Skipped(r)..Len(r.todo) ELSE {Skipped(r)}
Got(r, k) == {r.out[i].name : i \in 1..Len(r.out)}
                \cup {r.todo[i] : i \in Skipped(r) + 1..k}
Passed(r, k) == r.cook - 1 + k - Off(r.proc)

Unseen(r, k) == Behind(stay \ (seen \cup Got(r, k)), dir, Passed(r, k))
Missed(r) == Reading(r) =>
    /\ \A k \in Turns(r) : Cardinality(Unseen(r, k)) <= Missable
    /\ r.eof => Cardinality(stay \ (seen \cup Got(r, Len(r.todo)))) <= Missable
Misses == /\ ls.on => Cardinality(Behind(stay \ seen, dir, ls.cookie - Off(ls.last)))
                            <= Missable
          /\ MissesBounded

(* What is repeated, in the same way. *)
Again(r, k) == (twice \cup (seen \cap Got(r, k)))
                    \cup Ahead(seen \cup Got(r, k), dir, Passed(r, k))
Repeated(r) == Reading(r) => \A k \in Turns(r) : Cardinality(Again(r, k)) <= Repeatable
Repeats == /\ ls.on => Cardinality(twice \cup Ahead(seen, dir, ls.cookie - Off(ls.last)))
                            <= Repeatable
           /\ RepeatsBounded

Page(r) == Phase(r) /\ Calm(r) /\ Ordered(r) /\ Staged(r) /\ Missed(r) /\ Repeated(r)
RInv == Typed /\ Link /\ Paged /\ (ls.on => DotsSeen) /\ Misses /\ Repeats /\ Page(rq)

-----------------------------------------------------------------------------
(* What a page is does not depend on where its request stands.             *)
LEMMA SamePage ==
    ASSUME NEW r \in Request, NEW t \in Request, Same(r, t), t.cook = r.cook,
           t.todo = r.todo, t.eof = r.eof
    PROVE  /\ Calm(r) => Calm(t)
           /\ Ordered(r) => Ordered(t)
           /\ Dotted(r) => Dotted(t)
           /\ Missed(r) => Missed(t)
           /\ Repeated(r) => Repeated(t)
<1>1. Skipped(t) = Skipped(r)
  BY DEF Skipped, Same
<1>2. Turns(t) = Turns(r) /\ Reading(t) = Reading(r)
  BY <1>1 DEF Turns, Reading, Same
<1>3. ASSUME NEW k PROVE Got(t, k) = Got(r, k) /\ Passed(t, k) = Passed(r, k)
  BY <1>1 DEF Got, Passed, Same
<1>4. ASSUME NEW k PROVE Unseen(t, k) = Unseen(r, k) /\ Again(t, k) = Again(r, k)
  BY <1>3 DEF Unseen, Again
<1>5. Missed(r) => Missed(t)
  BY <1>2, <1>3, <1>4 DEF Missed
<1>6. Repeated(r) => Repeated(t)
  BY <1>2, <1>4 DEF Repeated
<1>7. Calm(r) => Calm(t)
  BY DEF Calm, Same
<1>8. Ordered(r) => Ordered(t)
  BY DEF Ordered, Same
<1>9. Dotted(r) => Dotted(t)
  BY DEF Dotted, Same
<1>10. QED
  BY <1>5, <1>6, <1>7, <1>8, <1>9

(* After process_entry nothing is left to skip. *)
LEMMA AfterSkip ==
    ASSUME NEW r \in Request, NEW t \in Request, Processed(r, t)
    PROVE  /\ Skipped(t) = 0
           /\ \A k \in Turns(t) : /\ k \in Nat /\ Skipped(r) + k \in Turns(r)
                                   /\ Got(t, k) = Got(r, Skipped(r) + k)
                                   /\ Passed(t, k) = Passed(r, Skipped(r) + k)
           /\ t.eof /\ ~r.err => r.eof /\ Got(t, Len(t.todo)) = Got(r, Len(r.todo))
<1> DEFINE s == Skipped(r)
<1>1. /\ r.todo \in Seq(Entries) /\ Len(r.todo) \in Nat /\ s \in 0..Len(r.todo)
      /\ s < Len(r.todo) => r.cookie < r.cook + s
      /\ r.cookie \in Nat /\ r.cook \in Nat
  <2>1. r.todo \in Seq(Entries) /\ r.cookie \in Nat /\ r.cook \in Nat
    BY DEF Request
  <2>2. QED
    BY <2>1, SkippedGood
<1>2. /\ t.cook = r.cook + s /\ Same(r, t)
      /\ \/ /\ s < Len(r.todo) /\ t.todo = SubSeq(r.todo, s + 1, Len(r.todo))
            /\ r.eof /\ t.eof
         \/ /\ t.todo = <<>>
            /\ t.eof => r.eof /\ (r.err \/ s = Len(r.todo))
  BY DEF Processed
<1> HIDE DEF s
<1>3. CASE /\ s < Len(r.todo) /\ t.todo = SubSeq(r.todo, s + 1, Len(r.todo))
           /\ r.eof /\ t.eof
  <2>1. /\ Len(t.todo) = Len(r.todo) - s
        /\ \A j \in 1..(Len(r.todo) - s) : t.todo[j] = r.todo[s + j]
    <3>1. r.todo \in Seq(Entries) /\ s \in 0..Len(r.todo)
      BY <1>1
    <3>2. t.todo = SubSeq(r.todo, s + 1, Len(r.todo))
      BY <1>3
    <3>3. QED
      BY <3>1, <3>2, Rest
  <2>2. Skipped(t) = 0
    BY <1>1, <1>2, <1>3 DEF Skipped, Same
  <2>3. ASSUME NEW k \in 0..Len(t.todo)
        PROVE  /\ k \in Nat /\ s + k \in s..Len(r.todo) /\ Got(t, k) = Got(r, s + k)
               /\ Passed(t, k) = Passed(r, s + k)
    <3>1. k \in Nat /\ s + k \in s..Len(r.todo)
      BY <1>1, <2>1
    <3>2. {t.todo[i] : i \in 1..k} = {r.todo[i] : i \in s + 1..s + k}
      <4>1. \A i \in 1..k : t.todo[i] = r.todo[s + i] /\ s + i \in s + 1..s + k
        BY <1>1, <2>1, <3>1
      <4>2. \A j \in s + 1..s + k : j - s \in 1..k /\ s + (j - s) = j
        BY <1>1, <3>1
      <4>3. \A j \in s + 1..s + k : r.todo[j] = t.todo[j - s]
        BY <4>1, <4>2
      <4>4. \A i \in 1..k : t.todo[i] \in {r.todo[j] : j \in s + 1..s + k}
        BY <4>1
      <4>5. \A j \in s + 1..s + k : r.todo[j] \in {t.todo[i] : i \in 1..k}
        BY <4>2, <4>3
      <4>6. QED
        BY <4>4, <4>5
    <3>3. Got(t, k) = Got(r, s + k)
      <4>1. {t.todo[i] : i \in Skipped(t) + 1..k} = {r.todo[i] : i \in Skipped(r) + 1..s + k}
        <5>1. Skipped(t) + 1 = 1 /\ Skipped(r) + 1 = s + 1
          BY <2>2 DEF s
        <5>2. QED
          BY <3>2, <5>1, Zenon
      <4>2. t.out = r.out
        BY <1>2 DEF Same
      <4>3. QED
        BY <4>1, <4>2 DEF Got
    <3>4. Passed(t, k) = Passed(r, s + k)
      <4>1. t.cook = r.cook + s /\ Off(t.proc) = Off(r.proc) /\ Off(r.proc) \in Int
        BY <1>2 DEF Same, Off
      <4>2. s \in Int /\ k \in Int /\ r.cook \in Int
        BY <1>1, <3>1
      <4>3. QED
        BY <4>1, <4>2 DEF Passed
    <3>5. QED
      BY <3>1, <3>3, <3>4
  <2>4. Turns(t) = 0..Len(t.todo) /\ Turns(r) = s..Len(r.todo)
    BY <1>3, <2>2 DEF Turns, s
  <2>5. Len(t.todo) \in 0..Len(t.todo) /\ s + Len(t.todo) = Len(r.todo)
    BY <1>1, <1>3, <2>1
  <2>6. QED
    BY <1>3, <2>2, <2>3, <2>4, <2>5 DEF s
<1>4. CASE /\ t.todo = <<>>
           /\ t.eof => r.eof /\ (r.err \/ s = Len(r.todo))
  <2>1. Len(t.todo) = 0
    BY <1>4
  <2>2. Skipped(t) = 0
    <3>1. Skipped(t) \in 0..0
      BY <2>1, SkippedGood
    <3>2. QED
      BY <3>1
  <2>3. Turns(t) = {0}
    BY <2>1, <2>2 DEF Turns
  <2>4. s \in Turns(r)
    BY <1>1 DEF Turns, s
  <2>5. Got(t, 0) = Got(r, s) /\ s + 0 = s
    <3>1. 1..0 = {} /\ s + 1..s = {}
      BY <1>1
    <3>2. t.out = r.out
      BY <1>2 DEF Same
    <3>3. QED
      BY <1>1, <2>2, <3>1, <3>2 DEF Got, s
  <2>6. Passed(t, 0) = Passed(r, s)
    BY <1>1, <1>2 DEF Passed, Same, Off
  <2>7. QED
    BY <1>4, <2>1, <2>2, <2>3, <2>4, <2>5, <2>6 DEF s
<1>5. QED
  BY <1>2, <1>3, <1>4

LEMMA AfterCounted ==
    ASSUME NEW r \in Request, NEW t \in Request, Processed(r, t)
    PROVE  (Missed(r) => Missed(t)) /\ (Repeated(r) => Repeated(t))
<1>1. t.read = r.read /\ t.err = r.err
  BY DEF Processed, Same
<1>2. \A k \in Turns(t) : /\ Skipped(r) + k \in Turns(r)
                          /\ Unseen(t, k) = Unseen(r, Skipped(r) + k)
                          /\ Again(t, k) = Again(r, Skipped(r) + k)
  BY AfterSkip DEF Unseen, Again
<1>3. Missed(r) => Missed(t)
  BY <1>1, <1>2, AfterSkip DEF Missed, Reading
<1>4. Repeated(r) => Repeated(t)
  BY <1>1, <1>2 DEF Repeated, Reading
<1>5. QED
  BY <1>3, <1>4

LEMMA AfterOrdered ==
    ASSUME NEW r \in Request, NEW t \in Request, Processed(r, t), Ordered(r)
    PROVE  Ordered(t)
<1> DEFINE s == Skipped(r)
<1>1. /\ r.todo \in Seq(Entries) /\ Len(r.todo) \in Nat /\ s \in 0..Len(r.todo)
      /\ s > 0 => r.cook + s - 1 <= r.cookie
      /\ r.cookie \in Nat /\ r.cook \in Nat
      /\ r.out \in Seq([name : Entries, cookie : Nat])
  <2>1. /\ r.todo \in Seq(Entries) /\ r.cookie \in Nat /\ r.cook \in Nat
        /\ r.out \in Seq([name : Entries, cookie : Nat])
    BY DEF Request
  <2>2. QED
    BY <2>1, SkippedGood
<1>2. /\ t.cook = r.cook + s /\ t.out = r.out /\ t.cookie = r.cookie
      /\ \/ t.todo = SubSeq(r.todo, s + 1, Len(r.todo))
         \/ t.todo = <<>>
  BY DEF Processed, Same
<1>3. Cardinality(Names) \in Nat
  BY FS_CardinalityType, ReaddirAssumption
<1> HIDE DEF s
<1>4. /\ Len(t.todo) \in Nat /\ Len(t.todo) + s <= Len(r.todo)
      /\ \A j \in 1..Len(t.todo) : s + j \in 1..Len(r.todo) /\ t.todo[j] = r.todo[s + j]
  <2>1. CASE t.todo = SubSeq(r.todo, s + 1, Len(r.todo))
    <3>1. /\ Len(t.todo) = Len(r.todo) - s
          /\ \A j \in 1..(Len(r.todo) - s) : t.todo[j] = r.todo[s + j]
      <4>1. r.todo \in Seq(Entries) /\ s \in 0..Len(r.todo)
        BY <1>1
      <4>2. QED
        BY <2>1, <4>1, Rest
    <3>2. \A j \in 1..(Len(r.todo) - s) : s + j \in 1..Len(r.todo)
      BY <1>1
    <3>3. Len(r.todo) - s \in Nat /\ (Len(r.todo) - s) + s <= Len(r.todo)
      BY <1>1
    <3>4. QED
      BY <3>1, <3>2, <3>3
  <2>2. CASE t.todo = <<>>
    BY <1>1, <2>2
  <2>3. QED
    BY <1>2, <2>1, <2>2
<1>5. \A i, j \in 1..Len(t.todo) : i < j => t.todo[i] < t.todo[j]
  <2> SUFFICES ASSUME NEW i \in 1..Len(t.todo), NEW j \in 1..Len(t.todo), i < j
               PROVE  t.todo[i] < t.todo[j]
    OBVIOUS
  <2>1. s + i < s + j /\ s + i \in 1..Len(r.todo) /\ s + j \in 1..Len(r.todo)
    BY <1>1, <1>4
  <2>2. QED
    BY <1>4, <2>1 DEF Ordered
<1>6. \A i \in 1..Len(t.out), j \in 1..Len(t.todo) : t.out[i].name < t.todo[j]
  BY <1>2, <1>4 DEF Ordered
<1>7. t.out # <<>> => s = 0
  BY <1>1, <1>2 DEF Ordered
<1>8. t.out = <<>> => Len(t.out) = 0
  OBVIOUS
<1>9. \A i \in 1..Len(t.out) : t.out[i].cookie < t.cook
  <2>1. CASE t.out = <<>>
    BY <1>8, <2>1
  <2>2. CASE t.out # <<>>
    BY <1>1, <1>2, <1>7, <2>2 DEF Ordered
  <2>3. QED
    BY <2>1, <2>2
<1>10. t.out # <<>> => t.cookie < t.cook /\ t.out[Len(t.out)].cookie = t.cook - 1
  BY <1>1, <1>2, <1>7 DEF Ordered
<1>11. t.cook - 1 + Len(t.todo) <= Cardinality(Names) + 2
  <2>1. r.cook - 1 + Len(r.todo) <= Cardinality(Names) + 2
    BY DEF Ordered
  <2>2. QED
    BY <1>1, <1>2, <1>3, <1>4, <2>1
<1>12. \A i, j \in 1..Len(t.out) : i < j => /\ t.out[i].name < t.out[j].name
                                            /\ t.out[i].cookie < t.out[j].cookie
  BY <1>2 DEF Ordered
<1>13. QED
  BY <1>5, <1>6, <1>9, <1>10, <1>11, <1>12 DEF Ordered

LEMMA AfterStaged ==
    ASSUME NEW r \in Request, NEW t \in Request, Processed(r, t), Staged(r),
           ~r.read => Dotted(r)
    PROVE  Staged(t)
<1> DEFINE s == Skipped(r)
<1>1. /\ r.todo \in Seq(Entries) /\ Len(r.todo) \in Nat /\ s \in 0..Len(r.todo)
      /\ s > 0 => r.cook + s - 1 <= r.cookie
      /\ s < Len(r.todo) => r.cookie < r.cook + s
      /\ r.cookie \in Nat /\ r.cook \in Nat
  <2>1. r.todo \in Seq(Entries) /\ r.cookie \in Nat /\ r.cook \in Nat
    BY DEF Request
  <2>2. QED
    BY <2>1, SkippedGood
<1>2. /\ t.cook = r.cook + s /\ t.out = r.out /\ t.cookie = r.cookie
      /\ t.read = r.read /\ t.err = r.err
  BY DEF Processed, Same
<1>3. \/ /\ s < Len(r.todo) /\ t.todo = SubSeq(r.todo, s + 1, Len(r.todo))
         /\ r.eof /\ t.eof /\ ~r.err
      \/ /\ t.todo = <<>>
         /\ t.eof => r.eof /\ (r.err \/ s = Len(r.todo))
         /\ ~t.eof => ~r.eof \/ s < Len(r.todo)
  BY DEF Processed
<1> HIDE DEF s
<1>4. ASSUME s < Len(r.todo), t.todo = SubSeq(r.todo, s + 1, Len(r.todo))
      PROVE  /\ Len(t.todo) = Len(r.todo) - s
             /\ \A j \in 1..Len(t.todo) : s + j \in 1..Len(r.todo) /\ t.todo[j] = r.todo[s + j]
  <2>1. /\ Len(t.todo) = Len(r.todo) - s
        /\ \A j \in 1..(Len(r.todo) - s) : t.todo[j] = r.todo[s + j]
    BY <1>1, <1>4, Rest
  <2>2. \A j \in 1..(Len(r.todo) - s) : s + j \in 1..Len(r.todo)
    BY <1>1
  <2>3. QED
    BY <2>1, <2>2
<1>5. t.read => \A i \in 1..Len(t.todo) : t.todo[i] > 0
  <2> SUFFICES ASSUME t.read, NEW i \in 1..Len(t.todo) PROVE t.todo[i] > 0
    OBVIOUS
  <2>1. \A j \in 1..Len(r.todo) : r.todo[j] > 0
    BY <1>2 DEF Staged
  <2>2. t.todo # <<>>
    OBVIOUS
  <2>3. s + i \in 1..Len(r.todo) /\ t.todo[i] = r.todo[s + i]
    BY <1>3, <1>4, <2>2
  <2>4. QED
    BY <2>1, <2>3
<1>6. ~t.read => Dotted(t)
  <2> SUFFICES ASSUME ~t.read PROVE Dotted(t)
    OBVIOUS
  <2>1. CASE ~(r.eof /\ ~r.err)
    <3>1. r.cook <= 2 /\ r.cookie < r.cook
      BY <1>2, <2>1 DEF Dotted
    <3>2. s = 0
      BY <1>1, <3>1
    <3>3. ~(t.eof /\ ~t.err)
      BY <1>2, <1>3, <2>1
    <3>4. QED
      BY <1>1, <1>2, <3>1, <3>2, <3>3 DEF Dotted
  <2>2. CASE r.eof /\ ~r.err /\ t.todo # <<>>
    <3>1. /\ Len(r.todo) = 3 - r.cook
          /\ \A i \in 1..Len(r.todo) : r.todo[i] = r.cook + i - 3
      BY <1>2, <2>2 DEF Dotted
    <3>2. t.eof /\ ~t.err /\ Len(t.todo) = Len(r.todo) - s
      BY <1>2, <1>3, <1>4, <2>2
    <3>3. Len(t.todo) = 3 - t.cook
      BY <1>1, <1>2, <3>1, <3>2
    <3>4. ASSUME NEW i \in 1..Len(t.todo) PROVE t.todo[i] = t.cook + i - 3
      <4>1. s + i \in 1..Len(r.todo) /\ t.todo[i] = r.todo[s + i]
        BY <1>3, <1>4, <2>2
      <4>2. t.todo[i] = r.cook + (s + i) - 3
        BY <3>1, <4>1
      <4>3. QED
        BY <1>1, <1>2, <4>2
    <3>5. QED
      BY <3>2, <3>3, <3>4 DEF Dotted
  <2>3. CASE r.eof /\ ~r.err /\ t.todo = <<>>
    <3>1. Len(r.todo) = 3 - r.cook
      BY <1>2, <2>3 DEF Dotted
    <3>2. Len(t.todo) = 0
      BY <2>3
    <3>3. CASE t.eof
      <4>1. s = Len(r.todo)
        BY <1>2, <1>3, <1>4, <2>3, <3>2, <3>3, <1>1
      <4>2. Len(t.todo) = 3 - t.cook
        BY <1>1, <1>2, <3>1, <3>2, <4>1
      <4>3. QED
        BY <1>2, <2>3, <3>2, <3>3, <4>2 DEF Dotted
    <3>4. CASE ~t.eof
      <4>1. s < Len(r.todo)
        BY <1>3, <2>3, <3>4
      <4>2. t.cook <= 2 /\ t.cookie < t.cook
        BY <1>1, <1>2, <3>1, <4>1
      <4>3. QED
        BY <3>4, <4>2 DEF Dotted
    <3>5. QED
      BY <3>3, <3>4
  <2>4. QED
    BY <2>1, <2>2, <2>3
<1>7. QED
  BY <1>2, <1>5, <1>6 DEF Staged

LEMMA AfterCalm ==
    ASSUME NEW r \in Request, NEW t \in Request, Processed(r, t), Calm(r)
    PROVE  Calm(t)
<1>1. Skipped(r) \in 0..Len(r.todo) /\ r.todo \in Seq(Entries)
  <2>1. r.todo \in Seq(Entries)
    BY DEF Request
  <2>2. QED
    BY <2>1, SkippedGood
<1>2. (t.calm => r.calm) /\ t.err = r.err
  BY DEF Processed, Same
<1>3. CASE t.todo = <<>>
  BY <1>2, <1>3 DEF Calm
<1>4. CASE t.todo = SubSeq(r.todo, Skipped(r) + 1, Len(r.todo))
  <2>1. \A j \in 1..Len(t.todo) : \E i \in 1..Len(r.todo) : t.todo[j] = r.todo[i]
    <3>1. /\ Len(t.todo) = Len(r.todo) - Skipped(r)
          /\ \A j \in 1..(Len(r.todo) - Skipped(r)) : t.todo[j] = r.todo[Skipped(r) + j]
      BY <1>1, <1>4, Rest
    <3>2. \A j \in 1..(Len(r.todo) - Skipped(r)) : Skipped(r) + j \in 1..Len(r.todo)
      BY <1>1
    <3>3. QED
      BY <3>1, <3>2
  <2>2. QED
    BY <1>2, <2>1 DEF Calm
<1>5. QED
  BY <1>3, <1>4 DEF Processed

(* The whole of it: what process_entry makes of a good page is one.         *)
LEMMA Processing ==
    ASSUME NEW r \in Request, process_entry(r),
           r.proc = "READDIRPLUS", r.path \in Paths, r.status = "OK",
           Calm(r), Ordered(r), Staged(r), ~r.read => Dotted(r),
           Missed(r), Repeated(r)
    PROVE  /\ rq' \in Request /\ Same(r, rq') /\ rq'.pc \notin {"idle", "fhandle"}
           /\ Phase(rq') /\ Calm(rq') /\ Ordered(rq') /\ Staged(rq')
           /\ Missed(rq') /\ Repeated(rq')
           /\ rq'.status \in {"OK", "IO"} /\ (rq'.status = "IO" => r.err)
<1>1. rq' \in Request /\ Processed(r, rq')
  BY ProcessEntry
<1>2. PICK t \in Request : t = rq' /\ Processed(r, t)
  BY <1>1
<1>3. Same(r, t)
  BY <1>2 DEF Processed
<1>4. /\ t.pc \in {"plus_lstat", "plus_readdir", "sent", "stat"}
      /\ t.status = "OK" \/ (t.status = "IO" /\ r.err)
  BY <1>2 DEF Processed
<1>5. Phase(t)
  <2>1. CASE t.pc = "plus_lstat"
    <3>1. /\ Skipped(r) < Len(r.todo) /\ t.todo = SubSeq(r.todo, Skipped(r) + 1, Len(r.todo))
          /\ t.eof /\ ~r.err /\ t.status = "OK" /\ t.cook = r.cook + Skipped(r)
      BY <1>2, <2>1 DEF Processed
    <3>2. r.todo \in Seq(Entries)
      BY DEF Request
    <3>3. Skipped(r) \in 0..Len(r.todo) /\ r.cookie < r.cook + Skipped(r)
      BY <3>1, SkippedGood
    <3>4. Skipped(r) # Len(r.todo)
      BY <3>1, <3>2, <3>3
    <3>5. t.todo # <<>>
      BY <3>1, <3>2, <3>3, <3>4, Rest
    <3>6. t.cookie < t.cook /\ ~t.err
      BY <1>3, <3>1, <3>3 DEF Same
    <3>7. QED
      BY <1>3, <2>1, <3>1, <3>5, <3>6 DEF Phase, Same, Begun
  <2>2. CASE t.pc # "plus_lstat"
    <3>1. /\ t.pc = IF ~r.read THEN "plus_readdir"
                    ELSE IF r.err THEN "sent" ELSE "stat"
          /\ t.status = IF r.read /\ r.err THEN "IO" ELSE r.status
          /\ t.todo = <<>>
      BY <1>2, <2>2 DEF Processed
    <3>2. QED
      BY <1>3, <3>1 DEF Phase, Same, Begun
  <2>3. QED
    BY <2>1, <2>2
<1>6. Calm(t) /\ Ordered(t) /\ Staged(t) /\ Missed(t) /\ Repeated(t)
  BY <1>2, AfterCalm, AfterOrdered, AfterStaged, AfterCounted
<1>7. QED
  BY <1>1, <1>2, <1>3, <1>4, <1>5, <1>6

-----------------------------------------------------------------------------
(* The steps of the chains change the request alone.                       *)
LEMMA Answered ==
    ASSUME RInv, ServerOnly, rq.pc # "idle",
           rq' \in Request, rq'.pc \notin {"idle", "fhandle"}, rq'.proc = rq.proc,
           rq'.cookie = rq.cookie, rq'.verf = rq.verf,
           Phase(rq'), Calm(rq'), Ordered(rq'), Staged(rq'), Missed(rq'), Repeated(rq'),
           Begun(rq') /\ rq'.calm => rq'.path = at,
           Begun(rq') /\ changes.moved = 0 => rq'.path = known,
           rq'.read \/ rq'.pc \in {"plus_lstat", "plus_lookup", "plus_readdir"} =>
                Verified(rq'),
           rq'.status = "BAD_COOKIE" => changes.moved > 0,
           rq'.status \in {"IO", "NOTDIR", "BADHANDLE"} => ~rq'.calm
    PROVE  RInv'
<1>1. /\ dir' = dir /\ at' = at /\ known' = known /\ mvs' = mvs
      /\ ls' = ls
      /\ seen' = seen /\ twice' = twice
      /\ stay' = stay /\ changes' = changes /\ from' = from
  BY DEF ServerOnly, place, history
<1>2. Typed'
  BY <1>1 DEF RInv, Typed
<1>3. Link'
  BY <1>1 DEF RInv, Link
<1>4. Paged'
  <2>1. OneHash' /\ (ls.on /\ changes.moved = 0 => ls.verf \in {0, hash(known)})'
    BY <1>1 DEF RInv, Paged, OneHash
  <2>2. Errors'
    BY <1>1 DEF Errors
  <2>3. /\ (Begun(rq) /\ rq.calm => rq.path = at)'
        /\ (Begun(rq) /\ changes.moved = 0 => rq.path = known)'
    BY <1>1 DEF Begun
  <2>4. Verified(rq)' <=> Verified(rq')
    BY DEF Verified
  <2>5. QED
    BY <2>1, <2>2, <2>3, <2>4 DEF Paged
<1>5. (ls.on => DotsSeen)'
  BY <1>1 DEF RInv, DotsSeen
<1>6. Misses' /\ Repeats'
  <2>1. Missable' = Missable /\ Repeatable' = Repeatable
    BY <1>1 DEF Missable, Repeatable
  <2>2. MissesBounded' /\ RepeatsBounded'
    BY <1>1 DEF RInv, Misses, Repeats, MissesBounded, RepeatsBounded
  <2>3. QED
    BY <1>1, <2>1, <2>2 DEF RInv, Misses, Repeats
<1>7. Page(rq)'
  <2>1. (Phase(rq) /\ Ordered(rq) /\ Staged(rq))'
    BY DEF Phase, Ordered, Staged, Dotted, Begun
  <2>2. Calm(rq)'
    BY <1>1 DEF Calm
  <2>3. Missed(rq)' /\ Repeated(rq)'
    <3>1. Missable' = Missable /\ Repeatable' = Repeatable
      BY <1>1 DEF Missable, Repeatable
    <3>2. QED
      BY <1>1, <3>1 DEF Missed, Repeated, Unseen, Again
  <2>4. QED
    BY <2>1, <2>2, <2>3 DEF Page
<1>8. QED
  BY <1>2, <1>3, <1>4, <1>5, <1>6, <1>7 DEF RInv

(* An access that fails whatever is there.                                 *)
LEMMA Marked ==
    ASSUME NEW r \in Request, NEW t, t \in {r, Disturbed(r)}
    PROVE  /\ t \in Request /\ Same(r, t) /\ t.pc = r.pc /\ t.cook = r.cook
           /\ t.todo = r.todo /\ t.eof = r.eof /\ t.status = r.status
           /\ t.calm \in BOOLEAN /\ (t = Disturbed(r) => ~t.calm)
<1>1. CASE t = r
  <2>1. Disturbed(r).calm = FALSE
    BY DEF Disturbed, Request
  <2>2. QED
    BY <1>1, <2>1 DEF Same, Request
<1>2. CASE t = Disturbed(r)
  <2>1. t = [r EXCEPT !.calm = FALSE] /\ FALSE \in BOOLEAN
    BY <1>2 DEF Disturbed
  <2>2. QED
    BY <2>1 DEF Same, Request
<1>3. QED
  BY <1>1, <1>2

(* A chain that ends here, with an error or without.                       *)
LEMMA Sent ==
    ASSUME RInv, ServerOnly, Begun(rq), NEW r, r \in {rq, Disturbed(rq)},
           NEW s \in {"OK", "IO", "NOTDIR", "BAD_COOKIE"},
           SendR(r, s), s = "OK" => rq.pc = "stat",
           s = "BAD_COOKIE" => changes.moved > 0, s \in {"IO", "NOTDIR"} => ~r.calm
    PROVE  RInv'
<1>1. rq' = [r EXCEPT !.pc = "sent", !.status = s] /\ rq \in Request /\ Page(rq)
  BY DEF SendR, RInv, Typed
<1>2. PICK t : t = rq' /\ t = [r EXCEPT !.pc = "sent", !.status = s]
  BY <1>1
<1>3. /\ t \in Request /\ Same(rq, t) /\ t.cook = rq.cook /\ t.todo = rq.todo
      /\ t.eof = rq.eof /\ t.pc = "sent" /\ t.status = s /\ t.calm = r.calm
  <2>1. /\ r \in Request /\ Same(rq, r) /\ r.cook = rq.cook /\ r.todo = rq.todo
        /\ r.eof = rq.eof
    BY <1>1, Marked
  <2>2. /\ t \in Request /\ Same(r, t) /\ t.cook = r.cook /\ t.todo = r.todo
        /\ t.eof = r.eof /\ t.pc = "sent" /\ t.status = s /\ t.calm = r.calm
    BY <1>2, <2>1 DEF Request, Same
  <2>3. QED
    BY <2>1, <2>2 DEF Same
<1>4. /\ rq.path \in Paths
      /\ rq.pc = "stat" => rq.read /\ ~rq.err /\ rq.todo = <<>>
  BY <1>1 DEF Page, Phase
<1>5. Phase(t)
  BY <1>3, <1>4 DEF Phase, Same, Begun
<1>6. Calm(t) /\ Ordered(t) /\ Missed(t) /\ Repeated(t)
  BY <1>1, <1>3, SamePage DEF Page
<1>7. Staged(t)
  <2>1. ~t.read => t.status # "OK"
    BY <1>3, <1>4 DEF Same
  <2>2. QED
    BY <1>1, <1>3, <2>1 DEF Page, Staged, Same
<1>8. /\ t.calm => t.path = at
      /\ changes.moved = 0 => t.path = known
      /\ rq.read => Verified(rq)
  BY <1>3 DEF RInv, Paged, Same
<1>9. Verified(rq) => Verified(t)
  BY <1>3 DEF Verified, Same
<1>10. rq.pc # "idle"
  BY DEF Begun
<1>11. QED
  BY <1>2, <1>3, <1>5, <1>6, <1>7, <1>8, <1>9, <1>10, Answered DEF Same

LEMMA ReadDirectory ==
    ASSUME Typed
    PROVE  Directory(dir) /\ IsFiniteSet(Names) /\ Cardinality(Names) \in Nat
           /\ Cardinality(dir) \in Nat /\ Cardinality(dir) <= Cardinality(Names)
<1>1. dir \subseteq Names /\ Names \subseteq Nat \ {0} /\ IsFiniteSet(Names)
  BY ReaddirAssumption DEF Typed
<1>2. QED
  BY <1>1, NoMore, FS_CardinalityType DEF Directory

LEMMA HashPath == \A p \in Paths : hash(p) \in Nat
<1>1. Verfs \subseteq Nat
  BY ReaddirAssumption DEF Verfs
<1>2. QED
  BY <1>1, HashRange

LEMMA StepFhandle == RInv /\ fhandle_to_filename => RInv'
<1> SUFFICES ASSUME RInv, fhandle_to_filename PROVE RInv'
  OBVIOUS
<1> DEFINE r == [rq EXCEPT !.path = known, !.calm = @ /\ known = at]
           r0 == [r EXCEPT !.todo = Dots]
<1>1. /\ rq \in Request /\ known \in Paths /\ Phase(rq) /\ Staged(rq) /\ rq.pc = "fhandle"
      /\ ServerOnly /\ Ordered(rq)
  BY DEF RInv, Typed, Page, fhandle_to_filename
<1>2. /\ ~rq.read /\ ~rq.err /\ rq.eof /\ rq.cook = 1 /\ rq.todo = <<>> /\ rq.out = <<>>
      /\ rq.status = "OK"
  BY <1>1 DEF Phase
<1>3. /\ r \in Request /\ r.path = known /\ (r.calm => known = at) /\ r.pc = "fhandle" /\ r.proc = rq.proc
      /\ r.cookie = rq.cookie /\ r.verf = rq.verf /\ r.cook = 1 /\ r.eof
      /\ ~r.read /\ ~r.err /\ r.todo = <<>> /\ r.out = <<>> /\ r.status = "OK"
  <2>1. (rq.calm /\ known = at) \in BOOLEAN
    OBVIOUS
  <2>2. QED
    BY <1>1, <1>2, <2>1 DEF Request
<1>4. \/ r.proc = "READDIR" /\ rq' = [r EXCEPT !.pc = "readdir"]
      \/ r.proc = "READDIRPLUS" /\ ~Verified(r) /\ SendR(r, "BAD_COOKIE")
      \/ r.proc = "READDIRPLUS" /\ Verified(r) /\ process_entry(r0)
      \/ SendR(Disturbed(rq), "BADHANDLE")
  BY DEF fhandle_to_filename, readdirplus
<1> HIDE DEF r
<1>5. 1 - 1 + 2 <= Cardinality(Names) + 2 /\ 1 - 1 + 0 <= Cardinality(Names) + 2
  BY ReadDirectory DEF RInv
<1>6. CASE r.proc = "READDIR" /\ rq' = [r EXCEPT !.pc = "readdir"]
  <2>1. PICK t : t = rq' /\ t = [r EXCEPT !.pc = "readdir"]
    BY <1>6
  <2>2. /\ t \in Request /\ t.path = known /\ (t.calm => known = at) /\ t.pc = "readdir" /\ t.proc = "READDIR"
        /\ t.cookie = rq.cookie /\ t.verf = rq.verf /\ t.cook = 1 /\ t.eof
        /\ ~t.read /\ ~t.err /\ t.todo = <<>> /\ t.out = <<>> /\ t.status = "OK"
        /\ t.proc = rq.proc
    BY <1>3, <1>6, <2>1 DEF Request
  <2>3. Phase(t) /\ Calm(t)
    BY <1>1, <2>2 DEF Phase, Calm, Begun
  <2>4. Ordered(t)
    BY <1>5, <2>2 DEF Ordered
  <2>5. Staged(t) /\ Missed(t) /\ Repeated(t)
    BY <2>2 DEF Staged, Missed, Repeated, Reading
  <2>6. QED
    BY <1>1, <2>1, <2>2, <2>3, <2>4, <2>5, Answered
<1>7. CASE r.proc = "READDIRPLUS" /\ ~Verified(r) /\ SendR(r, "BAD_COOKIE")
  <2>1. PICK t : t = rq' /\ t = [r EXCEPT !.pc = "sent", !.status = "BAD_COOKIE"]
    BY <1>7 DEF SendR
  <2>2. /\ t \in Request /\ t.path = known /\ (t.calm => known = at) /\ t.pc = "sent" /\ t.proc = "READDIRPLUS"
        /\ t.cookie = rq.cookie /\ t.verf = rq.verf /\ t.cook = 1 /\ t.eof
        /\ ~t.read /\ ~t.err /\ t.todo = <<>> /\ t.out = <<>> /\ t.status = "BAD_COOKIE"
        /\ t.proc = rq.proc
    BY <1>3, <1>7, <2>1 DEF Request
  <2>3. Phase(t) /\ Calm(t)
    BY <1>1, <2>2 DEF Phase, Calm, Begun
  <2>4. Ordered(t)
    BY <1>5, <2>2 DEF Ordered
  <2>5. Staged(t) /\ Missed(t) /\ Repeated(t)
    BY <2>2 DEF Staged, Missed, Repeated, Reading
  <2>6. changes.moved > 0
    <3>1. rq.verf # 0 /\ rq.verf # hash(known)
      BY <1>3, <1>7 DEF Verified
    <3>2. rq.verf = ls.verf /\ ls.on
      BY <1>1 DEF RInv, Link
    <3>3. changes.moved # 0
      BY <3>1, <3>2 DEF RInv, Paged
    <3>4. changes.moved \in Nat
      BY DEF RInv, Typed, Counts
    <3>5. QED
      BY <3>3, <3>4
  <2>7. QED
    BY <1>1, <2>1, <2>2, <2>3, <2>4, <2>5, <2>6, Answered
<1>8. CASE r.proc = "READDIRPLUS" /\ Verified(r) /\ process_entry(r0)
  <2>1. r.proc = "READDIRPLUS" /\ Verified(r)
    BY <1>8
  <2>2. Dots \in Seq(Entries) /\ Len(Dots) = 2 /\ Dots[1] = -1 /\ Dots[2] = 0
    BY DEF Dots, Entries
  <2>3. /\ r0 \in Request /\ r0.path = known /\ (r0.calm => known = at) /\ r0.proc = "READDIRPLUS" /\ r0.pc = "fhandle"
        /\ r0.cookie = rq.cookie /\ r0.verf = rq.verf /\ r0.cook = 1 /\ r0.eof
        /\ ~r0.read /\ ~r0.err /\ r0.todo = Dots /\ r0.out = <<>> /\ r0.status = "OK"
    BY <1>3, <2>1, <2>2 DEF Request
  <2> HIDE DEF r0
  <2>4. \A i \in 1..Len(r0.todo) : r0.todo[i] = i - 2 /\ r0.todo[i] \in {-1, 0}
    <3>1. \A i \in 1..2 : i = 1 \/ i = 2
      OBVIOUS
    <3>2. /\ Dots[1] = 1 - 2 /\ Dots[1] \in {-1, 0}
          /\ Dots[2] = 2 - 2 /\ Dots[2] \in {-1, 0}
      BY <2>2
    <3>3. \A i \in 1..2 : Dots[i] = i - 2 /\ Dots[i] \in {-1, 0}
      BY <3>1, <3>2
    <3>4. QED
      BY <2>2, <2>3, <3>3
  <2>5. Calm(r0)
    BY <2>3, <2>4 DEF Calm
  <2>6. Ordered(r0)
    <3>1. Len(r0.out) = 0 /\ Len(r0.todo) = 2
      BY <2>2, <2>3
    <3>2. \A i, j \in 1..Len(r0.todo) : i < j => r0.todo[i] < r0.todo[j]
      BY <2>4, <3>1
    <3>3. QED
      BY <1>5, <2>3, <3>1, <3>2 DEF Ordered
  <2>7. Staged(r0) /\ Missed(r0) /\ Repeated(r0) /\ Dotted(r0)
    <3>1. Dotted(r0)
      BY <2>2, <2>3, <2>4 DEF Dotted
    <3>2. QED
      BY <2>3, <3>1 DEF Staged, Missed, Repeated, Reading, Begun
  <2>8. /\ rq' \in Request /\ Same(r0, rq') /\ rq'.pc \notin {"idle", "fhandle"}
        /\ Phase(rq') /\ Calm(rq') /\ Ordered(rq') /\ Staged(rq')
        /\ Missed(rq') /\ Repeated(rq')
        /\ rq'.status \in {"OK", "IO"} /\ (rq'.status = "IO" => r0.err)
    BY <1>1, <1>8, <2>3, <2>5, <2>6, <2>7, Processing
  <2>9. /\ rq'.path = known /\ (rq'.calm => known = at) /\ rq'.proc = rq.proc /\ rq'.cookie = rq.cookie
        /\ rq'.verf = rq.verf
    BY <1>3, <2>1, <2>3, <2>8 DEF Same
  <2>10. Verified(rq')
    BY <1>3, <2>1, <2>9 DEF Verified
  <2>11. QED
    BY <1>1, <2>3, <2>8, <2>9, <2>10, Answered
<1>9. CASE SendR(Disturbed(rq), "BADHANDLE")
  <2>1. PICK u : u = Disturbed(rq)
    OBVIOUS
  <2>2. /\ u \in Request /\ Same(rq, u) /\ u.cook = rq.cook /\ u.todo = rq.todo
        /\ u.eof = rq.eof /\ ~u.calm
    BY <1>1, <2>1, Marked
  <2>3. PICK t : t = rq' /\ t = [u EXCEPT !.pc = "sent", !.status = "BADHANDLE"]
    BY <1>9, <2>1 DEF SendR
  <2>4. /\ t \in Request /\ t.pc = "sent" /\ t.proc = rq.proc /\ ~t.calm
        /\ t.cookie = rq.cookie /\ t.verf = rq.verf /\ t.cook = 1 /\ t.eof
        /\ ~t.read /\ ~t.err /\ t.todo = <<>> /\ t.out = <<>> /\ t.status = "BADHANDLE"
    BY <1>2, <2>2, <2>3 DEF Request, Same
  <2>5. Phase(t) /\ Calm(t)
    BY <2>4 DEF Phase, Calm, Begun
  <2>6. Ordered(t)
    BY <1>5, <2>4 DEF Ordered
  <2>7. Staged(t) /\ Missed(t) /\ Repeated(t)
    BY <2>4 DEF Staged, Missed, Repeated, Reading
  <2>8. ~Begun(t)
    BY <2>4 DEF Begun
  <2>9. QED
    BY <1>1, <2>3, <2>4, <2>5, <2>6, <2>7, <2>8, Answered
<1>10. QED
  BY <1>4, <1>6, <1>7, <1>8, <1>9

LEMMA StepStat == RInv /\ stat => RInv'
<1> SUFFICES ASSUME RInv, stat PROVE RInv'
  OBVIOUS
<1>1. rq.pc = "stat" /\ SendR(rq, "OK") /\ ServerOnly
  BY DEF stat, Send, SendR
<1>2. Begun(rq)
  BY <1>1 DEF Begun, RInv, Page, Phase
<1>3. QED
  BY <1>1, <1>2, Sent

(* What is asked for is gone only if something has happened since.          *)
LEMMA NotFound ==
    ASSUME RInv, rq.pc \in {"plus_lstat", "plus_lookup"}, ~Found
    PROVE  ~rq.calm
<1>1. rq \in Request /\ Calm(rq) /\ Phase(rq) /\ Begun(rq)
  BY DEF RInv, Typed, Page, Phase, Begun
<1>2. rq.todo \in Seq(Entries) /\ rq.todo # <<>>
  BY <1>1 DEF Request, Phase
<1>3. Len(rq.todo) \in Nat /\ Len(rq.todo) # 0 /\ Head(rq.todo) = rq.todo[1]
  BY <1>2
<1>4. rq.calm => rq.path = at /\ Head(rq.todo) \in dir \cup {-1, 0}
  BY <1>1, <1>3 DEF Calm, RInv, Paged
<1>5. QED
  BY <1>4 DEF Found

LEMMA Member ==
    ASSUME NEW S, NEW q \in Seq(S), NEW i \in 1..Len(q)
    PROVE  q[i] \in S
OBVIOUS

LEMMA Rests ==
    ASSUME NEW S, NEW q \in Seq(S), q # <<>>
    PROVE  /\ Tail(q) \in Seq(S) /\ Len(q) \in Nat /\ Len(q) >= 1 /\ Len(Tail(q)) = Len(q) - 1
           /\ \A j \in 1..Len(q) - 1 : j + 1 \in 1..Len(q) /\ Tail(q)[j] = q[j + 1]
           /\ Head(q) = q[1]
<1>1. Len(q) \in Nat /\ Len(q) # 0 /\ Tail(q) \in Seq(S)
  OBVIOUS
<1>2. Len(Tail(q)) = Len(q) - 1
  BY <1>1
<1>3. \A j \in 1..Len(q) - 1 : Tail(q)[j] = q[j + 1]
  BY <1>1
<1>4. QED
  BY <1>1, <1>2, <1>3

LEMMA EntryFailed ==
    ASSUME RInv, rq.pc \in {"plus_lstat", "plus_lookup"}, NEW r, ServerOnly,
           (r = rq /\ ~Found) \/ r = Disturbed(rq), Failed(r)
    PROVE  RInv'
<1> DEFINE r0 == [r EXCEPT !.err = TRUE, !.todo = Tail(@)]
<1>1. /\ rq \in Request /\ Phase(rq) /\ Ordered(rq) /\ Staged(rq)
      /\ rq.todo # <<>> /\ rq.eof /\ ~rq.err /\ rq.cookie < rq.cook /\ Begun(rq)
      /\ rq.path \in Paths /\ rq.proc = "READDIRPLUS" /\ rq.status = "OK"
  BY DEF RInv, Typed, Page, Phase, Begun
<1>0. /\ r \in Request /\ Same(rq, r) /\ r.pc = rq.pc /\ r.cook = rq.cook
      /\ r.todo = rq.todo /\ r.eof = rq.eof /\ r.status = rq.status /\ ~r.calm
      /\ r.calm \in BOOLEAN
  BY <1>1, NotFound, Marked
<1>2. /\ rq.todo \in Seq(Entries) /\ rq.cook \in Nat /\ rq.cookie \in Nat
      /\ rq.out \in Seq([name : Entries, cookie : Nat])
  BY <1>1 DEF Request
<1>3. /\ Tail(rq.todo) \in Seq(Entries) /\ Len(rq.todo) \in Nat /\ Len(rq.todo) >= 1
      /\ Len(Tail(rq.todo)) = Len(rq.todo) - 1
      /\ \A j \in 1..Len(rq.todo) - 1 : /\ j + 1 \in 1..Len(rq.todo)
                                        /\ Tail(rq.todo)[j] = rq.todo[j + 1]
  BY <1>1, <1>2, Rests
<1>4. /\ r0 \in Request /\ r0.path = rq.path /\ r0.proc = "READDIRPLUS" /\ r0.pc = rq.pc
      /\ r0.cookie = rq.cookie /\ r0.verf = rq.verf /\ r0.cook = rq.cook /\ r0.eof
      /\ r0.read = rq.read /\ r0.err = TRUE /\ r0.todo = Tail(rq.todo) /\ r0.out = rq.out
      /\ r0.status = "OK" /\ r0.calm = FALSE
  <2>1. TRUE \in BOOLEAN
    OBVIOUS
  <2>2. /\ r \in Request /\ r.path = rq.path /\ r.proc = "READDIRPLUS" /\ r.pc = rq.pc
        /\ r.cookie = rq.cookie /\ r.verf = rq.verf /\ r.cook = rq.cook /\ r.eof
        /\ r.read = rq.read /\ r.todo = rq.todo /\ r.out = rq.out
        /\ r.status = "OK" /\ r.calm = FALSE
    BY <1>0, <1>1 DEF Same
  <2>3. QED
    BY <1>3, <2>1, <2>2 DEF Request
<1>5. process_entry(r0)
  BY DEF Failed
<1> HIDE DEF r0
<1>6. Calm(r0)
  BY <1>4 DEF Calm
<1>7. Ordered(r0)
  <2>1. /\ Len(r0.todo) = Len(rq.todo) - 1
        /\ \A j \in 1..Len(r0.todo) : j + 1 \in 1..Len(rq.todo) /\ r0.todo[j] = rq.todo[j + 1]
    BY <1>3, <1>4
  <2>2. \A i, j \in 1..Len(r0.todo) : i < j => r0.todo[i] < r0.todo[j]
    <3>1. \A i, j \in 1..Len(r0.todo) : i < j => i + 1 < j + 1
      OBVIOUS
    <3>2. QED
      BY <1>1, <2>1, <3>1 DEF Ordered
  <2>3. \A i \in 1..Len(r0.out), j \in 1..Len(r0.todo) : r0.out[i].name < r0.todo[j]
    BY <1>1, <1>4, <2>1 DEF Ordered
  <2>4. r0.cook - 1 + Len(r0.todo) <= Cardinality(Names) + 2
    <3>1. rq.cook - 1 + Len(rq.todo) <= Cardinality(Names) + 2
      BY <1>1 DEF Ordered
    <3>2. Cardinality(Names) \in Nat
      BY ReadDirectory DEF RInv
    <3>3. QED
      BY <1>2, <1>3, <1>4, <2>1, <3>1, <3>2
  <2>5. QED
    BY <1>1, <1>4, <2>2, <2>3, <2>4 DEF Ordered
<1>8. ~r0.read => Dotted(r0)
  <2> SUFFICES ASSUME ~rq.read PROVE r0.cook <= 2 /\ r0.cookie < r0.cook
    BY <1>4 DEF Dotted
  <2>1. Len(rq.todo) = 3 - rq.cook
    BY <1>1 DEF Staged, Dotted
  <2>2. QED
    BY <1>1, <1>2, <1>3, <1>4, <2>1
<1>9. Staged(r0)
  <2>1. r0.read => \A i \in 1..Len(r0.todo) : r0.todo[i] > 0
    BY <1>1, <1>3, <1>4 DEF Staged
  <2>2. QED
    BY <1>1, <1>4, <1>8, <2>1 DEF Staged
<1>10. Missed(r0) /\ Repeated(r0)
  BY <1>4 DEF Missed, Repeated, Reading
<1>11. /\ rq' \in Request /\ Same(r0, rq') /\ rq'.pc \notin {"idle", "fhandle"}
       /\ Phase(rq') /\ Calm(rq') /\ Ordered(rq') /\ Staged(rq')
       /\ Missed(rq') /\ Repeated(rq') /\ rq'.status \in {"OK", "IO"}
  BY <1>1, <1>4, <1>5, <1>6, <1>7, <1>8, <1>9, <1>10, Processing
<1>12. /\ Verified(rq) /\ (changes.moved = 0 => rq.path = known)
  BY <1>1 DEF RInv, Paged
<1>13. /\ rq'.path = rq.path /\ rq'.proc = rq.proc /\ rq'.cookie = rq.cookie
       /\ rq'.verf = rq.verf /\ ~rq'.calm
  BY <1>1, <1>4, <1>11 DEF Same
<1>14. Verified(rq')
  BY <1>12, <1>13 DEF Verified
<1>15. rq.pc # "idle"
  BY <1>1 DEF Begun
<1>16. QED
  BY <1>11, <1>12, <1>13, <1>14, <1>15, Answered

LEMMA StepLstat == RInv /\ plus_lstat => RInv'
<1> SUFFICES ASSUME RInv, plus_lstat PROVE RInv'
  OBVIOUS
<1>1. /\ rq.pc = "plus_lstat" /\ ServerOnly
      /\ \/ Found /\ rq' = [rq EXCEPT !.pc = "plus_lookup"]
         \/ ~Found /\ Failed(rq)
         \/ Failed(Disturbed(rq))
  BY DEF plus_lstat
<1>2. CASE Found /\ rq' = [rq EXCEPT !.pc = "plus_lookup"]
  <2>1. PICK t : t = rq' /\ t = [rq EXCEPT !.pc = "plus_lookup"]
    BY <1>2
  <2>2. /\ rq \in Request /\ Page(rq) /\ Phase(rq) /\ Staged(rq) /\ Begun(rq)
        /\ rq.path \in Paths /\ rq.proc = "READDIRPLUS" /\ rq.status = "OK"
    BY <1>1 DEF RInv, Typed, Page, Phase, Begun
  <2>3. /\ t \in Request /\ Same(rq, t) /\ t.cook = rq.cook /\ t.todo = rq.todo
        /\ t.eof = rq.eof /\ t.pc = "plus_lookup" /\ t.status = "OK"
    BY <2>1, <2>2 DEF Request, Same
  <2>4. Phase(t)
    BY <1>1, <2>2, <2>3 DEF Phase, Same, Begun
  <2>5. Calm(t) /\ Ordered(t) /\ Missed(t) /\ Repeated(t) /\ (Dotted(rq) => Dotted(t))
    BY <2>2, <2>3, SamePage DEF Page
  <2>6. Staged(t)
    BY <2>2, <2>3, <2>5 DEF Staged, Same
  <2>7. /\ t.calm => t.path = at
        /\ changes.moved = 0 => t.path = known
        /\ Verified(rq)
    BY <1>1, <2>2, <2>3 DEF RInv, Paged, Same
  <2>8. Verified(t)
    BY <2>3, <2>7 DEF Verified, Same
  <2>9. QED
    BY <1>1, <2>1, <2>3, <2>4, <2>5, <2>6, <2>7, <2>8, Answered DEF Same
<1>3. CASE ~Found /\ Failed(rq)
  BY <1>1, <1>3, EntryFailed
<1>4. CASE Failed(Disturbed(rq))
  BY <1>1, <1>4, EntryFailed
<1>5. QED
  BY <1>1, <1>2, <1>3, <1>4

(* An entry is added to the page.                                          *)
LEMMA Adding ==
    ASSUME RInv, rq.pc = "plus_lookup", NEW r0, r0 = AddEntry(rq)
    PROVE  /\ r0 \in Request /\ r0.eof /\ ~r0.err /\ r0.read = rq.read
           /\ r0.proc = "READDIRPLUS" /\ r0.path = rq.path /\ r0.status = "OK"
           /\ r0.cookie = rq.cookie /\ r0.verf = rq.verf /\ (r0.calm => rq.calm)
           /\ Calm(r0) /\ Ordered(r0) /\ Staged(r0) /\ (~r0.read => Dotted(r0))
           /\ Missed(r0) /\ Repeated(r0)
<1> DEFINE n == Len(rq.out)
           e == Entry(Head(rq.todo), rq.cook)
<1>1. /\ rq \in Request /\ Phase(rq) /\ Ordered(rq) /\ Staged(rq) /\ Calm(rq)
      /\ Missed(rq) /\ Repeated(rq)
      /\ rq.todo # <<>> /\ rq.eof /\ ~rq.err /\ rq.cookie < rq.cook
      /\ rq.proc = "READDIRPLUS" /\ rq.status = "OK"
  BY DEF RInv, Typed, Page, Phase
<1>2. /\ rq.todo \in Seq(Entries) /\ rq.cook \in Nat \ {0} /\ rq.cookie \in Nat
      /\ rq.out \in Seq([name : Entries, cookie : Nat])
  BY <1>1 DEF Request
<1>3. /\ Tail(rq.todo) \in Seq(Entries) /\ Len(rq.todo) \in Nat /\ Len(rq.todo) >= 1
      /\ Len(Tail(rq.todo)) = Len(rq.todo) - 1
      /\ \A j \in 1..Len(rq.todo) - 1 : /\ j + 1 \in 1..Len(rq.todo)
                                        /\ Tail(rq.todo)[j] = rq.todo[j + 1]
      /\ Head(rq.todo) = rq.todo[1]
  BY <1>1, <1>2, Rests
<1>4. e \in [name : Entries, cookie : Nat] /\ e.name = rq.todo[1] /\ e.cookie = rq.cook
  <2>1. rq.todo[1] \in Entries
    BY <1>2, <1>3
  <2>2. QED
    BY <1>2, <1>3, <2>1 DEF Entry
<1>5. r0 = [rq EXCEPT !.out = Append(@, e), !.todo = Tail(@), !.cook = @ + 1]
  BY DEF AddEntry
<1> HIDE DEF e
<1>6. /\ Append(rq.out, e) \in Seq([name : Entries, cookie : Nat]) /\ n \in Nat
      /\ Len(Append(rq.out, e)) = n + 1
      /\ \A i \in 1..n : Append(rq.out, e)[i] = rq.out[i]
      /\ Append(rq.out, e)[n + 1] = e
  BY <1>2, <1>4
<1>7. rq.cook + 1 \in Nat \ {0}
  BY <1>2
<1>8. /\ r0 \in Request /\ r0.eof /\ ~r0.err /\ r0.read = rq.read
      /\ r0.proc = "READDIRPLUS" /\ r0.path = rq.path /\ r0.status = "OK"
      /\ r0.cookie = rq.cookie /\ r0.verf = rq.verf /\ (r0.calm => rq.calm)
      /\ r0.pc = "plus_lookup"
      /\ r0.out = Append(rq.out, e) /\ r0.todo = Tail(rq.todo) /\ r0.cook = rq.cook + 1
  BY <1>1, <1>3, <1>5, <1>6, <1>7 DEF Request
<1>9. /\ Len(r0.todo) = Len(rq.todo) - 1
      /\ \A j \in 1..Len(r0.todo) : j + 1 \in 1..Len(rq.todo) /\ r0.todo[j] = rq.todo[j + 1]
  BY <1>3, <1>8
<1>10. /\ Len(r0.out) = n + 1 /\ r0.out[n + 1].name = rq.todo[1]
       /\ r0.out[n + 1].cookie = rq.cook
       /\ \A i \in 1..n + 1 : i # n + 1 => i \in 1..n /\ r0.out[i] = rq.out[i]
  <2>1. \A i \in 1..n + 1 : i # n + 1 => i \in 1..n
    BY <1>6
  <2>2. QED
    BY <1>4, <1>6, <1>8, <2>1
<1>11. Calm(r0)
  BY <1>1, <1>8, <1>9 DEF Calm
<1>12. 1 \in 1..Len(rq.todo)
  BY <1>3
<1>13. Ordered(r0)
  <2>1. \A i, j \in 1..Len(r0.todo) : i < j => r0.todo[i] < r0.todo[j]
    <3>1. \A i, j \in 1..Len(r0.todo) : i < j => i + 1 < j + 1
      OBVIOUS
    <3>2. QED
      BY <1>1, <1>9, <3>1 DEF Ordered
  <2>2. \A i \in 1..Len(r0.out), j \in 1..Len(r0.todo) : r0.out[i].name < r0.todo[j]
    <3> SUFFICES ASSUME NEW i \in 1..n + 1, NEW j \in 1..Len(r0.todo)
                 PROVE  r0.out[i].name < r0.todo[j]
      BY <1>10
    <3>1. CASE i = n + 1
      <4>1. 1 < j + 1
        OBVIOUS
      <4>2. QED
        BY <1>1, <1>9, <1>10, <1>12, <3>1, <4>1 DEF Ordered
    <3>2. CASE i # n + 1
      BY <1>1, <1>9, <1>10, <3>2 DEF Ordered
    <3>3. QED
      BY <3>1, <3>2
  <2>3. \A i, j \in 1..Len(r0.out) : i < j => /\ r0.out[i].name < r0.out[j].name
                                              /\ r0.out[i].cookie < r0.out[j].cookie
    <3> SUFFICES ASSUME NEW i \in 1..n + 1, NEW j \in 1..n + 1, i < j
                 PROVE  /\ r0.out[i].name < r0.out[j].name
                        /\ r0.out[i].cookie < r0.out[j].cookie
      BY <1>10
    <3>1. i # n + 1
      BY <1>6
    <3>2. CASE j = n + 1
      BY <1>1, <1>10, <1>12, <3>1, <3>2 DEF Ordered
    <3>3. CASE j # n + 1
      BY <1>1, <1>10, <3>1, <3>3 DEF Ordered
    <3>4. QED
      BY <3>2, <3>3
  <2>4. \A i \in 1..Len(r0.out) : r0.out[i].cookie < r0.cook
    <3> SUFFICES ASSUME NEW i \in 1..n + 1 PROVE r0.out[i].cookie < rq.cook + 1
      BY <1>8, <1>10
    <3>1. CASE i = n + 1
      BY <1>2, <1>10, <3>1
    <3>2. CASE i # n + 1
      <4>1. rq.out[i].cookie < rq.cook /\ rq.out[i].cookie \in Nat
        <5>1. i \in 1..Len(rq.out) /\ rq.out[i] \in [name : Entries, cookie : Nat]
          <6>1. i \in 1..Len(rq.out)
            BY <1>10, <3>2
          <6>2. rq.out \in Seq([name : Entries, cookie : Nat])
            BY <1>2
          <6>3. QED
            BY <6>1, <6>2, Member, Zenon
        <5>2. QED
          BY <1>1, <5>1 DEF Ordered
      <4>2. QED
        BY <1>2, <1>10, <3>2, <4>1
    <3>3. QED
      BY <3>1, <3>2
  <2>5. r0.cookie < r0.cook /\ r0.out[Len(r0.out)].cookie = r0.cook - 1
    BY <1>1, <1>2, <1>8, <1>10
  <2>6. r0.cook - 1 + Len(r0.todo) <= Cardinality(Names) + 2
    <3>1. rq.cook - 1 + Len(rq.todo) <= Cardinality(Names) + 2
      BY <1>1 DEF Ordered
    <3>2. Cardinality(Names) \in Nat
      BY ReadDirectory DEF RInv
    <3>3. QED
      BY <1>2, <1>3, <1>8, <1>9, <3>1, <3>2
  <2>7. QED
    BY <2>1, <2>2, <2>3, <2>4, <2>5, <2>6 DEF Ordered
<1>14. Begun(rq)
  BY DEF Begun, RInv, Page, Phase
<1>15. ~rq.read => /\ Len(rq.todo) = 3 - rq.cook
                   /\ \A i \in 1..Len(rq.todo) : rq.todo[i] = rq.cook + i - 3
  BY <1>1, <1>14 DEF Staged, Dotted
<1>16. ~r0.read => Dotted(r0)
  <2> SUFFICES ASSUME ~rq.read PROVE Dotted(r0)
    BY <1>8
  <2>1. Len(r0.todo) = 3 - r0.cook
    BY <1>2, <1>8, <1>9, <1>15
  <2>2. ASSUME NEW j \in 1..Len(r0.todo) PROVE r0.todo[j] = r0.cook + j - 3
    <3>1. r0.todo[j] = rq.cook + (j + 1) - 3
      BY <1>9, <1>15
    <3>2. rq.cook \in Nat /\ j \in Nat /\ r0.cook = rq.cook + 1
      BY <1>2, <1>8
    <3>3. rq.cook + (j + 1) - 3 = (rq.cook + 1) + j - 3
      BY <3>2
    <3>4. QED
      BY <3>1, <3>2, <3>3
  <2>3. QED
    BY <1>8, <2>1, <2>2 DEF Dotted
<1>17. ~rq.read => rq.todo[1] = rq.cook - 2 /\ rq.todo[1] <= 0
  BY <1>2, <1>3, <1>12, <1>15
<1>18. Staged(r0)
  <2>1. r0.read => \A i \in 1..Len(r0.todo) : r0.todo[i] > 0
    BY <1>1, <1>8, <1>9 DEF Staged
  <2>2. ~r0.read => \A i \in 1..Len(r0.out) : r0.out[i].name <= 0
    BY <1>1, <1>8, <1>10, <1>17 DEF Staged
  <2>3. ASSUME NEW i \in 1..n + 1, r0.out[i].name <= 0
        PROVE  r0.out[i].cookie = r0.out[i].name + 2 /\ r0.out[i].cookie > r0.cookie
    <3>1. CASE i = n + 1
      <4>1. rq.todo[1] = rq.cook - 2
        <5>1. rq.read => rq.todo[1] > 0
          BY <1>1, <1>12 DEF Staged
        <5>2. rq.todo[1] \in Int
          <6>1. rq.todo[1] \in Entries /\ Entries \subseteq Int
            BY <1>2, <1>12, CookiesNat
          <6>2. QED
            BY <6>1
        <5>3. QED
          BY <1>10, <1>17, <2>3, <3>1, <5>1, <5>2
      <4>2. QED
        <5>1. r0.out[i].cookie = rq.cook /\ r0.out[i].name = rq.cook - 2
          BY <1>10, <3>1, <4>1
        <5>2. rq.cook \in Nat /\ rq.cookie \in Nat
          BY <1>2
        <5>3. QED
          BY <1>1, <1>8, <5>1, <5>2
    <3>2. CASE i # n + 1
      BY <1>1, <1>8, <1>10, <2>3, <3>2 DEF Staged
    <3>3. QED
      BY <3>1, <3>2
  <2>4. QED
    BY <1>10, <1>16, <2>1, <2>2, <2>3 DEF Staged
<1>19. Skipped(rq) = 0 /\ Skipped(r0) = 0
  BY <1>1, <1>2, <1>8 DEF Skipped
<1>20. ASSUME NEW k \in 0..Len(r0.todo)
       PROVE  k + 1 \in Turns(rq) /\ Got(r0, k) = Got(rq, k + 1)
              /\ Passed(r0, k) = Passed(rq, k + 1)
  <2>1. k \in Nat /\ k + 1 \in 0..Len(rq.todo)
    BY <1>3, <1>9
  <2>2. k + 1 \in Turns(rq)
    BY <1>1, <1>19, <2>1 DEF Turns
  <2>3. Passed(r0, k) = Passed(rq, k + 1)
    <3>1. Off(r0.proc) = Off(rq.proc) /\ Off(rq.proc) \in Int
      BY <1>1, <1>8 DEF Off
    <3>2. QED
      BY <1>2, <1>8, <2>1, <3>1 DEF Passed
  <2>4. {r0.out[i].name : i \in 1..n + 1} = {rq.out[i].name : i \in 1..n} \cup {rq.todo[1]}
    <3>1. n + 1 \in 1..n + 1 /\ \A i \in 1..n : i \in 1..n + 1 /\ i # n + 1
      BY <1>6
    <3>2. QED
      BY <1>10, <3>1
  <2>5. {rq.todo[i] : i \in 1..k + 1} = {rq.todo[1]} \cup {r0.todo[i] : i \in 1..k}
    <3>1. \A i \in 1..k : i \in 1..Len(r0.todo) /\ i + 1 \in 1..k + 1
      BY <2>1, <1>3, <1>9
    <3>2. \A i \in 1..k : r0.todo[i] = rq.todo[i + 1]
      BY <1>9, <3>1
    <3>3. 1 \in 1..k + 1 /\ \A i \in 1..k + 1 : i # 1 => i - 1 \in 1..k /\ (i - 1) + 1 = i
      BY <2>1
    <3>4. \A i \in 1..k + 1 : i # 1 => rq.todo[i] = r0.todo[i - 1]
      BY <3>2, <3>3
    <3> DEFINE A == {rq.todo[i] : i \in 1..k + 1}
               B == {r0.todo[i] : i \in 1..k}
    <3>5. \A x \in A : x = rq.todo[1] \/ x \in B
      BY <3>3, <3>4
    <3>6. rq.todo[1] \in A /\ \A x \in B : x \in A
      BY <3>1, <3>2, <3>3
    <3> HIDE DEF A, B
    <3>7. A = {rq.todo[1]} \cup B
      BY <3>5, <3>6
    <3>8. QED
      BY <3>7 DEF A, B
  <2>6. /\ Got(r0, k) = {r0.out[i].name : i \in 1..n + 1} \cup {r0.todo[i] : i \in 1..k}
        /\ Got(rq, k + 1) = {rq.out[i].name : i \in 1..n} \cup {rq.todo[i] : i \in 1..k + 1}
    <3>1. 0 + 1 = 1
      OBVIOUS
    <3>2. QED
      BY <1>10, <1>19, <3>1 DEF Got
  <2>7. Got(r0, k) = Got(rq, k + 1)
    BY <2>4, <2>5, <2>6
  <2>8. QED
    BY <2>2, <2>3, <2>7
<1>21. Turns(r0) = 0..Len(r0.todo)
  BY <1>8, <1>19 DEF Turns
<1>22. ASSUME NEW k \in 0..Len(r0.todo)
       PROVE  Unseen(r0, k) = Unseen(rq, k + 1) /\ Again(r0, k) = Again(rq, k + 1)
  BY <1>20 DEF Unseen, Again
<1>23. Missed(r0)
  <2>1. Len(r0.todo) \in 0..Len(r0.todo) /\ Len(r0.todo) + 1 = Len(rq.todo)
    BY <1>3, <1>9
  <2>2. Got(r0, Len(r0.todo)) = Got(rq, Len(rq.todo))
    BY <1>20, <2>1
  <2>3. QED
    BY <1>1, <1>8, <1>20, <1>21, <1>22, <2>2 DEF Missed, Reading
<1>24. Repeated(r0)
  BY <1>1, <1>8, <1>20, <1>21, <1>22 DEF Repeated, Reading
<1>25. QED
  BY <1>8, <1>11, <1>13, <1>16, <1>18, <1>23, <1>24

LEMMA StepLookup == RInv /\ plus_lookup => RInv'
<1> SUFFICES ASSUME RInv, plus_lookup PROVE RInv'
  OBVIOUS
<1>1. /\ rq.pc = "plus_lookup" /\ ServerOnly
      /\ \/ process_entry(AddEntry(rq))
         \/ ~Found /\ Failed(rq)
         \/ Failed(Disturbed(rq))
  BY DEF plus_lookup
<1>2. CASE process_entry(AddEntry(rq))
  <2>1. PICK r0 : r0 = AddEntry(rq)
    OBVIOUS
  <2>2. /\ r0 \in Request /\ r0.eof /\ ~r0.err /\ r0.read = rq.read
        /\ r0.proc = "READDIRPLUS" /\ r0.path = rq.path /\ r0.status = "OK"
        /\ r0.cookie = rq.cookie /\ r0.verf = rq.verf /\ (r0.calm => rq.calm)
        /\ Calm(r0) /\ Ordered(r0) /\ Staged(r0) /\ (~r0.read => Dotted(r0))
        /\ Missed(r0) /\ Repeated(r0)
    BY <1>1, <2>1, Adding
  <2>3. /\ rq.path \in Paths /\ rq.proc = "READDIRPLUS"
    BY <1>1 DEF RInv, Page, Phase, Begun
  <2>4. process_entry(r0)
    BY <1>2, <2>1
  <2>5. /\ rq' \in Request /\ Same(r0, rq') /\ rq'.pc \notin {"idle", "fhandle"}
        /\ Phase(rq') /\ Calm(rq') /\ Ordered(rq') /\ Staged(rq')
        /\ Missed(rq') /\ Repeated(rq')
        /\ rq'.status \in {"OK", "IO"} /\ (rq'.status = "IO" => r0.err)
    BY <2>2, <2>3, <2>4, Processing
  <2>6. /\ Verified(rq) /\ (rq.calm => rq.path = at)
        /\ (changes.moved = 0 => rq.path = known)
    BY <1>1 DEF RInv, Paged, Page, Phase, Begun
  <2>7. /\ rq'.path = rq.path /\ rq'.proc = rq.proc /\ rq'.cookie = rq.cookie
        /\ rq'.verf = rq.verf /\ (rq'.calm => rq.calm)
    BY <2>2, <2>3, <2>5 DEF Same
  <2>8. Verified(rq')
    BY <2>6, <2>7 DEF Verified
  <2>9. QED
    BY <1>1, <2>2, <2>5, <2>6, <2>7, <2>8, Answered
<1>3. CASE ~Found /\ Failed(rq)
  BY <1>1, <1>3, EntryFailed
<1>4. CASE Failed(Disturbed(rq))
  BY <1>1, <1>4, EntryFailed
<1>5. QED
  BY <1>1, <1>2, <1>3, <1>4

-----------------------------------------------------------------------------
(* The directory is read.  The names that lie between the cookie and the   *)
(* f-th entry have been got; of the others the listing has passed those    *)
(* that it had passed before.                                              *)
LEMMA SortedMissed ==
    ASSUME Directory(dir), stay \subseteq dir, NEW s \in Nat, NEW f \in Nat,
           s <= f, f <= Len(Sorted), NEW X, NEW c \in Int, s > 0 => s <= c,
           \A i \in s + 1..f : Sorted[i] \in X
    PROVE  /\ Behind(stay \ (seen \cup X), dir, f) \subseteq Behind(stay \ seen, dir, c)
           /\ f = Len(Sorted) =>
                stay \ (seen \cup X) \subseteq Behind(stay \ seen, dir, c)
<1>1. /\ Len(Sorted) \in Nat
      /\ \A n \in dir : /\ Position(dir, n) \in 1..Len(Sorted)
                        /\ Sorted[Position(dir, n)] = n
  <2>1. Len(Sorted) = Cardinality(dir) /\ Cardinality(dir) \in Nat
    BY SortedGood, FS_CardinalityType DEF Directory
  <2>2. QED
    BY <2>1, SortedGood
<1>2. ASSUME NEW n \in dir, n \notin X, Position(dir, n) <= f
      PROVE  Position(dir, n) <= c
  <2> DEFINE p == Position(dir, n)
  <2>1. p \in 1..Len(Sorted) /\ Sorted[p] = n
    BY <1>1
  <2> HIDE DEF p
  <2>2. p \notin s + 1..f
    BY <1>2, <2>1
  <2>3. p \in Nat /\ p >= 1 /\ p <= f
    BY <1>1, <1>2, <2>1 DEF p
  <2>4. p <= s
    BY <2>2, <2>3
  <2>5. p <= c
    BY <2>3, <2>4
  <2>6. QED
    BY <2>5 DEF p
<1>3. Behind(stay \ (seen \cup X), dir, f) \subseteq Behind(stay \ seen, dir, c)
  BY <1>2 DEF Behind
<1>4. f = Len(Sorted) => \A n \in dir : Position(dir, n) <= f
  BY <1>1
<1>5. QED
  BY <1>2, <1>3, <1>4 DEF Behind

(* Of what has been got only names not passed before were listed.          *)
LEMMA SortedAgain ==
    ASSUME Directory(dir), NEW s \in Nat, NEW f \in Nat,
           s <= f, f <= Len(Sorted), NEW X, NEW c \in Int,
           s < Len(Sorted) => c <= s,
           X \cap (seen \cap dir) = X \cap seen,
           \A n \in X \cap dir : \E i \in s + 1..f : n = Sorted[i]
    PROVE  (twice \cup (seen \cap X)) \cup Ahead(seen \cup X, dir, f)
                \subseteq twice \cup Ahead(seen, dir, c)
<1>1. /\ Len(Sorted) \in Nat
      /\ \A i \in 1..Len(Sorted) : Sorted[i] \in dir /\ Position(dir, Sorted[i]) = i
      /\ \A n \in dir : Position(dir, n) \in 1..Len(Sorted)
  <2>1. Len(Sorted) = Cardinality(dir) /\ Cardinality(dir) \in Nat
    BY SortedGood, FS_CardinalityType DEF Directory
  <2>2. QED
    BY <2>1, SortedGood
<1>2. ASSUME NEW n \in X \cap dir
      PROVE  s < Position(dir, n) /\ Position(dir, n) <= f /\ Position(dir, n) > c
  <2>1. PICK i \in s + 1..f : n = Sorted[i]
    OBVIOUS
  <2>2. i \in 1..Len(Sorted) /\ s < i /\ i <= f /\ i \in Nat
    BY <1>1, <2>1
  <2>3. Position(dir, n) = i
    BY <1>1, <2>1, <2>2
  <2>4. s < Len(Sorted)
    BY <1>1, <2>2
  <2>5. i > c
    BY <2>2, <2>4
  <2>6. QED
    BY <2>2, <2>3, <2>5
<1>3. seen \cap X \subseteq Ahead(seen, dir, c)
  BY <1>2 DEF Ahead
<1>4. ASSUME NEW n \in dir, Position(dir, n) > f
      PROVE  n \notin X /\ Position(dir, n) > c
  <2>1. Position(dir, n) \in Nat /\ Position(dir, n) <= Len(Sorted)
    BY <1>1
  <2>2. s < Len(Sorted)
    BY <1>1, <1>4, <2>1
  <2>3. n \notin X
    BY <1>2, <1>4, <2>1
  <2>4. QED
    BY <1>4, <2>1, <2>2, <2>3
<1>5. Ahead(seen \cup X, dir, f) \subseteq Ahead(seen, dir, c)
  BY <1>4 DEF Ahead
<1>6. QED
  BY <1>3, <1>5

LEMMA Bounds ==
    ASSUME RInv
    PROVE  /\ Missable \in Nat /\ Repeatable \in Nat
           /\ IsFiniteSet(seen) /\ IsFiniteSet(twice) /\ IsFiniteSet(stay)
<1>1. changes \in Counts
  BY DEF RInv, Typed
<1>2. /\ changes.removed \in Nat /\ changes.toPlain \in Nat
      /\ changes.added \in Nat /\ changes.toPlus \in Nat
  BY <1>1 DEF Counts
<1>3. Missable \in Nat /\ Repeatable \in Nat
  BY <1>2 DEF Missable, Repeatable
<1>4. IsFiniteSet(Entries)
  <2>1. IsFiniteSet({-1}) /\ IsFiniteSet({0}) /\ IsFiniteSet(Names)
    BY ReaddirAssumption, FS_Singleton
  <2>2. IsFiniteSet(({-1} \cup {0}) \cup Names)
    BY <2>1, FS_Union
  <2>3. Entries = ({-1} \cup {0}) \cup Names
    BY DEF Entries
  <2>4. QED
    BY <2>2, <2>3
<1>5. seen \subseteq Entries /\ twice \subseteq Entries /\ stay \subseteq dir
  BY DEF RInv, Typed
<1>6. IsFiniteSet(dir)
  BY ReadDirectory DEF RInv, Directory
<1>7. QED
  BY <1>3, <1>4, <1>5, <1>6, FS_Subset

(* The entries s + 1 to f of the directory, and dots D not listed before.   *)
LEMMA Listed ==
    ASSUME RInv, rq.pc # "idle", NEW s \in Nat, NEW f \in Nat, s <= f, f <= Len(Sorted),
           s > 0 => s <= rq.cookie - Off(rq.proc),
           s < Len(Sorted) => rq.cookie - Off(rq.proc) <= s,
           NEW D, D \cap seen = {}, D \cap dir = {},
           NEW X, \A i \in s + 1..f : Sorted[i] \in X,
           \A n \in X : n \in D \/ \E i \in s + 1..f : n = Sorted[i]
    PROVE  /\ Cardinality(Behind(stay \ (seen \cup X), dir, f)) <= Missable
           /\ f = Len(Sorted) => Cardinality(stay \ (seen \cup X)) <= Missable
           /\ Cardinality((twice \cup (seen \cap X)) \cup Ahead(seen \cup X, dir, f))
                    <= Repeatable
<1>1. Directory(dir) /\ stay \subseteq dir /\ rq \in Request
  BY ReadDirectory DEF RInv, Typed
<1>2. PICK c \in Int : c = rq.cookie - Off(rq.proc)
  BY <1>1 DEF Request, Off
<1> DEFINE M == Behind(stay \ seen, dir, c)
           R == twice \cup Ahead(seen, dir, c)
<1>3. ls.on /\ ls.last = rq.proc /\ ls.cookie = rq.cookie
  BY DEF RInv, Link
<1>4. Cardinality(M) <= Missable /\ Cardinality(R) <= Repeatable
  BY <1>2, <1>3 DEF RInv, Misses, Repeats
<1>5. IsFiniteSet(M) /\ IsFiniteSet(R)
  BY <1>1, <1>2, Bounds, PassedFinite, FS_Union
<1>6. \A i \in s + 1..f : Sorted[i] \in X
  OBVIOUS
<1>c. (s > 0 => s <= c) /\ (s < Len(Sorted) => c <= s)
  BY <1>2
<1>7. /\ Behind(stay \ (seen \cup X), dir, f) \subseteq M
      /\ f = Len(Sorted) => stay \ (seen \cup X) \subseteq M
  <2>1. /\ Directory(dir) /\ stay \subseteq dir /\ s \in Nat /\ f \in Nat
        /\ s <= f /\ f <= Len(Sorted) /\ c \in Int
    BY <1>1, <1>2
  <2>2. QED
    BY <2>1, <1>6, <1>c, SortedMissed
<1>8. (twice \cup (seen \cap X)) \cup Ahead(seen \cup X, dir, f) \subseteq R
  <2>1. Len(Sorted) = Cardinality(dir) /\ \A i \in 1..Len(Sorted) : Sorted[i] \in dir
    BY <1>1, SortedGood
  <2>2. \A i \in s + 1..f : i \in 1..Len(Sorted)
    BY <2>1, <1>1, ReadDirectory DEF RInv
  <2>3. X \cap (seen \cap dir) = X \cap seen
    BY <2>1, <2>2
  <2>4. \A n \in X \cap dir : \E i \in s + 1..f : n = Sorted[i]
    OBVIOUS
  <2>5. QED
    <3>1. /\ Directory(dir) /\ s \in Nat /\ f \in Nat
          /\ s <= f /\ f <= Len(Sorted) /\ c \in Int
      BY <1>1, <1>2
    <3>2. QED
      BY <1>c, <2>3, <2>4, <3>1, SortedAgain
<1> HIDE DEF M, R
<1>9. /\ Cardinality(Behind(stay \ (seen \cup X), dir, f)) \in Nat
      /\ Cardinality(Behind(stay \ (seen \cup X), dir, f)) <= Cardinality(M)
  BY <1>5, <1>7, NoMore
<1>10. f = Len(Sorted) => /\ Cardinality(stay \ (seen \cup X)) \in Nat
                          /\ Cardinality(stay \ (seen \cup X)) <= Cardinality(M)
  BY <1>5, <1>7, NoMore
<1>11. /\ Cardinality((twice \cup (seen \cap X)) \cup Ahead(seen \cup X, dir, f)) \in Nat
       /\ Cardinality((twice \cup (seen \cap X)) \cup Ahead(seen \cup X, dir, f))
                <= Cardinality(R)
  BY <1>5, <1>8, NoMore
<1>12. Cardinality(M) \in Nat /\ Cardinality(R) \in Nat /\ Missable \in Nat /\ Repeatable \in Nat
  BY <1>5, Bounds, FS_CardinalityType
<1>13. QED
  BY <1>4, <1>9, <1>10, <1>11, <1>12

(* The dots of a page are none that the client has, and no names.           *)
LEMMA NewDots ==
    ASSUME RInv, rq.pc # "idle", \A i \in 1..Len(rq.out) : rq.out[i].name <= 0,
           NEW D, D = {rq.out[i].name : i \in 1..Len(rq.out)}
    PROVE  D \cap seen = {} /\ D \cap dir = {}
<1>1. /\ \A i \in 1..Len(rq.out) : /\ rq.out[i].cookie = rq.out[i].name + 2
                                   /\ rq.out[i].cookie > ls.cookie
      /\ \A x \in seen : x <= 0 => x + 2 <= ls.cookie
      /\ ls.cookie \in Nat
  <2>1. ls.on /\ ls.cookie = rq.cookie
    BY DEF RInv, Link
  <2>2. rq \in Request /\ Staged(rq) /\ DotsSeen
    BY <2>1 DEF RInv, Typed, Page
  <2>3. QED
    BY <2>1, <2>2 DEF Staged, DotsSeen, Request
<1>2. \A i \in 1..Len(rq.out) : rq.out[i].name \in Int
  <2>1. rq.out \in Seq([name : Entries, cookie : Nat])
    BY DEF RInv, Typed, Request
  <2>2. \A i \in 1..Len(rq.out) : rq.out[i] \in [name : Entries, cookie : Nat]
    BY <2>1, Member
  <2>3. \A i \in 1..Len(rq.out) : rq.out[i].name \in Entries
    BY <2>2
  <2>4. QED
    BY <2>3, CookiesNat
<1>3. \A i \in 1..Len(rq.out) : rq.out[i].name \notin seen
  BY <1>1, <1>2
<1>4. \A n \in dir : ~(n <= 0)
  BY ReadDirectory DEF RInv, Directory
<1>5. QED
  BY <1>3, <1>4

(* READDIRPLUS goes over from the dots to the names.                        *)
LEMMA Joining ==
    ASSUME RInv, rq.pc = "plus_readdir", NEW r0,
           r0 = [rq EXCEPT !.todo = Sorted, !.read = TRUE]
    PROVE  /\ r0 \in Request /\ r0.read /\ r0.err = rq.err
           /\ r0.proc = "READDIRPLUS" /\ r0.path = rq.path /\ r0.status = "OK"
           /\ r0.cookie = rq.cookie /\ r0.verf = rq.verf /\ (r0.calm => rq.calm)
           /\ Calm(r0) /\ Ordered(r0) /\ Staged(r0) /\ Missed(r0) /\ Repeated(r0)
<1> DEFINE s == Skipped(r0)
<1>1. /\ rq \in Request /\ Phase(rq) /\ Ordered(rq) /\ Staged(rq) /\ Calm(rq)
      /\ ~rq.read /\ rq.todo = <<>> /\ rq.proc = "READDIRPLUS" /\ rq.status = "OK"
      /\ Begun(rq) /\ Directory(dir) /\ rq.pc # "idle"
  BY ReadDirectory DEF RInv, Typed, Page, Phase, Begun
<1>2. /\ Sorted \in Seq(dir) /\ Len(Sorted) = Cardinality(dir) /\ Len(Sorted) \in Nat
      /\ \A i \in 1..Len(Sorted) : Sorted[i] \in dir
      /\ \A i, j \in 1..Len(Sorted) : i < j => Sorted[i] < Sorted[j]
  BY <1>1, SortedGood
<1>3. dir \subseteq Entries /\ \A n \in dir : n \in Nat /\ n > 0
  BY ReaddirAssumption DEF RInv, Typed, Entries
<1>4. Sorted \in Seq(Entries) /\ TRUE \in BOOLEAN
  BY <1>2, <1>3
<1>5. /\ r0 \in Request /\ r0.read /\ r0.err = rq.err /\ r0.todo = Sorted
      /\ r0.proc = "READDIRPLUS" /\ r0.path = rq.path /\ r0.status = "OK"
      /\ r0.cookie = rq.cookie /\ r0.verf = rq.verf /\ (r0.calm => rq.calm)
      /\ r0.out = rq.out /\ r0.eof = rq.eof /\ r0.cook = rq.cook
  BY <1>1, <1>4 DEF Request
<1>6. /\ rq.cook \in Nat /\ rq.cookie \in Nat
      /\ rq.out \in Seq([name : Entries, cookie : Nat])
  BY <1>1 DEF Request
<1>7. /\ rq.eof /\ ~rq.err => rq.cook = 3
      /\ ~(rq.eof /\ ~rq.err) => rq.cook <= 2 /\ rq.cookie < rq.cook
  <2>1. Dotted(rq) /\ Len(rq.todo) = 0
    BY <1>1 DEF Staged
  <2>2. QED
    BY <1>6, <2>1 DEF Dotted
<1>8. \A i \in 1..Len(rq.out) : rq.out[i].name <= 0
  BY <1>1 DEF Staged
<1>9. Calm(r0)
  BY <1>1, <1>2, <1>5 DEF Calm
<1>10. Ordered(r0)
  <2>1. ASSUME NEW i \in 1..Len(rq.out), NEW j \in 1..Len(Sorted)
        PROVE  rq.out[i].name < Sorted[j]
    <3>1. rq.out[i] \in [name : Entries, cookie : Nat]
      BY <1>6, Member
    <3>2. rq.out[i].name \in Int /\ rq.out[i].name <= 0
      BY <1>8, <3>1, CookiesNat
    <3>3. Sorted[j] \in Nat /\ Sorted[j] > 0
      BY <1>2, <1>3
    <3>4. QED
      BY <3>2, <3>3
  <2>2. r0.cook - 1 + Len(Sorted) <= Cardinality(Names) + 2
    <3>1. /\ Cardinality(Names) \in Nat /\ Cardinality(dir) \in Nat
          /\ Cardinality(dir) <= Cardinality(Names)
      BY ReadDirectory DEF RInv
    <3>2. rq.cook <= 3
      BY <1>6, <1>7
    <3>3. QED
      BY <1>2, <1>5, <1>6, <3>1, <3>2
  <2>3. QED
    BY <1>1, <1>2, <1>5, <2>1, <2>2 DEF Ordered
<1>11. Staged(r0)
  BY <1>1, <1>2, <1>3, <1>5 DEF Staged
<1>12. /\ s \in 0..Len(Sorted)
       /\ s > 0 => rq.cook + s - 1 <= rq.cookie
       /\ s < Len(Sorted) => rq.cookie < rq.cook + s
  BY <1>5, SkippedGood
<1> DEFINE D == {rq.out[i].name : i \in 1..Len(rq.out)}
<1>13. D \cap seen = {} /\ D \cap dir = {}
  BY <1>1, <1>8, NewDots
<1>14. Off(rq.proc) = 2
  BY <1>1 DEF Off
<1> HIDE DEF s
<1>15. CASE ~rq.err /\ rq.eof
  <2>1. Turns(r0) = s..Len(Sorted)
    BY <1>5, <1>15 DEF Turns, s
  <2>2. ASSUME NEW k \in s..Len(Sorted)
        PROVE  /\ Cardinality(Unseen(r0, k)) <= Missable
               /\ k = Len(Sorted) => Cardinality(stay \ (seen \cup Got(r0, k))) <= Missable
               /\ Cardinality(Again(r0, k)) <= Repeatable
    <3>1. k \in Nat /\ s \in Nat /\ s <= k /\ k <= Len(Sorted)
      BY <1>2, <1>12
    <3>2. /\ s > 0 => s <= rq.cookie - Off(rq.proc)
          /\ s < Len(Sorted) => rq.cookie - Off(rq.proc) <= s
      BY <1>2, <1>6, <1>7, <1>12, <1>14, <1>15, <3>1
    <3>3. Passed(r0, k) = k
      BY <1>1, <1>5, <1>7, <1>15, <3>1 DEF Passed, Off
    <3>4. Got(r0, k) = D \cup {Sorted[i] : i \in s + 1..k}
      BY <1>5 DEF Got, s
    <3>5. PICK X : X = Got(r0, k)
      OBVIOUS
    <3>6. /\ \A i \in s + 1..k : Sorted[i] \in X
          /\ \A n \in X : n \in D \/ \E i \in s + 1..k : n = Sorted[i]
      BY <3>4, <3>5
    <3> HIDE DEF D
    <3>7. /\ Cardinality(Behind(stay \ (seen \cup X), dir, k)) <= Missable
          /\ k = Len(Sorted) => Cardinality(stay \ (seen \cup X)) <= Missable
          /\ Cardinality((twice \cup (seen \cap X)) \cup Ahead(seen \cup X, dir, k))
                <= Repeatable
      BY <1>1, <1>13, <3>1, <3>2, <3>6, Listed
    <3>8. QED
      BY <3>3, <3>5, <3>7 DEF Unseen, Again
  <2>3. Len(Sorted) \in s..Len(Sorted)
    BY <1>2, <1>12
  <2>4. QED
    BY <1>5, <1>9, <1>10, <1>11, <2>1, <2>2, <2>3 DEF Missed, Repeated
<1>16. CASE ~rq.err /\ ~rq.eof
  <2>1. s = 0 /\ rq.cook <= 2 /\ rq.cookie < rq.cook
    BY <1>6, <1>7, <1>12, <1>16
  <2>2. Turns(r0) = {0}
    BY <1>5, <1>16, <2>1 DEF Turns, s
  <2>3. Got(r0, 0) = D
    <3>1. 0 + 1..0 = {}
      OBVIOUS
    <3>2. QED
      BY <1>5, <2>1, <3>1 DEF Got, s
  <2>4. PICK x \in Int : x = rq.cook - 3
    BY <1>6
  <2>5. Passed(r0, 0) = x
    BY <1>1, <1>5, <1>6, <2>4 DEF Passed, Off
  <2>6. x < 0 /\ ls.cookie - Off(ls.last) <= x
    <3>1. ls.last = rq.proc /\ ls.cookie = rq.cookie
      BY <1>1 DEF RInv, Link
    <3>2. QED
      BY <1>6, <1>14, <2>1, <2>4, <3>1
  <2>7. \A n \in dir : Position(dir, n) \in Nat
    BY <1>1, PositionNat
  <2>8. Cardinality(Unseen(r0, 0)) <= Missable
    <3>1. Unseen(r0, 0) = {}
      BY <2>5, <2>6, <2>7 DEF Unseen, Behind
    <3>2. QED
      BY <3>1, Bounds, FS_EmptySet
  <2>9. Cardinality(Again(r0, 0)) <= Repeatable
    <3> DEFINE c == ls.cookie - Off(ls.last)
               R == twice \cup Ahead(seen, dir, c)
    <3>1. ls.on
      BY <1>1 DEF RInv, Link
    <3>2. Cardinality(R) <= Repeatable
      BY <3>1 DEF RInv, Repeats
    <3>3. c \in Int
      BY <1>1, <1>6 DEF RInv, Link, Off
    <3>4. Ahead(seen \cup D, dir, x) \subseteq Ahead(seen, dir, c)
      BY <1>13, <2>6, <2>7, <3>3 DEF Ahead
    <3>5. Again(r0, 0) \subseteq R
      BY <1>13, <2>3, <2>5, <3>4 DEF Again
    <3> HIDE DEF c
    <3>6. IsFiniteSet(R)
      BY <1>1, <3>3, Bounds, PassedFinite, FS_Union
    <3> HIDE DEF R
    <3>7. /\ Cardinality(Again(r0, 0)) \in Nat
          /\ Cardinality(Again(r0, 0)) <= Cardinality(R)
      BY <3>5, <3>6, NoMore
    <3>8. Cardinality(R) \in Nat /\ Repeatable \in Nat
      BY <3>6, Bounds, FS_CardinalityType
    <3>9. QED
      BY <3>2, <3>7, <3>8
  <2>10. QED
    BY <1>5, <1>9, <1>10, <1>11, <1>16, <2>2, <2>8, <2>9 DEF Missed, Repeated
<1>17. CASE rq.err
  BY <1>5, <1>9, <1>10, <1>11, <1>17 DEF Missed, Repeated, Reading
<1>18. QED
  BY <1>15, <1>16, <1>17

LEMMA StepPlusReaddir == RInv /\ plus_readdir => RInv'
<1> SUFFICES ASSUME RInv, plus_readdir PROVE RInv'
  OBVIOUS
<1>1. /\ rq.pc = "plus_readdir" /\ ServerOnly
      /\ \/ at # rq.path /\ \E s \in {"IO", "NOTDIR"} : SendR(rq, s)
         \/ SendR(Disturbed(rq), "IO")
         \/ at = rq.path /\ process_entry([rq EXCEPT !.todo = Sorted, !.read = TRUE])
  BY DEF plus_readdir, Misdirected, Send, SendR
<1>2. /\ Begun(rq) /\ Verified(rq) /\ (rq.calm => rq.path = at)
      /\ (changes.moved = 0 => rq.path = known) /\ rq \in Request
  BY <1>1 DEF RInv, Typed, Paged, Page, Phase, Begun
<1>3. ASSUME NEW s \in {"IO", "NOTDIR"}, at # rq.path, SendR(rq, s)
      PROVE  RInv'
  BY <1>1, <1>2, <1>3, Sent
<1>6. CASE SendR(Disturbed(rq), "IO")
  BY <1>1, <1>2, <1>6, Marked, Sent
<1>4. CASE at = rq.path /\ process_entry([rq EXCEPT !.todo = Sorted, !.read = TRUE])
  <2>1. PICK r0 : r0 = [rq EXCEPT !.todo = Sorted, !.read = TRUE]
    OBVIOUS
  <2>2. /\ r0 \in Request /\ r0.read /\ r0.err = rq.err
        /\ r0.proc = "READDIRPLUS" /\ r0.path = rq.path /\ r0.status = "OK"
        /\ r0.cookie = rq.cookie /\ r0.verf = rq.verf /\ (r0.calm => rq.calm)
        /\ Calm(r0) /\ Ordered(r0) /\ Staged(r0) /\ Missed(r0) /\ Repeated(r0)
    BY <1>1, <2>1, Joining
  <2>3. /\ rq.path \in Paths /\ rq.proc = "READDIRPLUS" /\ (rq.err => ~rq.calm)
    BY <1>1, <1>2 DEF RInv, Page, Phase, Calm
  <2>4. process_entry(r0)
    BY <1>4, <2>1
  <2>5. /\ rq' \in Request /\ Same(r0, rq') /\ rq'.pc \notin {"idle", "fhandle"}
        /\ Phase(rq') /\ Calm(rq') /\ Ordered(rq') /\ Staged(rq')
        /\ Missed(rq') /\ Repeated(rq')
        /\ rq'.status \in {"OK", "IO"} /\ (rq'.status = "IO" => r0.err)
    BY <2>2, <2>3, <2>4, Processing
  <2>6. /\ rq'.path = rq.path /\ rq'.proc = rq.proc /\ rq'.cookie = rq.cookie
        /\ rq'.verf = rq.verf /\ (rq'.calm => rq.calm)
    BY <2>2, <2>3, <2>5 DEF Same
  <2>7. Verified(rq')
    BY <1>2, <2>6 DEF Verified
  <2>8. QED
    BY <1>1, <1>2, <2>2, <2>3, <2>5, <2>6, <2>7, Answered
<1>5. QED
  BY <1>1, <1>3, <1>4, <1>6

(* READDIR's page: the entries that are to be listed and fit into it.       *)
LEMMA FillGood ==
    ASSUME NEW r \in Request, r.out = <<>>
    PROVE  \E f \in 0..Len(r.todo) :
               /\ Fill(r) = [r EXCEPT !.out = [i \in 1..f |-> Entry(r.todo[i], r.cook + i - 1)],
                                      !.cook = @ + f, !.eof = f = Len(r.todo)]
               /\ [i \in 1..f |-> Entry(r.todo[i], r.cook + i - 1)]
                        \in Seq([name : Entries, cookie : Nat])
<1>1. /\ r.todo \in Seq(Entries) /\ Len(r.todo) \in Nat /\ r.cook \in Nat \ {0}
  BY DEF Request
<1>2. PICK f : /\ f \in 0..Len(r.todo)
               /\ Fill(r) = [r EXCEPT !.out = [i \in 1..f |-> Entry(r.todo[i], r.cook + i - 1)],
                                      !.cook = @ + f, !.eof = f = Len(r.todo)]
  <2> DEFINE Fits(z) == {i \in 1..Len(r.todo) : z[i] <= r.room.count}
  <2>1. ASSUME NEW z PROVE Cardinality(Fits(z)) \in 0..Len(r.todo)
    <3>1. /\ IsFiniteSet(1..Len(r.todo)) /\ Cardinality(1..Len(r.todo)) = Len(r.todo)
          /\ Fits(z) \subseteq 1..Len(r.todo)
      <4>1. IsFiniteSet(1..Len(r.todo)) /\ Cardinality(1..Len(r.todo)) = Len(r.todo)
        <5>1. \A m \in Nat : IsFiniteSet(1..m) /\ Cardinality(1..m) = m
          BY FS_Interval
        <5>2. QED
          BY <1>1, <5>1
      <4>2. QED
        BY <4>1
    <3>2. Cardinality(Fits(z)) \in Nat /\ Cardinality(Fits(z)) <= Len(r.todo)
      BY <3>1, NoMore
    <3>3. QED
      BY <1>1, <3>2
  <2>2. \E z : Fill(r) = [r EXCEPT
            !.out = [i \in 1..Cardinality(Fits(z)) |-> Entry(r.todo[i], r.cook + i - 1)],
            !.cook = @ + Cardinality(Fits(z)), !.eof = Cardinality(Fits(z)) = Len(r.todo)]
    BY DEF Fill
  <2>3. QED
    BY <2>1, <2>2
<1>3. ASSUME NEW i \in 1..f
      PROVE  Entry(r.todo[i], r.cook + i - 1) \in [name : Entries, cookie : Nat]
  <2>1. i \in 1..Len(r.todo) /\ r.cook + i - 1 \in Nat
    BY <1>1, <1>2
  <2>2. r.todo[i] \in Entries
    BY <1>1, <2>1, Member
  <2>3. QED
    BY <2>1, <2>2 DEF Entry
<1>4. [i \in 1..f |-> Entry(r.todo[i], r.cook + i - 1)] \in Seq([name : Entries, cookie : Nat])
  <2>1. f \in Nat
    BY <1>1, <1>2
  <2>2. QED
    BY <1>3, <2>1
<1>5. QED
  BY <1>2, <1>4

LEMMA Filling ==
    ASSUME RInv, rq.pc = "readdir", NEW t,
           t = [Fill(Skip([rq EXCEPT !.todo = Sorted, !.read = TRUE]))
                    EXCEPT !.pc = "stat", !.todo = <<>>]
    PROVE  /\ t \in Request /\ t.read /\ ~t.err /\ t.pc = "stat"
           /\ t.proc = rq.proc /\ t.path = rq.path /\ t.status = "OK"
           /\ t.cookie = rq.cookie /\ t.verf = rq.verf /\ (t.calm => rq.calm)
           /\ Phase(t) /\ Calm(t) /\ Ordered(t) /\ Staged(t) /\ Missed(t) /\ Repeated(t)
<1>1. /\ rq \in Request /\ Phase(rq) /\ ~rq.read /\ ~rq.err /\ rq.cook = 1
      /\ rq.out = <<>> /\ rq.proc = "READDIR" /\ rq.status = "OK" /\ rq.path \in Paths
      /\ Directory(dir) /\ rq.pc # "idle"
  BY ReadDirectory DEF RInv, Typed, Page, Phase, Begun
<1>2. /\ Sorted \in Seq(dir) /\ Len(Sorted) = Cardinality(dir) /\ Len(Sorted) \in Nat
      /\ \A i \in 1..Len(Sorted) : Sorted[i] \in dir
      /\ \A i, j \in 1..Len(Sorted) : i < j => Sorted[i] < Sorted[j]
  BY <1>1, SortedGood
<1>3. dir \subseteq Entries /\ \A n \in dir : n \in Nat /\ n > 0
  BY ReaddirAssumption DEF RInv, Typed, Entries
<1>4. Sorted \in Seq(Entries) /\ TRUE \in BOOLEAN
  BY <1>2, <1>3
<1>5. PICK r0 : r0 = [rq EXCEPT !.todo = Sorted, !.read = TRUE]
  OBVIOUS
<1>6. /\ r0 \in Request /\ r0.read /\ ~r0.err /\ r0.todo = Sorted
      /\ r0.proc = rq.proc /\ r0.path = rq.path /\ r0.status = "OK"
      /\ r0.cookie = rq.cookie /\ r0.verf = rq.verf /\ (r0.calm => rq.calm)
      /\ r0.out = <<>> /\ r0.cook = 1
  BY <1>1, <1>4, <1>5 DEF Request
<1>7. PICK s : s = Skipped(r0)
  OBVIOUS
<1>8. /\ s \in 0..Len(Sorted)
      /\ s > 0 => 1 + s - 1 <= rq.cookie
      /\ s < Len(Sorted) => rq.cookie < 1 + s
  BY <1>6, <1>7, SkippedGood
<1>9. PICK r : r = Skip(r0)
  OBVIOUS
<1>10. /\ r \in Request /\ Same(r0, r) /\ r.cook = 1 + s /\ r.status = "OK"
       /\ r.todo = SubSeq(Sorted, s + 1, Len(Sorted))
  BY <1>6, <1>7, <1>9, SkipGood
<1>11. /\ Len(r.todo) = Len(Sorted) - s
       /\ \A j \in 1..Len(r.todo) : s + j \in 1..Len(Sorted) /\ r.todo[j] = Sorted[s + j]
  <2>1. /\ Len(r.todo) = Len(Sorted) - s
        /\ \A j \in 1..(Len(Sorted) - s) : r.todo[j] = Sorted[s + j]
    BY <1>4, <1>8, <1>10, Rest
  <2>2. \A j \in 1..(Len(Sorted) - s) : s + j \in 1..Len(Sorted)
    BY <1>2, <1>8
  <2>3. QED
    BY <2>1, <2>2
<1>12. r.out = <<>>
  BY <1>6, <1>10 DEF Same
<1>13. PICK f \in 0..Len(r.todo) :
           /\ Fill(r) = [r EXCEPT !.out = [i \in 1..f |-> Entry(r.todo[i], r.cook + i - 1)],
                                  !.cook = @ + f, !.eof = f = Len(r.todo)]
           /\ [i \in 1..f |-> Entry(r.todo[i], r.cook + i - 1)]
                    \in Seq([name : Entries, cookie : Nat])
  BY <1>10, <1>12, FillGood
<1>14. PICK q : q = [i \in 1..f |-> Entry(r.todo[i], r.cook + i - 1)]
  OBVIOUS
<1>15. PICK u : u = [r EXCEPT !.out = q, !.cook = @ + f, !.eof = f = Len(r.todo)]
  OBVIOUS
<1>16. s \in Nat /\ f \in Nat /\ s + f <= Len(Sorted) /\ f <= Len(r.todo)
  BY <1>2, <1>8, <1>11
<1>17. /\ u \in Request /\ u.out = q
       /\ u.cook = 1 + s + f /\ u.status = "OK" /\ u.eof = (f = Len(r.todo))
       /\ u.proc = rq.proc /\ u.path = rq.path /\ u.cookie = rq.cookie /\ u.verf = rq.verf
       /\ u.read /\ ~u.err /\ (u.calm => rq.calm)
  <2>1. q \in Seq([name : Entries, cookie : Nat]) /\ r.cook + f \in Nat \ {0}
        /\ (f = Len(r.todo)) \in BOOLEAN
    <3>1. r.cook \in Nat /\ r.cook # 0
      BY <1>10, <1>16
    <3>2. r.cook + f \in Nat \ {0}
      BY <1>16, <3>1
    <3>3. QED
      BY <1>13, <1>14, <3>2
  <2>2. r.proc = rq.proc /\ r.path = rq.path /\ r.cookie = rq.cookie /\ r.verf = rq.verf
        /\ r.read /\ ~r.err /\ (r.calm => rq.calm)
    BY <1>6, <1>10 DEF Same
  <2>3. QED
    BY <1>6, <1>10, <1>15, <2>1, <2>2 DEF Request, Same
<1>18. t = [u EXCEPT !.pc = "stat", !.todo = <<>>]
  BY <1>5, <1>9, <1>13, <1>14, <1>15
<1>19. /\ t \in Request /\ t.pc = "stat" /\ t.todo = <<>> /\ t.out = q
       /\ t.cook = 1 + s + f /\ t.status = "OK" /\ t.eof = (f = Len(r.todo))
       /\ t.proc = rq.proc /\ t.path = rq.path /\ t.cookie = rq.cookie /\ t.verf = rq.verf
       /\ t.read /\ ~t.err /\ (t.calm => rq.calm)
  <2>1. <<>> \in Seq(Entries)
    OBVIOUS
  <2>2. QED
    BY <1>17, <1>18, <2>1 DEF Request
<1>20. Len(q) = f /\ \A i \in 1..f : /\ s + i \in 1..Len(Sorted) /\ q[i].name = Sorted[s + i]
                                     /\ q[i].cookie = s + i
  <2>1. Len(q) = f
    BY <1>13, <1>14, <1>16
  <2>2. ASSUME NEW i \in 1..f
        PROVE  /\ s + i \in 1..Len(Sorted) /\ q[i].name = Sorted[s + i]
               /\ q[i].cookie = s + i
    <3>1. i \in 1..Len(r.todo)
      BY <1>11, <1>16, <1>2
    <3>2. q[i].name = r.todo[i] /\ q[i].cookie = r.cook + i - 1
      BY <1>14 DEF Entry
    <3>3. r.cook + i - 1 = s + i
      BY <1>10, <1>16
    <3>4. QED
      BY <1>11, <3>1, <3>2, <3>3
  <2>3. QED
    BY <2>1, <2>2
<1>21. Phase(t) /\ Calm(t)
  BY <1>1, <1>19 DEF Phase, Calm, Begun
<1>22. Staged(t)
  <2>1. \A i \in 1..f : q[i].name \in Nat /\ q[i].name > 0
    BY <1>2, <1>3, <1>20
  <2>2. QED
    BY <1>19, <1>20, <2>1 DEF Staged
<1>23. Ordered(t)
  <2>1. ASSUME NEW i \in 1..f, NEW j \in 1..f, i < j
        PROVE  q[i].name < q[j].name /\ q[i].cookie < q[j].cookie
    <3>1. s + i < s + j
      BY <1>16, <2>1
    <3>2. QED
      BY <1>2, <1>20, <3>1
  <2>2. \A i \in 1..f : s + i < 1 + s + f
    BY <1>16
  <2>3. t.out # <<>> => t.cookie < t.cook /\ t.out[Len(t.out)].cookie = t.cook - 1
    <3>0. t.out = q /\ Len(q) = f /\ t.cookie = rq.cookie /\ t.cook = 1 + s + f
      BY <1>19, <1>20
    <3> SUFFICES ASSUME q # <<>>
                 PROVE  t.cookie < t.cook /\ q[f].cookie = t.cook - 1
      BY <3>0, Zenon
    <3>1. f # 0
      <4>1. q \in Seq([name : Entries, cookie : Nat])
        BY <1>13, <1>14
      <4>2. QED
        BY <1>20, <4>1
    <3>2. f \in 1..f /\ s < Len(Sorted) /\ rq.cookie \in Nat
      BY <1>1, <1>2, <1>16, <3>1 DEF Request
    <3>3. rq.cookie < 1 + s + f /\ q[f].cookie = 1 + s + f - 1
      BY <1>8, <1>16, <1>20, <3>2
    <3>4. ASSUME NEW k, k = 1 + s + f PROVE rq.cookie < k /\ q[f].cookie = k - 1
      BY <1>16, <3>3, <3>4
    <3>5. QED
      BY <3>0, <3>4, Zenon
  <2>4. t.cook - 1 + 0 <= Cardinality(Names) + 2
    <3>1. /\ Cardinality(Names) \in Nat /\ Cardinality(dir) \in Nat
          /\ Cardinality(dir) <= Cardinality(Names)
      BY ReadDirectory DEF RInv
    <3>2. QED
      BY <1>2, <1>16, <1>19, <3>1
  <2>5. Len(t.todo) = 0 /\ Len(t.out) = f
    BY <1>19, <1>20
  <2>6. QED
    BY <1>19, <1>20, <2>1, <2>2, <2>3, <2>4, <2>5 DEF Ordered
<1>24. Skipped(t) = 0
  <2>1. Len(t.todo) = 0
    BY <1>19
  <2>2. Skipped(t) \in 0..0
    BY <1>19, <2>1, SkippedGood
  <2>3. QED
    BY <2>2
<1>25. Turns(t) = {0} /\ Len(t.todo) = 0
  <2>1. Len(t.todo) = 0
    BY <1>19
  <2>2. QED
    BY <1>24, <2>1 DEF Turns
<1>26. Off(rq.proc) = 0 /\ rq.cookie \in Nat
  BY <1>1 DEF Off, Request
<1>27. Passed(t, 0) = s + f
  BY <1>16, <1>19, <1>26 DEF Passed
<1>28. PICK X : X = Got(t, 0)
  OBVIOUS
<1>29. X = {q[i].name : i \in 1..f}
  <2>1. 0 + 1..0 = {}
    OBVIOUS
  <2>2. QED
    BY <1>19, <1>20, <1>24, <1>28, <2>1 DEF Got
<1>30. /\ \A i \in s + 1..s + f : Sorted[i] \in X
       /\ \A n \in X : \E i \in s + 1..s + f : n = Sorted[i]
  <2>1. ASSUME NEW i \in s + 1..s + f PROVE Sorted[i] \in X
    <3>1. i - s \in 1..f /\ s + (i - s) = i
      BY <1>16
    <3>2. q[i - s].name = Sorted[i]
      BY <1>20, <3>1
    <3>3. QED
      BY <1>29, <3>1, <3>2
  <2>2. ASSUME NEW n \in X PROVE \E i \in s + 1..s + f : n = Sorted[i]
    <3>1. PICK i \in 1..f : n = q[i].name
      BY <1>29
    <3>2. s + i \in s + 1..s + f
      BY <1>16
    <3>3. QED
      BY <1>20, <3>1, <3>2
  <2>3. QED
    BY <2>1, <2>2
<1>31. /\ s > 0 => s <= rq.cookie - Off(rq.proc)
       /\ s < Len(Sorted) => rq.cookie - Off(rq.proc) <= s
       /\ s + f \in Nat /\ s <= s + f
  BY <1>2, <1>8, <1>16, <1>26
<1>32. /\ Cardinality(Behind(stay \ (seen \cup X), dir, s + f)) <= Missable
       /\ s + f = Len(Sorted) => Cardinality(stay \ (seen \cup X)) <= Missable
       /\ Cardinality((twice \cup (seen \cap X)) \cup Ahead(seen \cup X, dir, s + f))
                <= Repeatable
  <2>1. \A n \in X : n \in {} \/ \E i \in s + 1..s + f : n = Sorted[i]
    BY <1>30
  <2>2. {} \cap seen = {} /\ {} \cap dir = {}
    OBVIOUS
  <2>3. QED
    BY <1>1, <1>16, <1>30, <1>31, <2>1, <2>2, Listed
<1>33. t.eof => s + f = Len(Sorted)
  <2>1. t.eof => f = Len(r.todo)
    BY <1>19
  <2>2. QED
    BY <1>2, <1>11, <1>16, <2>1
<1>34. Missed(t)
  BY <1>25, <1>27, <1>28, <1>32, <1>33 DEF Missed, Unseen
<1>35. Repeated(t)
  BY <1>25, <1>27, <1>28, <1>32 DEF Repeated, Again
<1>36. QED
  BY <1>19, <1>21, <1>22, <1>23, <1>34, <1>35

LEMMA StepReaddir == RInv /\ readdir => RInv'
<1> SUFFICES ASSUME RInv, readdir PROVE RInv'
  OBVIOUS
<1>1. /\ rq.pc = "readdir" /\ ServerOnly
      /\ \/ at # rq.path /\ \E s \in {"IO", "NOTDIR"} : SendR(rq, s)
         \/ SendR(Disturbed(rq), "IO")
         \/ ~Verified(rq) /\ SendR(rq, "BAD_COOKIE")
         \/ /\ Verified(rq)
            /\ rq' = [Fill(Skip([rq EXCEPT !.todo = Sorted, !.read = TRUE]))
                            EXCEPT !.pc = "stat", !.todo = <<>>]
  BY DEF readdir, Misdirected, Send, SendR
<1>2. /\ Begun(rq) /\ (rq.calm => rq.path = at) /\ rq.pc # "idle"
      /\ (changes.moved = 0 => rq.path = known) /\ rq \in Request
  BY <1>1 DEF RInv, Typed, Paged, Page, Phase, Begun
<1>3. ASSUME NEW s \in {"IO", "NOTDIR"}, at # rq.path, SendR(rq, s)
      PROVE  RInv'
  BY <1>1, <1>2, <1>3, Sent
<1>7. CASE SendR(Disturbed(rq), "IO")
  BY <1>1, <1>2, <1>7, Marked, Sent
<1>4. CASE ~Verified(rq) /\ SendR(rq, "BAD_COOKIE")
  <2>1. rq.verf # 0 /\ rq.verf # hash(rq.path)
    BY <1>4 DEF Verified
  <2>2. rq.verf = ls.verf /\ ls.on
    BY <1>2 DEF RInv, Link
  <2>3. changes.moved # 0
    BY <1>2, <2>1, <2>2 DEF RInv, Paged
  <2>4. changes.moved \in Nat
    BY DEF RInv, Typed, Counts
  <2>5. changes.moved > 0
    BY <2>3, <2>4
  <2>6. QED
    BY <1>1, <1>2, <1>4, <2>5, Sent
<1>5. CASE /\ Verified(rq)
           /\ rq' = [Fill(Skip([rq EXCEPT !.todo = Sorted, !.read = TRUE]))
                            EXCEPT !.pc = "stat", !.todo = <<>>]
  <2>1. PICK t : t = rq' /\ t = [Fill(Skip([rq EXCEPT !.todo = Sorted, !.read = TRUE]))
                                    EXCEPT !.pc = "stat", !.todo = <<>>]
    BY <1>5
  <2>2. /\ t \in Request /\ t.read /\ ~t.err /\ t.pc = "stat"
        /\ t.proc = rq.proc /\ t.path = rq.path /\ t.status = "OK"
        /\ t.cookie = rq.cookie /\ t.verf = rq.verf /\ (t.calm => rq.calm)
        /\ Phase(t) /\ Calm(t) /\ Ordered(t) /\ Staged(t) /\ Missed(t) /\ Repeated(t)
    BY <1>1, <2>1, Filling
  <2>3. Verified(t)
    BY <1>5, <2>2 DEF Verified
  <2>4. QED
    BY <1>1, <1>2, <2>1, <2>2, <2>3, Answered
<1>6. QED
  BY <1>1, <1>3, <1>4, <1>5, <1>7

-----------------------------------------------------------------------------
(* The client's steps.  A request begins with an empty page.                *)
Blank(r) == /\ r \in Request /\ r.pc \in {"idle", "fhandle"} /\ r.status = "OK"
            /\ ~r.read /\ ~r.err /\ r.eof /\ r.cook = 1 /\ r.todo = <<>> /\ r.out = <<>>

LEMMA BlankPage == ASSUME Blank(rq') PROVE Page(rq)'
<1>1. Phase(rq)' /\ Calm(rq)' /\ Staged(rq)' /\ Missed(rq)' /\ Repeated(rq)'
  BY DEF Blank, Phase, Calm, Staged, Missed, Repeated, Reading, Begun
<1>2. Ordered(rq)'
  <2>1. Cardinality(Names) \in Nat
    BY FS_CardinalityType, ReaddirAssumption
  <2>2. 1 - 1 + 0 <= Cardinality(Names) + 2
    BY <2>1
  <2>3. QED
    BY <2>2 DEF Blank, Ordered
<1>3. QED
  BY <1>1, <1>2 DEF Page

LEMMA IdleBlank == Blank(Idle) /\ Idle.pc = "idle" /\ Idle.cookie = 0
<1>1. <<>> \in Seq(Entries) /\ <<>> \in Seq([name : Entries, cookie : Nat])
      /\ TRUE \in BOOLEAN /\ FALSE \in BOOLEAN /\ 0 \in Verfs
  BY ReaddirAssumption DEF Verfs
<1>2. PICK m : m = CHOOSE r \in Rooms : TRUE
  OBVIOUS
<1>3. Idle = [pc |-> "idle", proc |-> "READDIR", path |-> <<>>, cookie |-> 0,
              verf |-> 0, room |-> m, todo |-> <<>>,
              read |-> FALSE, cook |-> 1, sz |-> 0, totsz |-> 116, eof |-> TRUE,
              err |-> FALSE, out |-> <<>>, status |-> "OK", calm |-> TRUE]
  BY <1>2 DEF Idle
<1>4. Idle.room = m
  BY <1>3
<1>5. Idle \in Request
  BY <1>1, <1>3, <1>4 DEF Request
<1>6. QED
  BY <1>3, <1>5 DEF Blank

Opening(proc, room, cookie, verf) ==
    [Idle EXCEPT !.pc = "fhandle", !.proc = proc, !.room = room,
                 !.cookie = cookie, !.verf = verf]

LEMMA Sending ==
    ASSUME NEW proc \in {"READDIR", "READDIRPLUS"},
           NEW room \in Rooms \cup {Idle.room}, NEW cookie \in Nat, NEW verf \in Verfs,
           NEW t, t = Opening(proc, room, cookie, verf)
    PROVE  /\ Blank(t) /\ t.pc = "fhandle" /\ t.proc = proc
           /\ t.cookie = cookie /\ t.verf = verf
<1>1. Blank(Idle) /\ Idle \in Request
  BY IdleBlank DEF Blank
<1>2. t \in Request
  BY <1>1 DEF Request, Opening
<1>3. QED
  BY <1>1, <1>2 DEF Blank, Request, Opening

LEMMA StepResend == RInv /\ Resend => RInv'
<1> SUFFICES ASSUME RInv, Resend PROVE RInv'
  OBVIOUS
<1>1. /\ rq.pc = "sent" /\ UNCHANGED <<dir, place, ls, history>> /\ rq \in Request
      /\ rq' = [Idle EXCEPT !.pc = "fhandle", !.proc = rq.proc, !.room = rq.room,
                            !.cookie = rq.cookie, !.verf = rq.verf]
  BY DEF Resend, RInv, Typed
<1>2. /\ dir' = dir /\ at' = at /\ known' = known /\ mvs' = mvs
      /\ ls' = ls /\ seen' = seen /\ twice' = twice
      /\ stay' = stay /\ changes' = changes /\ from' = from
  BY <1>1 DEF place, history
<1>3. /\ rq.proc \in {"READDIR", "READDIRPLUS"} /\ rq.room \in Rooms \cup {Idle.room}
      /\ rq.cookie \in Nat /\ rq.verf \in Verfs /\ ls.on
  BY <1>1 DEF Request, RInv, Link
<1>4. /\ Blank(rq') /\ rq'.pc = "fhandle" /\ rq'.proc = rq.proc
      /\ rq'.cookie = rq.cookie /\ rq'.verf = rq.verf
  <2>1. PICK t : t = rq' /\ t = Opening(rq.proc, rq.room, rq.cookie, rq.verf)
    BY <1>1 DEF Opening
  <2>2. /\ Blank(t) /\ t.pc = "fhandle" /\ t.proc = rq.proc
        /\ t.cookie = rq.cookie /\ t.verf = rq.verf
    BY <1>3, <2>1, Sending
  <2>3. QED
    BY <2>1, <2>2
<1>5. Page(rq)'
  BY <1>4, BlankPage
<1>6. Typed'
  BY <1>2, <1>4 DEF RInv, Typed, Blank
<1>7. Link'
  BY <1>1, <1>2, <1>4 DEF RInv, Link
<1>8. Paged'
  BY <1>2, <1>4 DEF RInv, Paged, OneHash, Errors, Begun, Blank
<1>9. (ls.on => DotsSeen)'
  BY <1>2 DEF RInv, DotsSeen
<1>10. Misses' /\ Repeats'
  BY <1>2 DEF RInv, Misses, Repeats, MissesBounded, RepeatsBounded, Missable, Repeatable
<1>11. QED
  BY <1>5, <1>6, <1>7, <1>8, <1>9, <1>10 DEF RInv

LEMMA StepStart == ASSUME NEW room \in Rooms PROVE RInv /\ StartListing(room) => RInv'
<1> SUFFICES ASSUME RInv, StartListing(room) PROVE RInv'
  OBVIOUS
<1>1. /\ dir' = dir /\ at' = at /\ known' = known /\ mvs' = mvs
      /\ rq' = rq /\ rq \in Request
      /\ ls' = [Unlisted EXCEPT !.on = TRUE, !.room = room]
      /\ seen' = {} /\ twice' = {} /\ stay' = dir /\ changes' = NoChange /\ from' = {}
  BY DEF StartListing, RInv, Typed, place
<1>2. rq.pc = "idle" /\ rq.cookie = 0
  BY DEF StartListing, RInv, Link
<1>3. Phase(rq)
  BY DEF RInv, Page
<1>4. Blank(rq')
  BY <1>1, <1>2, <1>3 DEF Phase, Blank
<1>5. Page(rq)'
  BY <1>4, BlankPage
<1>6. /\ ls' \in Listing /\ ls'.on /\ ls'.cookie = 0 /\ ls'.verf = 0
      /\ ls'.last = "none" /\ ls'.status = "none"
  <2>1. 0 \in Cookies /\ 0 \in Verfs /\ TRUE \in BOOLEAN
    BY CookiesNat, ReaddirAssumption DEF Verfs
  <2>2. QED
    BY <1>1, <2>1 DEF Unlisted, Listing
<1>7. Typed'
  <2>1. changes' \in Counts
    BY <1>1 DEF NoChange, Counts
  <2>2. QED
    BY <1>1, <1>6, <2>1 DEF RInv, Typed
<1>8. Link'
  BY <1>1, <1>2, <1>6 DEF Link
<1>9. Paged'
  BY <1>1, <1>2, <1>4, <1>6 DEF Paged, OneHash, Errors, Begun, Blank
<1>10. DotsSeen'
  BY <1>1 DEF DotsSeen
<1>11. Misses' /\ Repeats'
  <2>1. changes'.removed = 0 /\ changes'.toPlain = 0 /\ changes'.added = 0 /\ changes'.toPlus = 0
    BY <1>1 DEF NoChange
  <2>2. Missable' = 0 /\ Repeatable' = 0
    BY <2>1 DEF Missable, Repeatable
  <2>3. (Behind(stay \ seen, dir, ls.cookie - Off(ls.last)))' = {}
    <3>1. (ls.cookie - Off(ls.last))' = 0
      BY <1>6 DEF Off
    <3>2. \A m \in dir : Position(dir, m) \in Nat /\ Position(dir, m) >= 1
      BY ReadDirectory, PositionNat DEF RInv
    <3>3. \A m \in dir : ~(Position(dir, m) <= 0)
      BY <3>2
    <3>4. QED
      BY <1>1, <3>1, <3>3 DEF Behind
  <2>4. (twice \cup Ahead(seen, dir, ls.cookie - Off(ls.last)))' = {}
    BY <1>1 DEF Ahead
  <2>5. Cardinality({}) <= 0
    BY FS_EmptySet
  <2>6. twice' = {} /\ ls'.status # "done"
    BY <1>1, <1>6
  <2>7. Misses'
    BY <2>2, <2>3, <2>5, <2>6 DEF Misses, MissesBounded
  <2>8. RepeatsBounded'
    BY <2>1, <2>5, <2>6 DEF RepeatsBounded
  <2>9. QED
    BY <2>2, <2>4, <2>5, <2>7, <2>8 DEF Repeats
<1>12. QED
  BY <1>5, <1>7, <1>8, <1>9, <1>10, <1>11 DEF RInv

LEMMA StepAsk == ASSUME NEW proc \in {"READDIR", "READDIRPLUS"} PROVE RInv /\ Ask(proc) => RInv'
<1> SUFFICES ASSUME RInv, Ask(proc) PROVE RInv'
  OBVIOUS
<1> DEFINE plain == IF ls.last = "READDIRPLUS" /\ proc = "READDIR" THEN 1 ELSE 0
           plus == IF ls.last = "READDIR" /\ proc = "READDIRPLUS" THEN 1 ELSE 0
<1>1. /\ ls.on /\ rq.pc = "idle"
      /\ rq' = [Idle EXCEPT !.pc = "fhandle", !.proc = proc, !.room = ls.room,
                            !.cookie = ls.cookie, !.verf = ls.verf]
      /\ ls' = [ls EXCEPT !.last = proc]
      /\ changes' = [changes EXCEPT !.toPlain = @ + plain, !.toPlus = @ + plus]
      /\ UNCHANGED <<dir, place, seen, twice, stay, from>>
  BY DEF Ask
<1>2. /\ ls \in Listing /\ changes \in Counts /\ ls.status = "none" /\ ls.on
      /\ Directory(dir) /\ stay \subseteq dir
  BY <1>1, ReadDirectory DEF RInv, Typed, Link
<1>3. /\ ls.room \in Rooms \cup {Idle.room} /\ ls.cookie \in Nat /\ ls.verf \in Verfs
      /\ ls.last \in {"none", "READDIR", "READDIRPLUS"}
  <2>1. /\ ls.room \in Rooms \cup {Idle.room} /\ ls.cookie \in Cookies /\ ls.verf \in Verfs
        /\ ls.last \in {"none", "READDIR", "READDIRPLUS"}
    BY <1>2 DEF Listing
  <2>2. QED
    BY <2>1, CookiesNat
<1>4. /\ Blank(rq') /\ rq'.pc = "fhandle" /\ rq'.proc = proc
      /\ rq'.cookie = ls.cookie /\ rq'.verf = ls.verf
  <2>1. PICK t : t = rq' /\ t = Opening(proc, ls.room, ls.cookie, ls.verf)
    BY <1>1 DEF Opening
  <2>2. /\ Blank(t) /\ t.pc = "fhandle" /\ t.proc = proc
        /\ t.cookie = ls.cookie /\ t.verf = ls.verf
    BY <1>3, <2>1, Sending
  <2>3. QED
    BY <2>1, <2>2
<1>5. Page(rq)'
  BY <1>4, BlankPage
<1>6. /\ dir' = dir /\ at' = at /\ known' = known /\ mvs' = mvs
      /\ seen' = seen /\ twice' = twice /\ stay' = stay /\ from' = from
      /\ ls' \in Listing /\ ls'.on /\ ls'.cookie = ls.cookie /\ ls'.verf = ls.verf
      /\ ls'.last = proc /\ ls'.status = "none"
  BY <1>1, <1>2 DEF Listing, place
<1>7. /\ changes' \in Counts /\ changes'.added = changes.added
      /\ changes'.removed = changes.removed /\ changes'.moved = changes.moved
      /\ changes'.toPlain = changes.toPlain + plain /\ changes'.toPlus = changes.toPlus + plus
      /\ changes.toPlain \in Nat /\ changes.toPlus \in Nat /\ plain \in {0, 1} /\ plus \in {0, 1}
      /\ changes.removed \in Nat /\ changes.added \in Nat
  <2>1. plain \in {0, 1} /\ plus \in {0, 1}
    OBVIOUS
  <2> HIDE DEF plain, plus
  <2>2. changes.toPlain \in Nat /\ changes.toPlus \in Nat
        /\ changes.removed \in Nat /\ changes.added \in Nat
    BY <1>2 DEF Counts
  <2>3. changes.toPlain + plain \in Nat /\ changes.toPlus + plus \in Nat
    BY <2>1, <2>2
  <2>4. QED
    BY <1>1, <1>2, <2>1, <2>2, <2>3 DEF Counts
<1>8. Typed'
  BY <1>4, <1>6, <1>7 DEF RInv, Typed, Blank
<1>9. Link'
  BY <1>4, <1>6 DEF Link
<1>10. Paged'
  BY <1>2, <1>4, <1>6, <1>7 DEF RInv, Paged, OneHash, Errors, Begun, Blank
<1>11. DotsSeen'
  BY <1>1, <1>6 DEF RInv, DotsSeen
<1>12. /\ Missable' = Missable + 2 * plain /\ Repeatable' = Repeatable + 2 * plus
       /\ Missable \in Nat /\ Repeatable \in Nat
  <2> HIDE DEF plain, plus
  <2>1. Missable' = changes.removed + 2 * (changes.toPlain + plain)
    BY <1>7 DEF Missable
  <2>2. Repeatable' = changes.added + 2 * (changes.toPlus + plus)
    BY <1>7 DEF Repeatable
  <2>3. QED
    BY <1>7, <2>1, <2>2 DEF Missable, Repeatable
<1>13. PICK x \in Int : x = ls.cookie - Off(ls.last)
  BY <1>3 DEF Off
<1>14. PICK y \in Int : y = ls.cookie - Off(proc)
  BY <1>3 DEF Off
<1>15. /\ Cardinality(Behind(stay \ seen, dir, x)) <= Missable
       /\ Cardinality(twice \cup Ahead(seen, dir, x)) <= Repeatable
       /\ Cardinality(twice) <= Repeatable
  BY <1>1, <1>13 DEF RInv, Misses, Repeats, RepeatsBounded, Repeatable
<1> DEFINE B(z) == Cardinality(Behind(stay \ seen, dir, z))
           A(z) == Cardinality(twice \cup Ahead(seen, dir, z))
<1>16. ASSUME NEW z \in Int
       PROVE  /\ B(z) \in Nat /\ B(z + 1) <= B(z) + 1 /\ B(z - 1) <= B(z)
              /\ A(z) \in Nat /\ A(z + 1) <= A(z) /\ A(z - 1) <= A(z) + 1
  <2>1. /\ IsFiniteSet(Behind(stay \ seen, dir, z)) /\ IsFiniteSet(twice)
        /\ IsFiniteSet(twice \cup Ahead(seen, dir, z))
    BY <1>2, Bounds, PassedFinite, FS_Union
  <2>2. \A m \in dir : Position(dir, m) \in Nat
    BY <1>2, PositionNat
  <2>3. /\ Behind(stay \ seen, dir, z - 1) \subseteq Behind(stay \ seen, dir, z)
        /\ Ahead(seen, dir, z + 1) \subseteq Ahead(seen, dir, z)
    BY <2>2 DEF Behind, Ahead
  <2>4. B(z - 1) <= B(z) /\ A(z + 1) <= A(z)
    BY <2>1, <2>3, NoMore
  <2>5. B(z + 1) <= B(z) + 1
    BY <1>2, BehindNext
  <2>6. A(z - 1) <= A(z) + 1
    BY <1>2, <2>1, AheadBefore
  <2>7. B(z) \in Nat /\ A(z) \in Nat
    BY <2>1, FS_CardinalityType
  <2>8. QED
    BY <2>4, <2>5, <2>6, <2>7
<1> HIDE DEF A, B
<1>17. B(x) <= Missable /\ A(x) <= Repeatable
  BY <1>15 DEF A, B
<1>18. B(y) <= Missable' /\ A(y) <= Repeatable'
  <2>1. CASE ls.last = "none"
    <3>1. y <= 0 /\ plain = 0 /\ plus = 0 /\ seen = {}
      BY <1>1, <1>14, <2>1 DEF RInv, Link, Off
    <3>2. \A m \in dir : Position(dir, m) \in Nat /\ Position(dir, m) >= 1
      BY <1>2, PositionNat
    <3>3. \A m \in dir : ~(Position(dir, m) <= y)
      BY <3>1, <3>2
    <3>4. Behind(stay \ seen, dir, y) = {}
      BY <3>3 DEF Behind
    <3>5. B(y) = 0
      BY <3>4, FS_EmptySet DEF B
    <3>6. twice \cup Ahead(seen, dir, y) = twice
      BY <3>1 DEF Ahead
    <3>7. A(y) <= Repeatable
      BY <1>15, <3>6 DEF A
    <3>8. QED
      BY <1>12, <3>1, <3>5, <3>7
  <2>2. CASE ls.last = proc
    <3>1. y = x /\ plain = 0 /\ plus = 0
      BY <1>13, <1>14, <2>2
    <3>2. QED
      BY <1>12, <1>17, <3>1
  <2>3. CASE ls.last = "READDIRPLUS" /\ proc = "READDIR"
    <3>1. y = (x + 1) + 1 /\ plain = 1 /\ plus = 0
      BY <1>3, <1>13, <1>14, <2>3 DEF Off
    <3>2. /\ B(x) \in Nat /\ B(x + 1) <= B(x) + 1 /\ A(x) \in Nat /\ A(x + 1) <= A(x)
      BY <1>16
    <3>3. x + 1 \in Int
      OBVIOUS
    <3>4. /\ B(x + 1) \in Nat /\ B(y) <= B(x + 1) + 1 /\ A(x + 1) \in Nat /\ A(y) <= A(x + 1)
      BY <1>16, <3>1, <3>3
    <3>5. B(y) \in Nat /\ A(y) \in Nat
      BY <1>16
    <3>6. QED
      BY <1>12, <1>17, <3>1, <3>2, <3>4, <3>5
  <2>4. CASE ls.last = "READDIR" /\ proc = "READDIRPLUS"
    <3>1. y = (x - 1) - 1 /\ plain = 0 /\ plus = 1
      BY <1>3, <1>13, <1>14, <2>4 DEF Off
    <3>2. /\ B(x) \in Nat /\ B(x - 1) <= B(x) /\ A(x) \in Nat /\ A(x - 1) <= A(x) + 1
      BY <1>16
    <3>3. x - 1 \in Int
      OBVIOUS
    <3>4. /\ B(x - 1) \in Nat /\ B(y) <= B(x - 1) /\ A(x - 1) \in Nat /\ A(y) <= A(x - 1) + 1
      BY <1>16, <3>1, <3>3
    <3>5. B(y) \in Nat /\ A(y) \in Nat
      BY <1>16
    <3>6. QED
      BY <1>12, <1>17, <3>1, <3>2, <3>4, <3>5
  <2>5. QED
    BY <1>3, <2>1, <2>2, <2>3, <2>4
<1>19. (ls.cookie - Off(ls.last))' = y
  BY <1>6, <1>14 DEF Off
<1>20. Misses'
  BY <1>6, <1>18, <1>19 DEF Misses, MissesBounded, B
<1>21. Repeats'
  <2>1. (Cardinality(twice \cup Ahead(seen, dir, ls.cookie - Off(ls.last))))' <= Repeatable'
    BY <1>6, <1>18, <1>19 DEF A
  <2>2. Cardinality(twice) \in Nat
    BY Bounds, FS_CardinalityType
  <2>3. Cardinality(twice) <= Repeatable'
    BY <1>7, <1>12, <1>15, <2>2
  <2>4. QED
    BY <1>6, <2>1, <2>3 DEF Repeats, RepeatsBounded, Repeatable
<1>22. QED
  BY <1>5, <1>8, <1>9, <1>10, <1>11, <1>20, <1>21 DEF RInv

(* What a good page adds to the listing.                                   *)
LEMMA Received ==
    ASSUME RInv, rq.pc = "sent", rq.status = "OK", NEW listed,
           listed = {rq.out[i].name : i \in 1..Len(rq.out)}
    PROVE  /\ listed \subseteq Entries /\ rq.path \in Paths /\ rq.out \in Seq([name : Entries, cookie : Nat])
           /\ rq.cook - 1 \in Cookies
           /\ rq.out # <<>> => rq.out[Len(rq.out)].cookie = rq.cook - 1 /\ ls.cookie <= rq.cook - 1
           /\ \A i \in 1..Len(rq.out) : /\ rq.out[i].cookie <= rq.cook - 1
                                        /\ rq.out[i].name <= 0 =>
                                                rq.out[i].cookie = rq.out[i].name + 2
           /\ Cardinality(Behind(stay \ (seen \cup listed), dir,
                                 rq.cook - 1 - Off(rq.proc))) <= Missable
           /\ rq.eof => Cardinality(stay \ (seen \cup listed)) <= Missable
           /\ Cardinality((twice \cup (seen \cap listed))
                \cup Ahead(seen \cup listed, dir, rq.cook - 1 - Off(rq.proc))) <= Repeatable
           /\ Verified(rq) /\ (changes.moved = 0 => rq.path = known)
<1>1. /\ rq \in Request /\ Phase(rq) /\ Ordered(rq) /\ Staged(rq) /\ Missed(rq) /\ Repeated(rq)
      /\ rq.read /\ ~rq.err /\ rq.todo = <<>> /\ Begun(rq) /\ rq.path \in Paths
  BY DEF RInv, Typed, Page, Phase, Begun
<1>2. /\ rq.out \in Seq([name : Entries, cookie : Nat]) /\ rq.cook \in Nat \ {0}
      /\ rq.cookie \in Nat
  BY <1>1 DEF Request
<1>3. \A i \in 1..Len(rq.out) : rq.out[i] \in [name : Entries, cookie : Nat]
  BY <1>2, Member
<1>4. listed \subseteq Entries
  BY <1>3
<1>5. rq.cook - 1 \in Cookies
  <2>1. rq.cook - 1 + Len(rq.todo) <= Cardinality(Names) + 2 /\ Len(rq.todo) = 0
    BY <1>1 DEF Ordered
  <2>2. Cardinality(Names) \in Nat
    BY ReadDirectory DEF RInv
  <2>3. QED
    BY <1>2, <2>1, <2>2 DEF Cookies
<1>6. ls.cookie = rq.cookie
  BY DEF RInv, Link
<1>7. rq.out # <<>> => rq.out[Len(rq.out)].cookie = rq.cook - 1 /\ ls.cookie <= rq.cook - 1
  <2>1. rq.out # <<>> => rq.cookie < rq.cook /\ rq.out[Len(rq.out)].cookie = rq.cook - 1
    BY <1>1 DEF Ordered
  <2>2. QED
    BY <1>2, <1>6, <2>1
<1>8. ASSUME NEW i \in 1..Len(rq.out)
      PROVE  /\ rq.out[i].cookie <= rq.cook - 1
             /\ rq.out[i].name <= 0 => rq.out[i].cookie = rq.out[i].name + 2
  <2>1. rq.out[i].cookie < rq.cook /\ rq.out[i].cookie \in Nat
    BY <1>1, <1>3 DEF Ordered
  <2>2. QED
    BY <1>1, <1>2, <2>1 DEF Staged
<1>9. Skipped(rq) = 0
  <2>1. Skipped(rq) \in 0..Len(rq.todo) /\ Len(rq.todo) = 0
    BY <1>1, SkippedGood
  <2>2. QED
    BY <2>1
<1>10. 0 \in Turns(rq) /\ Len(rq.todo) = 0
  <2>1. Len(rq.todo) = 0
    BY <1>1
  <2>2. QED
    BY <1>9, <2>1 DEF Turns
<1>11. Got(rq, 0) = listed
  <2>1. 0 + 1..0 = {}
    OBVIOUS
  <2>2. QED
    BY <1>9, <2>1 DEF Got
<1>12. Passed(rq, 0) = rq.cook - 1 - Off(rq.proc)
  BY <1>2 DEF Passed, Off
<1>13. /\ Cardinality(Unseen(rq, 0)) <= Missable
       /\ rq.eof => Cardinality(stay \ (seen \cup Got(rq, 0))) <= Missable
       /\ Cardinality(Again(rq, 0)) <= Repeatable
  BY <1>1, <1>10 DEF Missed, Repeated, Reading
<1>14. Verified(rq) /\ (changes.moved = 0 => rq.path = known)
  BY <1>1 DEF RInv, Paged
<1>15. QED
  BY <1>1, <1>2, <1>4, <1>5, <1>7, <1>8, <1>11, <1>12, <1>13, <1>14 DEF Unseen, Again

LEMMA StepReceive == RInv /\ Receive => RInv'
<1> SUFFICES ASSUME RInv, Receive PROVE RInv'
  OBVIOUS
<1>1. /\ rq.pc = "sent" /\ rq' = Idle /\ UNCHANGED <<dir, place, stay, changes>>
  BY DEF Receive
<1>2. /\ dir' = dir /\ at' = at /\ known' = known /\ mvs' = mvs
      /\ stay' = stay /\ changes' = changes
      /\ Missable' = Missable /\ Repeatable' = Repeatable
  BY <1>1 DEF Missable, Repeatable, place
<1>3. /\ Blank(rq') /\ rq'.pc = "idle" /\ rq'.cookie = 0
  BY <1>1, IdleBlank
<1>4. Page(rq)'
  BY <1>3, BlankPage
<1>5. /\ ls \in Listing /\ ls.on /\ ls.last = rq.proc /\ ls.cookie = rq.cookie
      /\ ls.verf = rq.verf /\ rq \in Request /\ ls.last # "none" /\ ls.status = "none"
      /\ ls.cookie \in Nat /\ ls.cookie \in Cookies
  <2>1. /\ ls \in Listing /\ ls.on /\ ls.last = rq.proc /\ ls.cookie = rq.cookie
        /\ ls.verf = rq.verf /\ rq \in Request /\ ls.status = "none"
    BY <1>1 DEF RInv, Typed, Link
  <2>2. rq.proc # "none" /\ ls.cookie \in Cookies
    BY <2>1 DEF Request, Listing
  <2>3. QED
    BY <2>1, <2>2, CookiesNat
<1>6. (~Begun(rq) /\ ~rq.read /\ Errors)'
  BY <1>3 DEF Begun, Blank, Errors
<1>7. CASE rq.status # "OK"
  <2>1. /\ ls' = [ls EXCEPT !.on = FALSE, !.status = rq.status]
        /\ UNCHANGED <<seen, twice, from>>
    BY <1>7 DEF Receive
  <2>2. rq.status \in {"IO", "NOTDIR", "BADHANDLE", "BAD_COOKIE"}
    BY <1>5, <1>7 DEF Request
  <2>3. /\ ls' \in Listing /\ ~ls'.on /\ ls'.last # "none" /\ ls'.verf = ls.verf
        /\ ls'.status # "done"
    <3>1. FALSE \in BOOLEAN
      OBVIOUS
    <3>2. QED
      BY <1>5, <2>1, <2>2, <3>1 DEF Listing
  <2>4. seen' = seen /\ twice' = twice /\ from' = from
    BY <2>1
  <2>5. Typed'
    BY <1>2, <1>3, <2>3, <2>4 DEF RInv, Typed, Blank
  <2>6. Link'
    BY <1>3, <2>3 DEF Link
  <2>7. OneHash'
    BY <2>3, <2>4 DEF RInv, Paged, OneHash
  <2>8. Paged'
    BY <1>3, <1>6, <2>3, <2>7 DEF Paged
  <2>9. Misses' /\ Repeats'
    BY <1>2, <2>3, <2>4 DEF RInv, Misses, Repeats, MissesBounded, RepeatsBounded
  <2>10. QED
    BY <1>4, <2>3, <2>5, <2>6, <2>8, <2>9 DEF RInv
<1>8. CASE rq.status = "OK"
  <2>1. PICK listed : listed = {rq.out[i].name : i \in 1..Len(rq.out)}
    OBVIOUS
  <2>2. /\ listed \subseteq Entries /\ rq.path \in Paths
        /\ rq.out \in Seq([name : Entries, cookie : Nat])
        /\ rq.cook - 1 \in Cookies
        /\ rq.out # <<>> => rq.out[Len(rq.out)].cookie = rq.cook - 1 /\ ls.cookie <= rq.cook - 1
        /\ \A i \in 1..Len(rq.out) : /\ rq.out[i].cookie <= rq.cook - 1
                                     /\ rq.out[i].name <= 0 =>
                                             rq.out[i].cookie = rq.out[i].name + 2
        /\ Cardinality(Behind(stay \ (seen \cup listed), dir,
                              rq.cook - 1 - Off(rq.proc))) <= Missable
        /\ rq.eof => Cardinality(stay \ (seen \cup listed)) <= Missable
        /\ Cardinality((twice \cup (seen \cap listed))
             \cup Ahead(seen \cup listed, dir, rq.cook - 1 - Off(rq.proc))) <= Repeatable
        /\ Verified(rq) /\ (changes.moved = 0 => rq.path = known)
    BY <1>1, <1>8, <2>1, Received
  <2>3. {e.name : e \in ToSet(rq.out)} = listed
    BY <2>1, <2>2 DEF ToSet
  <2>4. PICK c : c = IF rq.out = <<>> THEN ls.cookie ELSE rq.cook - 1
    OBVIOUS
  <2>5. c \in Cookies /\ c \in Nat /\ ls.cookie <= c
    <3>1. CASE rq.out = <<>>
      BY <1>5, <2>4, <3>1
    <3>2. CASE rq.out # <<>>
      BY <2>2, <2>4, <3>2, CookiesNat
    <3>3. QED
      BY <3>1, <3>2
  <2>6. /\ ls' = [ls EXCEPT !.on = ~rq.eof, !.verf = hash(rq.path),
                            !.cookie = IF rq.out = <<>> THEN @ ELSE Last(rq.out).cookie,
                            !.status = IF rq.eof THEN "done" ELSE @]
        /\ seen' = seen \cup listed
        /\ twice' = twice \cup (seen \cap listed)
        /\ from' = from \cup {rq.path}
    BY <1>8, <2>3 DEF Receive
  <2>7. /\ ls' \in Listing /\ ls'.on = ~rq.eof /\ ls'.verf = hash(rq.path)
        /\ ls'.cookie = c /\ ls'.status = (IF rq.eof THEN "done" ELSE "none")
        /\ ls'.last = rq.proc /\ ls'.last # "none"
    <3>1. (IF rq.out = <<>> THEN ls.cookie ELSE Last(rq.out).cookie) = c
      BY <2>2, <2>4 DEF Last
    <3>2. ls' = [ls EXCEPT !.on = ~rq.eof, !.verf = hash(rq.path), !.cookie = c,
                            !.status = IF rq.eof THEN "done" ELSE @]
      BY <1>5, <2>6, <3>1
    <3>3. hash(rq.path) \in Verfs /\ (~rq.eof) \in BOOLEAN
      BY <2>2, HashRange
    <3>4. QED
      BY <1>5, <2>5, <3>2, <3>3 DEF Listing
  <2>8. Typed'
    <3>1. seen' \subseteq Entries /\ twice' \subseteq seen' /\ from' \subseteq Paths
      BY <2>2, <2>6 DEF RInv, Typed
    <3>2. QED
      BY <1>2, <1>3, <2>7, <3>1 DEF RInv, Typed, Blank
  <2>9. Link'
    BY <1>3, <2>7 DEF Link
  <2>10. Paged'
    <3>1. OneHash'
      <4>1. \A p \in from : hash(p) = 0 \/ hash(p) = rq.verf
        BY <1>5 DEF RInv, Paged, OneHash
      <4>2. rq.verf # 0 => rq.verf = hash(rq.path)
        BY <2>2 DEF Verified
      <4>3. \A p \in from : hash(p) = 0 \/ hash(p) = hash(rq.path)
        BY <4>1, <4>2
      <4>4. QED
        BY <2>6, <2>7, <4>3 DEF OneHash
    <3>2. (ls.on /\ changes.moved = 0 => ls.verf \in {0, hash(known)})'
      BY <1>2, <2>2, <2>7
    <3>3. QED
      BY <1>3, <1>6, <3>1, <3>2 DEF Paged
  <2>11. DotsSeen'
    <3> SUFFICES ASSUME NEW x \in seen \cup listed, x <= 0 PROVE x + 2 <= c
      BY <2>6, <2>7 DEF DotsSeen
    <3>1. x \in Int
      BY <2>2, CookiesNat DEF RInv, Typed
    <3>2. CASE x \in seen
      <4>1. x + 2 <= ls.cookie
        BY <1>5, <3>2 DEF RInv, DotsSeen
      <4>2. QED
        BY <1>5, <2>5, <3>1, <4>1
    <3>3. CASE x \in listed
      <4>1. PICK i \in 1..Len(rq.out) : x = rq.out[i].name
        BY <2>1, <3>3
      <4>2. rq.out # <<>>
        OBVIOUS
      <4>3. x + 2 <= rq.cook - 1
        BY <2>2, <4>1
      <4>4. QED
        BY <2>4, <4>2, <4>3
    <3>4. QED
      BY <3>2, <3>3
  <2>12. rq.out = <<>> => listed = {}
    BY <2>1
  <2>13. /\ Cardinality(Behind(stay \ (seen \cup listed), dir, c - Off(rq.proc))) <= Missable
         /\ Cardinality((twice \cup (seen \cap listed))
                \cup Ahead(seen \cup listed, dir, c - Off(rq.proc))) <= Repeatable
    <3>1. CASE rq.out # <<>>
      BY <2>2, <2>4, <3>1
    <3>2. CASE rq.out = <<>>
      <4>1. /\ Cardinality(Behind(stay \ seen, dir, c - Off(rq.proc))) <= Missable
            /\ Cardinality(twice \cup Ahead(seen, dir, c - Off(rq.proc))) <= Repeatable
        BY <1>5, <2>4, <3>2 DEF RInv, Misses, Repeats
      <4>2. seen \cup listed = seen /\ twice \cup (seen \cap listed) = twice
        BY <2>12, <3>2
      <4>3. QED
        BY <4>1, <4>2
    <3>3. QED
      BY <3>1, <3>2
  <2>14. Misses'
    <3>1. MissesBounded'
      BY <1>2, <2>2, <2>6, <2>7 DEF MissesBounded, Missable
    <3>2. (Cardinality(Behind(stay \ seen, dir, ls.cookie - Off(ls.last))))' <= Missable'
      BY <1>2, <2>6, <2>7, <2>13
    <3>3. QED
      BY <3>1, <3>2 DEF Misses
  <2>15. Repeats'
    <3> DEFINE T == twice \cup (seen \cap listed)
               R == T \cup Ahead(seen \cup listed, dir, c - Off(rq.proc))
    <3>1. (Cardinality(twice \cup Ahead(seen, dir, ls.cookie - Off(ls.last))))' <= Repeatable'
      BY <1>2, <2>6, <2>7, <2>13
    <3>2. Cardinality(T) <= Repeatable
      <4>1. Directory(dir) /\ IsFiniteSet(seen) /\ IsFiniteSet(twice)
        BY ReadDirectory, Bounds DEF RInv
      <4>2. IsFiniteSet(T)
        BY <4>1, FS_Union, FS_Intersection
      <4>3. IsFiniteSet(R)
        BY <4>1, <4>2, PassedFinite, FS_Union
      <4>4. T \subseteq R /\ Cardinality(R) <= Repeatable
        BY <2>13
      <4> HIDE DEF T, R
      <4>5. Cardinality(T) \in Nat /\ Cardinality(T) <= Cardinality(R) /\ Cardinality(R) \in Nat
        BY <4>3, <4>4, NoMore, FS_CardinalityType
      <4>6. Repeatable \in Nat
        BY Bounds
      <4>7. QED
        BY <4>4, <4>5, <4>6
    <3>3. RepeatsBounded'
      BY <1>2, <2>6, <3>2 DEF RepeatsBounded, Repeatable
    <3>4. QED
      BY <3>1, <3>3 DEF Repeats
  <2>16. QED
    BY <1>4, <2>8, <2>9, <2>10, <2>11, <2>14, <2>15 DEF RInv
<1>9. QED
  BY <1>7, <1>8

-----------------------------------------------------------------------------
(* Other requests: the page is what it was, but the directory is not.       *)
Alike(r, t) == /\ t.pc = r.pc /\ t.proc = r.proc /\ t.path = r.path /\ t.cookie = r.cookie
               /\ t.verf = r.verf /\ t.todo = r.todo /\ t.read = r.read /\ t.cook = r.cook
               /\ t.eof = r.eof /\ t.err = r.err /\ t.out = r.out /\ t.status = r.status
               /\ (t.calm => r.calm)

LEMMA DisturbedGood ==
    ASSUME NEW r \in Request, NEW t, t = r \/ t = [r EXCEPT !.calm = FALSE],
           Phase(r), Ordered(r), Staged(r)
    PROVE  t \in Request /\ Alike(r, t) /\ Phase(t) /\ Ordered(t) /\ Staged(t)
<1>1. t \in Request /\ Alike(r, t)
  <2>1. FALSE \in BOOLEAN
    OBVIOUS
  <2>2. QED
    BY <2>1 DEF Request, Alike
<1>2. Phase(t) /\ Ordered(t)
  BY <1>1 DEF Alike, Phase, Begun, Ordered
<1>3. Staged(t)
  BY <1>1 DEF Alike, Staged, Begun, Dotted
<1>4. QED
  BY <1>1, <1>2, <1>3

LEMMA Recounted ==
    ASSUME NEW r, NEW t, t = rq', Alike(r, t),
           Reading(r) => /\ \A k \in Turns(r) :
                                /\ Cardinality(Behind(stay' \ (seen' \cup Got(r, k)), dir',
                                                      Passed(r, k))) <= Missable'
                                /\ Cardinality((twice' \cup (seen' \cap Got(r, k)))
                                        \cup Ahead(seen' \cup Got(r, k), dir', Passed(r, k)))
                                                    <= Repeatable'
                         /\ r.eof => Cardinality(stay' \ (seen' \cup Got(r, Len(r.todo))))
                                            <= Missable'
    PROVE  Missed(rq)' /\ Repeated(rq)'
<1>1. Skipped(t) = Skipped(r)
  BY DEF Skipped, Alike
<1>2. Turns(t) = Turns(r) /\ Reading(t) = Reading(r) /\ t.eof = r.eof /\ t.todo = r.todo
  BY <1>1 DEF Turns, Reading, Alike
<1>3. \A k : Got(t, k) = Got(r, k) /\ Passed(t, k) = Passed(r, k)
  BY <1>1 DEF Got, Passed, Alike
<1>4. Reading(t) => /\ \A k \in Turns(t) :
                           /\ Cardinality(Behind(stay' \ (seen' \cup Got(t, k)), dir',
                                                 Passed(t, k))) <= Missable'
                           /\ Cardinality((twice' \cup (seen' \cap Got(t, k)))
                                   \cup Ahead(seen' \cup Got(t, k), dir', Passed(t, k)))
                                               <= Repeatable'
                    /\ t.eof => Cardinality(stay' \ (seen' \cup Got(t, Len(t.todo))))
                                       <= Missable'
  BY <1>2, <1>3
<1>5. QED
  BY <1>4 DEF Missed, Repeated, Unseen, Again

(* A request that has read the directory belongs to a listing.              *)
LEMMA ReadingOn ==
    ASSUME RInv
    PROVE  /\ Reading(rq) => ls.on
           /\ \A k \in Turns(rq) : Passed(rq, k) \in Int
           /\ Reading(rq) =>
                /\ \A k \in Turns(rq) :
                      /\ Cardinality(Behind(stay \ (seen \cup Got(rq, k)), dir,
                                            Passed(rq, k))) <= Missable
                      /\ Cardinality((twice \cup (seen \cap Got(rq, k)))
                              \cup Ahead(seen \cup Got(rq, k), dir, Passed(rq, k)))
                                          <= Repeatable
                /\ rq.eof => Cardinality(stay \ (seen \cup Got(rq, Len(rq.todo))))
                                  <= Missable
           /\ (ls.cookie - Off(ls.last)) \in Int
           /\ ls.on => /\ Cardinality(Behind(stay \ seen, dir, ls.cookie - Off(ls.last)))
                                <= Missable
                       /\ Cardinality(twice \cup Ahead(seen, dir, ls.cookie - Off(ls.last)))
                                <= Repeatable
           /\ Cardinality(twice) <= Repeatable
           /\ ls.status = "done" => Cardinality(stay \ seen) <= Missable
<1>1. rq \in Request /\ Phase(rq) /\ Missed(rq) /\ Repeated(rq) /\ ls \in Listing
  BY DEF RInv, Page, Typed
<1>2. Reading(rq) => ls.on
  BY <1>1 DEF Reading, Phase, RInv, Link
<1>3. ASSUME NEW k \in Turns(rq) PROVE Passed(rq, k) \in Int
  <2>1. rq.cook \in Nat /\ Len(rq.todo) \in Nat /\ Skipped(rq) \in 0..Len(rq.todo)
    <3>1. rq.cook \in Nat /\ rq.todo \in Seq(Entries)
      BY <1>1 DEF Request
    <3>2. QED
      BY <1>1, <3>1, SkippedGood
  <2>2. k \in Nat
    BY <2>1 DEF Turns
  <2>3. Off(rq.proc) \in Int
    BY DEF Off
  <2>4. QED
    BY <2>1, <2>2, <2>3 DEF Passed
<1>4. (ls.cookie - Off(ls.last)) \in Int
  <2>1. ls.cookie \in Nat
    BY <1>1, CookiesNat DEF Listing
  <2>2. QED
    BY <2>1 DEF Off
<1>5. /\ ls.on => /\ Cardinality(Behind(stay \ seen, dir, ls.cookie - Off(ls.last)))
                            <= Missable
                  /\ Cardinality(twice \cup Ahead(seen, dir, ls.cookie - Off(ls.last)))
                            <= Repeatable
      /\ Cardinality(twice) <= Repeatable
      /\ ls.status = "done" => Cardinality(stay \ seen) <= Missable
  BY DEF RInv, Misses, Repeats, MissesBounded, RepeatsBounded, Missable, Repeatable
<1>6. Reading(rq) =>
                /\ \A k \in Turns(rq) :
                      /\ Cardinality(Behind(stay \ (seen \cup Got(rq, k)), dir,
                                            Passed(rq, k))) <= Missable
                      /\ Cardinality((twice \cup (seen \cap Got(rq, k)))
                              \cup Ahead(seen \cup Got(rq, k), dir, Passed(rq, k)))
                                          <= Repeatable
                /\ rq.eof => Cardinality(stay \ (seen \cup Got(rq, Len(rq.todo))))
                                  <= Missable
  BY <1>1 DEF Missed, Repeated, Unseen, Again
<1>7. QED
  BY <1>2, <1>3, <1>4, <1>5, <1>6

(* The directory gets another path: first in the file system, ...           *)
LEMMA StepRename == ASSUME NEW p \in Paths PROVE RInv /\ Rename(p) => RInv'
<1> SUFFICES ASSUME RInv, Rename(p) PROVE RInv'
  OBVIOUS
<1>1. /\ dir' = dir /\ ls' = ls /\ seen' = seen /\ twice' = twice /\ stay' = stay /\ from' = from
      /\ at' = p /\ rq' = [rq EXCEPT !.calm = FALSE] /\ known' = known /\ changes' = changes
      /\ mvs' = mvs \cup {<<at, p>>}
  BY DEF Rename, Disturb, Disturbed, history
<1>2. rq \in Request /\ Phase(rq) /\ Ordered(rq) /\ Staged(rq) /\ at \in Paths
  BY DEF RInv, Typed, Page
<1>3. PICK t : t = rq' /\ t = [rq EXCEPT !.calm = FALSE]
  BY <1>1
<1>4. t \in Request /\ Alike(rq, t) /\ Phase(t) /\ Ordered(t) /\ Staged(t) /\ ~t.calm
  <2>1. t \in Request /\ Alike(rq, t) /\ Phase(t) /\ Ordered(t) /\ Staged(t)
    BY <1>2, <1>3, DisturbedGood
  <2>2. ~t.calm
    BY <1>2, <1>3 DEF Request
  <2>3. QED
    BY <2>1, <2>2
<1>5. Missable' = Missable /\ Repeatable' = Repeatable
  BY <1>1 DEF Missable, Repeatable
<1>6. Typed'
  <2>1. <<at, p>> \in Paths \X Paths
    BY <1>2
  <2>2. QED
    BY <1>1, <1>3, <1>4, <2>1 DEF RInv, Typed
<1>7. Link'
  BY <1>1, <1>3, <1>4 DEF RInv, Link, Alike
<1>8. Paged'
  <2>1. OneHash' /\ (ls.on /\ changes.moved = 0 => ls.verf \in {0, hash(known)})'
    BY <1>1 DEF RInv, Paged, OneHash
  <2>2. /\ (Begun(rq) /\ rq.calm => rq.path = at)'
        /\ (Begun(rq) /\ changes.moved = 0 => rq.path = known)'
    BY <1>1, <1>3, <1>4 DEF Begun, Alike, RInv, Paged
  <2>3. (rq.read \/ rq.pc \in {"plus_lstat", "plus_lookup", "plus_readdir"} => Verified(rq))'
    <3>1. rq.read \/ rq.pc \in {"plus_lstat", "plus_lookup", "plus_readdir"} => Verified(rq)
      BY DEF RInv, Paged
    <3>2. QED
      BY <1>3, <1>4, <3>1 DEF Alike, Verified
  <2>4. Errors'
    <3>1. t.status = "BAD_COOKIE" => changes.moved > 0
      BY <1>4 DEF RInv, Paged, Errors, Alike
    <3>2. QED
      BY <1>1, <1>3, <1>4, <3>1 DEF Errors
  <2>5. QED
    BY <2>1, <2>2, <2>3, <2>4 DEF Paged
<1>9. (ls.on => DotsSeen)'
  BY <1>1 DEF RInv, DotsSeen
<1>10. Misses' /\ Repeats'
  BY <1>1, <1>5 DEF RInv, Misses, Repeats, MissesBounded, RepeatsBounded
<1>11. Calm(rq)'
  BY <1>3, <1>4 DEF Calm
<1>12. Missed(rq)' /\ Repeated(rq)'
  BY <1>1, <1>3, <1>4, <1>5, ReadingOn, Recounted
<1>13. (Phase(rq) /\ Ordered(rq) /\ Staged(rq))'
  <2>1. Phase(rq') /\ Ordered(rq') /\ Staged(rq')
    BY <1>3, <1>4
  <2>2. QED
    BY <2>1 DEF Phase, Ordered, Staged, Dotted, Begun
<1>14. QED
  BY <1>6, <1>7, <1>8, <1>9, <1>10, <1>11, <1>12, <1>13 DEF RInv, Page

(* What does not touch the request, the directory or what is listed.        *)
LEMMA ElsewhereGood ==
    ASSUME RInv, dir' = dir, at' = at, rq' = rq, ls' = ls, seen' = seen, twice' = twice,
           stay' = stay, from' = from, changes' \in Counts,
           changes'.added = changes.added, changes'.removed = changes.removed,
           changes'.toPlain = changes.toPlain, changes'.toPlus = changes.toPlus
    PROVE  /\ Link' /\ OneHash' /\ (ls.on => DotsSeen)' /\ Misses' /\ Repeats' /\ Page(rq)'
<1>1. Missable' = Missable /\ Repeatable' = Repeatable
  BY DEF Missable, Repeatable
<1>2. Link' /\ OneHash' /\ (ls.on => DotsSeen)'
  BY DEF RInv, Link, Paged, OneHash, DotsSeen
<1>3. Misses' /\ Repeats'
  BY <1>1 DEF RInv, Misses, Repeats, MissesBounded, RepeatsBounded
<1>4. (Phase(rq) /\ Calm(rq) /\ Ordered(rq) /\ Staged(rq))'
  BY DEF RInv, Page, Phase, Calm, Ordered, Staged, Dotted, Begun
<1>5. Missed(rq)' /\ Repeated(rq)'
  <2>1. PICK t : t = rq' /\ t = rq
    OBVIOUS
  <2>2. Alike(rq, t)
    BY <2>1 DEF Alike
  <2>3. QED
    BY <1>1, <2>1, <2>2, ReadingOn, Recounted
<1>6. QED
  BY <1>2, <1>3, <1>4, <1>5 DEF Page

(* ... then in the database ...                                             *)
LEMMA StepMv == ASSUME NEW m \in mvs PROVE RInv /\ Mv(m) => RInv'
<1> SUFFICES ASSUME RInv, Mv(m) PROVE RInv'
  OBVIOUS
<1>1. /\ dir' = dir /\ at' = at /\ rq' = rq /\ ls' = ls /\ seen' = seen /\ twice' = twice
      /\ stay' = stay /\ from' = from
      /\ known' = m[2] /\ mvs' = mvs \ {m}
      /\ changes' = IF ls.on THEN [changes EXCEPT !["moved"] = @ + 1] ELSE changes
  BY DEF Mv, Counted
<1>2. /\ rq \in Request /\ changes \in Counts /\ m \in Paths \X Paths /\ known \in Paths
      /\ mvs \subseteq Paths \X Paths
  BY DEF RInv, Typed
<1>3. /\ changes' \in Counts /\ changes'.added = changes.added
      /\ changes'.removed = changes.removed /\ changes'.toPlain = changes.toPlain
      /\ changes'.toPlus = changes.toPlus
      /\ ls.on => changes'.moved = changes.moved + 1
      /\ ~ls.on => changes'.moved = changes.moved
      /\ changes.moved \in Nat
  <2>1. changes.moved \in Nat
    BY <1>2 DEF Counts
  <2>2. changes.moved + 1 \in Nat
    BY <2>1
  <2>3. QED
    BY <1>1, <1>2, <2>1, <2>2 DEF Counts
<1>4. /\ Link' /\ OneHash' /\ (ls.on => DotsSeen)' /\ Misses' /\ Repeats' /\ Page(rq)'
  BY <1>1, <1>3, ElsewhereGood
<1>5. Typed'
  <2>1. known' \in Paths
    BY <1>1, <1>2
  <2>2. QED
    BY <1>1, <1>2, <1>3, <2>1 DEF RInv, Typed
<1>6. Paged'
  <2>1. ls.on => changes'.moved # 0
    BY <1>3
  <2>2. Begun(rq) => ls.on
    BY DEF Begun, RInv, Link
  <2>3. (Begun(rq) /\ rq.calm => rq.path = at)'
    BY <1>1 DEF RInv, Paged, Begun
  <2>4. /\ (ls.on /\ changes.moved = 0 => ls.verf \in {0, hash(known)})'
        /\ (Begun(rq) /\ changes.moved = 0 => rq.path = known)'
    BY <1>1, <2>1, <2>2 DEF Begun
  <2>5. (rq.read \/ rq.pc \in {"plus_lstat", "plus_lookup", "plus_readdir"} => Verified(rq))'
    BY <1>1 DEF RInv, Paged, Verified
  <2>6. Errors'
    <3>1. rq.status = "BAD_COOKIE" => changes'.moved > 0
      BY <1>3 DEF RInv, Paged, Errors
    <3>2. QED
      BY <1>1, <3>1 DEF RInv, Paged, Errors
  <2>7. QED
    BY <1>4, <2>3, <2>4, <2>5, <2>6 DEF Paged
<1>7. QED
  BY <1>4, <1>5, <1>6 DEF RInv

(* ... or never there.                                                      *)
LEMMA StepMvLost == ASSUME NEW m \in mvs PROVE RInv /\ MvLost(m) => RInv'
<1> SUFFICES ASSUME RInv, MvLost(m) PROVE RInv'
  OBVIOUS
<1>1. /\ dir' = dir /\ at' = at /\ rq' = rq /\ ls' = ls /\ seen' = seen /\ twice' = twice
      /\ stay' = stay /\ from' = from /\ known' = known /\ mvs' = mvs \ {m}
      /\ changes' = changes
  BY DEF MvLost, history
<1>2. changes \in Counts
  BY DEF RInv, Typed
<1>3. /\ Link' /\ OneHash' /\ (ls.on => DotsSeen)' /\ Misses' /\ Repeats' /\ Page(rq)'
  BY <1>1, <1>2, ElsewhereGood
<1>4. Typed'
  BY <1>1 DEF RInv, Typed
<1>5. Paged'
  BY <1>1, <1>3 DEF RInv, Paged, Errors, Begun, Verified
<1>6. QED
  BY <1>3, <1>4, <1>5 DEF RInv

(* What a change counts. *)
LEMMA Counting ==
    ASSUME NEW what \in {"added", "removed"}, Counted(what), changes \in Counts,
           ls.on \in BOOLEAN
    PROVE  /\ changes' \in Counts /\ changes'.moved = changes.moved
           /\ changes'.toPlain = changes.toPlain /\ changes'.toPlus = changes.toPlus
           /\ what = "added" => changes'.removed = changes.removed
           /\ what = "removed" => changes'.added = changes.added
           /\ what = "added" => changes'.added = changes.added + IF ls.on THEN 1 ELSE 0
           /\ what = "removed" => changes'.removed = changes.removed + IF ls.on THEN 1 ELSE 0
<1>1. /\ changes.added \in Nat /\ changes.removed \in Nat
      /\ changes.added + 1 \in Nat /\ changes.removed + 1 \in Nat
  BY DEF Counts
<1>2. changes' = IF ls.on THEN [changes EXCEPT ![what] = @ + 1] ELSE changes
  BY DEF Counted
<1>3. CASE ls.on
  <2>1. CASE what = "added"
    BY <1>1, <1>2, <1>3, <2>1 DEF Counts
  <2>2. CASE what = "removed"
    BY <1>1, <1>2, <1>3, <2>2 DEF Counts
  <2>3. QED
    BY <2>1, <2>2
<1>4. CASE ~ls.on
  BY <1>1, <1>2, <1>4
<1>5. QED
  BY <1>3, <1>4

LEMMA StepCreate == ASSUME NEW n \in Names PROVE RInv /\ Create(n) => RInv'
<1> SUFFICES ASSUME RInv, Create(n) PROVE RInv'
  OBVIOUS
<1>1. /\ n \notin dir /\ dir' = dir \cup {n} /\ at' = at /\ known' = known /\ mvs' = mvs
      /\ ls' = ls /\ rq' = rq
      /\ seen' = seen /\ twice' = twice /\ stay' = stay /\ from' = from /\ Counted("added")
  BY DEF Create, place
<1>2. rq \in Request /\ Phase(rq) /\ Ordered(rq) /\ Staged(rq) /\ changes \in Counts
      /\ ls.on \in BOOLEAN /\ stay \subseteq dir /\ dir \subseteq Names
  BY DEF RInv, Typed, Page, Listing
<1>3. /\ changes' \in Counts /\ changes'.moved = changes.moved
      /\ changes'.removed = changes.removed /\ changes'.toPlain = changes.toPlain
      /\ changes'.toPlus = changes.toPlus
      /\ changes'.added = changes.added + IF ls.on THEN 1 ELSE 0
  BY <1>1, <1>2, Counting
<1>4. PICK t : t = rq' /\ t = rq
  BY <1>1
<1>5. t \in Request /\ Alike(rq, t) /\ Phase(t) /\ Ordered(t) /\ Staged(t)
  BY <1>2, <1>4, DisturbedGood
<1>6. /\ Missable' = Missable /\ (ls.on => Repeatable' = Repeatable + 1)
      /\ (~ls.on => Repeatable' = Repeatable) /\ Missable \in Nat /\ Repeatable \in Nat
  <2>1. changes.added \in Nat /\ changes.toPlus \in Nat
    BY <1>2 DEF Counts
  <2>2. QED
    BY <1>3, <2>1, Bounds DEF Missable, Repeatable
<1>7. Directory(dir) /\ n \in Nat \ {0} /\ n \notin stay
  BY <1>1, <1>2, ReadDirectory, ReaddirAssumption DEF RInv
<1>8. ASSUME NEW S, NEW T, NEW x \in Int, NEW C, C \subseteq stay, IsFiniteSet(T)
      PROVE  /\ Cardinality(Behind(C, dir', x)) <= Cardinality(Behind(C, dir, x))
             /\ Cardinality(Behind(C, dir', x)) \in Nat
             /\ Cardinality(Behind(C, dir, x)) \in Nat
             /\ Cardinality(T \cup Ahead(S, dir', x)) <= Cardinality(T \cup Ahead(S, dir, x)) + 1
             /\ Cardinality(T \cup Ahead(S, dir', x)) \in Nat
             /\ Cardinality(T \cup Ahead(S, dir, x)) \in Nat
  <2>1. n \notin C
    BY <1>7, <1>8
  <2>2. Directory(dir \cup {n})
    BY <1>7, FS_AddElement DEF Directory
  <2>3. /\ Cardinality(Behind(C, dir \cup {n}, x)) <= Cardinality(Behind(C, dir, x))
        /\ Cardinality(T \cup Ahead(S, dir \cup {n}, x)) <= Cardinality(T \cup Ahead(S, dir, x)) + 1
    <3>1. Cardinality(Behind(C, dir \cup {n}, x)) <= Cardinality(Behind(C, dir, x))
      BY <1>1, <1>7, <1>8, <2>1, BehindAdded
    <3>2. Cardinality(T \cup Ahead(S, dir \cup {n}, x)) <= Cardinality(T \cup Ahead(S, dir, x)) + 1
      BY <1>1, <1>7, <1>8, AheadAdded
    <3>3. QED
      BY <3>1, <3>2
  <2>4. /\ Cardinality(Behind(C, dir \cup {n}, x)) \in Nat
        /\ Cardinality(Behind(C, dir, x)) \in Nat
        /\ IsFiniteSet(T \cup Ahead(S, dir \cup {n}, x))
        /\ IsFiniteSet(T \cup Ahead(S, dir, x))
    BY <1>7, <1>8, <2>2, PassedFinite, FS_Union
  <2>5. QED
    BY <1>1, <2>3, <2>4, FS_CardinalityType
<1>9. Misses' /\ Repeats'
  <2>1. ls.on => /\ Cardinality(Behind(stay \ seen, dir', ls.cookie - Off(ls.last))) <= Missable'
                 /\ Cardinality(twice \cup Ahead(seen, dir', ls.cookie - Off(ls.last)))
                        <= Repeatable'
    <3> SUFFICES ASSUME ls.on
                 PROVE  /\ Cardinality(Behind(stay \ seen, dir', ls.cookie - Off(ls.last))) <= Missable'
                        /\ Cardinality(twice \cup Ahead(seen, dir', ls.cookie - Off(ls.last)))
                                <= Repeatable'
      OBVIOUS
    <3>1. PICK x \in Int : x = ls.cookie - Off(ls.last)
      BY ReadingOn
    <3>2. stay \ seen \subseteq stay /\ IsFiniteSet(twice)
      BY Bounds
    <3>3. /\ Cardinality(Behind(stay \ seen, dir, x)) <= Missable
          /\ Cardinality(twice \cup Ahead(seen, dir, x)) <= Repeatable
      BY <3>1, ReadingOn
    <3>4. /\ Cardinality(Behind(stay \ seen, dir', x)) <= Missable
          /\ Cardinality(twice \cup Ahead(seen, dir', x)) <= Repeatable + 1
      <4>1. /\ Cardinality(Behind(stay \ seen, dir', x)) <= Cardinality(Behind(stay \ seen, dir, x))
            /\ Cardinality(Behind(stay \ seen, dir', x)) \in Nat
            /\ Cardinality(Behind(stay \ seen, dir, x)) \in Nat
        BY <1>8, <3>1, <3>2
      <4>2. /\ Cardinality(twice \cup Ahead(seen, dir', x))
                    <= Cardinality(twice \cup Ahead(seen, dir, x)) + 1
            /\ Cardinality(twice \cup Ahead(seen, dir', x)) \in Nat
            /\ Cardinality(twice \cup Ahead(seen, dir, x)) \in Nat
        BY <1>8, <3>1, <3>2
      <4>3. QED
        BY <1>6, <3>3, <4>1, <4>2
    <3>5. QED
      BY <1>6, <3>1, <3>4
  <2>2. MissesBounded'
    BY <1>1, <1>3 DEF MissesBounded, RInv, Misses
  <2>3. RepeatsBounded'
    <3>1. Cardinality(twice) <= Repeatable /\ Cardinality(twice) \in Nat
      BY ReadingOn, Bounds, FS_CardinalityType
    <3>2. Cardinality(twice) <= Repeatable'
      BY <1>6, <3>1
    <3>3. QED
      BY <1>1, <3>2 DEF RepeatsBounded, Repeatable
  <2>4. QED
    BY <1>1, <2>1, <2>2, <2>3 DEF Misses, Repeats
<1>10. Missed(rq)' /\ Repeated(rq)'
  <2>1. ASSUME Reading(rq), NEW k \in Turns(rq)
        PROVE  /\ Cardinality(Behind(stay \ (seen \cup Got(rq, k)), dir', Passed(rq, k))) <= Missable'
               /\ Cardinality((twice \cup (seen \cap Got(rq, k)))
                        \cup Ahead(seen \cup Got(rq, k), dir', Passed(rq, k))) <= Repeatable'
    <3>1. PICK x \in Int : x = Passed(rq, k)
      BY <2>1, ReadingOn
    <3>2. PICK g : g = Got(rq, k)
      OBVIOUS
    <3>3. IsFiniteSet(twice \cup (seen \cap g)) /\ stay \ (seen \cup g) \subseteq stay
      <4>1. IsFiniteSet(seen \cap g) /\ IsFiniteSet(twice)
        BY Bounds, FS_Subset
      <4>2. QED
        BY <4>1, FS_Union
    <3>4. /\ Cardinality(Behind(stay \ (seen \cup g), dir, x)) <= Missable
          /\ Cardinality((twice \cup (seen \cap g)) \cup Ahead(seen \cup g, dir, x)) <= Repeatable
      BY <2>1, <3>1, <3>2, ReadingOn
    <3>5. /\ Cardinality(Behind(stay \ (seen \cup g), dir', x)) <= Missable
          /\ Cardinality((twice \cup (seen \cap g)) \cup Ahead(seen \cup g, dir', x))
                <= Repeatable + 1
      <4> DEFINE C == stay \ (seen \cup g)
                 T == twice \cup (seen \cap g)
                 S == seen \cup g
      <4>1. C \subseteq stay /\ IsFiniteSet(T)
        BY <3>3
      <4> HIDE DEF C, T, S
      <4>2. /\ Cardinality(Behind(C, dir', x)) <= Cardinality(Behind(C, dir, x))
            /\ Cardinality(Behind(C, dir', x)) \in Nat
            /\ Cardinality(Behind(C, dir, x)) \in Nat
        BY <1>8, <3>1, <4>1
      <4>3. /\ Cardinality(T \cup Ahead(S, dir', x)) <= Cardinality(T \cup Ahead(S, dir, x)) + 1
            /\ Cardinality(T \cup Ahead(S, dir', x)) \in Nat
            /\ Cardinality(T \cup Ahead(S, dir, x)) \in Nat
        BY <1>8, <3>1, <4>1
      <4>4. Cardinality(Behind(C, dir, x)) <= Missable /\ Cardinality(T \cup Ahead(S, dir, x)) <= Repeatable
        BY <3>4 DEF C, T, S
      <4>5. Cardinality(Behind(C, dir', x)) <= Missable /\ Cardinality(T \cup Ahead(S, dir', x)) <= Repeatable + 1
        BY <1>6, <4>2, <4>3, <4>4
      <4>6. QED
        BY <4>5 DEF C, T, S
    <3>6. ls.on
      BY <2>1, ReadingOn
    <3>7. QED
      BY <1>6, <3>1, <3>2, <3>5, <3>6
  <2>2. Reading(rq) /\ rq.eof => Cardinality(stay \ (seen \cup Got(rq, Len(rq.todo)))) <= Missable'
    BY <1>6, ReadingOn
  <2>3. QED
    BY <1>1, <1>4, <1>5, <2>1, <2>2, Recounted
<1>11. Typed'
  BY <1>1, <1>2, <1>3 DEF RInv, Typed
<1>12. Link' /\ Paged' /\ (ls.on => DotsSeen)'
  BY <1>1, <1>3 DEF RInv, Link, Paged, OneHash, Errors, DotsSeen, Begun, Verified
<1>13. Calm(rq)'
  BY <1>1 DEF RInv, Page, Calm
<1>14. (Phase(rq) /\ Ordered(rq) /\ Staged(rq))'
  BY <1>1, <1>2 DEF Phase, Ordered, Staged, Dotted, Begun
<1>15. QED
  BY <1>9, <1>10, <1>11, <1>12, <1>13, <1>14 DEF RInv, Page

LEMMA StepUnlink == ASSUME NEW n \in Names PROVE RInv /\ Unlink(n) => RInv'
<1> SUFFICES ASSUME RInv, Unlink(n) PROVE RInv'
  OBVIOUS
<1>1. /\ n \in dir /\ dir' = dir \ {n} /\ stay' = stay \ {n} /\ at' = at /\ known' = known /\ mvs' = mvs
      /\ ls' = ls
      /\ rq' = [rq EXCEPT !.calm = FALSE]
      /\ seen' = seen /\ twice' = twice /\ from' = from /\ Counted("removed")
  BY DEF Unlink, Disturb, Disturbed, place
<1>2. rq \in Request /\ Phase(rq) /\ Ordered(rq) /\ Staged(rq) /\ changes \in Counts
      /\ ls.on \in BOOLEAN /\ stay \subseteq dir /\ dir \subseteq Names
  BY DEF RInv, Typed, Page, Listing
<1>3. /\ changes' \in Counts /\ changes'.moved = changes.moved
      /\ changes'.added = changes.added /\ changes'.toPlain = changes.toPlain
      /\ changes'.toPlus = changes.toPlus
      /\ changes'.removed = changes.removed + IF ls.on THEN 1 ELSE 0
  BY <1>1, <1>2, Counting
<1>4. PICK t : t = rq' /\ t = [rq EXCEPT !.calm = FALSE]
  BY <1>1
<1>5. t \in Request /\ Alike(rq, t) /\ Phase(t) /\ Ordered(t) /\ Staged(t) /\ ~t.calm
  <2>1. t \in Request /\ Alike(rq, t) /\ Phase(t) /\ Ordered(t) /\ Staged(t)
    BY <1>2, <1>4, DisturbedGood
  <2>2. ~t.calm
    BY <1>2, <1>4 DEF Request
  <2>3. QED
    BY <2>1, <2>2
<1>6. /\ Repeatable' = Repeatable /\ (ls.on => Missable' = Missable + 1)
      /\ (~ls.on => Missable' = Missable) /\ Missable \in Nat /\ Repeatable \in Nat
  <2>1. changes.removed \in Nat /\ changes.toPlain \in Nat
    BY <1>2 DEF Counts
  <2>2. QED
    BY <1>3, <2>1, Bounds DEF Missable, Repeatable
<1>7. Directory(dir) /\ Directory(dir')
  BY <1>1, ReadDirectory, FS_Subset DEF RInv, Directory
<1>8. ASSUME NEW S, NEW T, NEW x \in Int, NEW C, IsFiniteSet(T)
      PROVE  /\ Cardinality(Behind(C \ {n}, dir', x)) <= Cardinality(Behind(C, dir, x)) + 1
             /\ Cardinality(Behind(C \ {n}, dir', x)) \in Nat
             /\ Cardinality(Behind(C, dir, x)) \in Nat
             /\ Cardinality(T \cup Ahead(S, dir', x)) <= Cardinality(T \cup Ahead(S, dir, x))
             /\ Cardinality(T \cup Ahead(S, dir', x)) \in Nat
             /\ Cardinality(T \cup Ahead(S, dir, x)) \in Nat
  <2>1. Cardinality(Behind(C \ {n}, dir', x)) <= Cardinality(Behind(C, dir, x)) + 1
    BY <1>1, <1>7, <1>8, BehindRemoved
  <2>2. Ahead(S, dir', x) \subseteq Ahead(S, dir, x)
    BY <1>1, <1>7, <1>8, AheadRemoved
  <2>3. IsFiniteSet(T \cup Ahead(S, dir, x))
    BY <1>7, <1>8, PassedFinite, FS_Union
  <2>4. T \cup Ahead(S, dir', x) \subseteq T \cup Ahead(S, dir, x)
    BY <2>2
  <2>5. /\ Cardinality(T \cup Ahead(S, dir', x)) <= Cardinality(T \cup Ahead(S, dir, x))
        /\ Cardinality(T \cup Ahead(S, dir', x)) \in Nat
    BY <2>3, <2>4, NoMore
  <2>6. Cardinality(Behind(C \ {n}, dir', x)) \in Nat /\ Cardinality(Behind(C, dir, x)) \in Nat
    BY <1>7, <1>8, PassedFinite
  <2>7. QED
    BY <2>1, <2>3, <2>5, <2>6, FS_CardinalityType
<1>9. Misses' /\ Repeats'
  <2>1. ls.on => /\ Cardinality(Behind(stay' \ seen, dir', ls.cookie - Off(ls.last))) <= Missable'
                 /\ Cardinality(twice \cup Ahead(seen, dir', ls.cookie - Off(ls.last)))
                        <= Repeatable'
    <3> SUFFICES ASSUME ls.on
                 PROVE  /\ Cardinality(Behind(stay' \ seen, dir', ls.cookie - Off(ls.last))) <= Missable'
                        /\ Cardinality(twice \cup Ahead(seen, dir', ls.cookie - Off(ls.last)))
                                <= Repeatable'
      OBVIOUS
    <3> DEFINE C == stay \ seen
    <3>1. PICK x \in Int : x = ls.cookie - Off(ls.last)
      BY ReadingOn
    <3>2. stay' \ seen = C \ {n} /\ IsFiniteSet(twice)
      BY <1>1, Bounds
    <3>3. /\ Cardinality(Behind(C, dir, x)) <= Missable
          /\ Cardinality(twice \cup Ahead(seen, dir, x)) <= Repeatable
      BY <3>1, ReadingOn
    <3> HIDE DEF C
    <3>4. /\ Cardinality(Behind(C \ {n}, dir', x)) <= Cardinality(Behind(C, dir, x)) + 1
          /\ Cardinality(Behind(C \ {n}, dir', x)) \in Nat
          /\ Cardinality(Behind(C, dir, x)) \in Nat
      BY <1>8, <3>1, <3>2
    <3>5. /\ Cardinality(twice \cup Ahead(seen, dir', x))
                  <= Cardinality(twice \cup Ahead(seen, dir, x))
          /\ Cardinality(twice \cup Ahead(seen, dir', x)) \in Nat
          /\ Cardinality(twice \cup Ahead(seen, dir, x)) \in Nat
      BY <1>8, <3>1, <3>2
    <3>6. /\ Cardinality(Behind(C \ {n}, dir', x)) <= Missable'
          /\ Cardinality(twice \cup Ahead(seen, dir', x)) <= Repeatable'
      BY <1>6, <3>3, <3>4, <3>5
    <3>7. QED
      BY <3>1, <3>2, <3>6
  <2>2. MissesBounded'
    <3>1. ls.status = "done" => ~ls.on
      BY DEF RInv, Link
    <3>2. ls.status = "done" => Cardinality(stay \ seen) <= Missable
      BY ReadingOn
    <3>3. stay' \ seen \subseteq stay \ seen /\ IsFiniteSet(stay \ seen)
      BY <1>1, Bounds, FS_Subset
    <3>4. Cardinality(stay' \ seen) \in Nat /\ Cardinality(stay' \ seen) <= Cardinality(stay \ seen)
          /\ Cardinality(stay \ seen) \in Nat
      BY <3>3, NoMore, FS_CardinalityType
    <3>5. ls.status = "done" => Cardinality(stay' \ seen) <= Missable'
      BY <1>6, <3>1, <3>2, <3>4
    <3>6. QED
      BY <1>1, <3>5 DEF MissesBounded, Missable
  <2>3. RepeatsBounded'
    BY <1>1, <1>3 DEF RepeatsBounded, RInv, Repeats
  <2>4. QED
    BY <1>1, <2>1, <2>2, <2>3 DEF Misses, Repeats
<1>10. Missed(rq)' /\ Repeated(rq)'
  <2>1. ASSUME Reading(rq), NEW k \in Turns(rq)
        PROVE  /\ Cardinality(Behind(stay' \ (seen \cup Got(rq, k)), dir', Passed(rq, k)))
                        <= Missable'
               /\ Cardinality((twice \cup (seen \cap Got(rq, k)))
                        \cup Ahead(seen \cup Got(rq, k), dir', Passed(rq, k))) <= Repeatable'
    <3>1. PICK x \in Int : x = Passed(rq, k)
      BY <2>1, ReadingOn
    <3> DEFINE C == stay \ (seen \cup Got(rq, k))
               T == twice \cup (seen \cap Got(rq, k))
               S == seen \cup Got(rq, k)
    <3>2. IsFiniteSet(T)
      <4>1. IsFiniteSet(seen \cap Got(rq, k)) /\ IsFiniteSet(twice)
        BY Bounds, FS_Subset
      <4>2. QED
        BY <4>1, FS_Union
    <3>3. stay' \ (seen \cup Got(rq, k)) = C \ {n}
      BY <1>1
    <3>4. Cardinality(Behind(C, dir, x)) <= Missable /\ Cardinality(T \cup Ahead(S, dir, x)) <= Repeatable
      BY <2>1, <3>1, ReadingOn
    <3> HIDE DEF C, T, S
    <3>5. /\ Cardinality(Behind(C \ {n}, dir', x)) <= Cardinality(Behind(C, dir, x)) + 1
          /\ Cardinality(Behind(C \ {n}, dir', x)) \in Nat
          /\ Cardinality(Behind(C, dir, x)) \in Nat
      BY <1>8, <3>1, <3>2
    <3>6. /\ Cardinality(T \cup Ahead(S, dir', x)) <= Cardinality(T \cup Ahead(S, dir, x))
          /\ Cardinality(T \cup Ahead(S, dir', x)) \in Nat
          /\ Cardinality(T \cup Ahead(S, dir, x)) \in Nat
      BY <1>8, <3>1, <3>2
    <3>7. ls.on
      BY <2>1, ReadingOn
    <3>8. /\ Cardinality(Behind(C \ {n}, dir', x)) <= Missable'
          /\ Cardinality(T \cup Ahead(S, dir', x)) <= Repeatable'
      BY <1>6, <3>4, <3>5, <3>6, <3>7
    <3>9. QED
      BY <3>1, <3>3, <3>8 DEF T, S
  <2>2. Reading(rq) /\ rq.eof =>
            Cardinality(stay' \ (seen \cup Got(rq, Len(rq.todo)))) <= Missable'
    <3>1. PICK g : g = Got(rq, Len(rq.todo))
      OBVIOUS
    <3>2. stay' \ (seen \cup g) \subseteq stay \ (seen \cup g) /\ IsFiniteSet(stay \ (seen \cup g))
      BY <1>1, Bounds, FS_Subset
    <3>3. /\ Cardinality(stay' \ (seen \cup g)) \in Nat /\ Cardinality(stay \ (seen \cup g)) \in Nat
          /\ Cardinality(stay' \ (seen \cup g)) <= Cardinality(stay \ (seen \cup g))
      BY <3>2, NoMore, FS_CardinalityType
    <3>4. Reading(rq) /\ rq.eof => Cardinality(stay \ (seen \cup g)) <= Missable
      BY <3>1, ReadingOn
    <3>5. Reading(rq) /\ rq.eof => Cardinality(stay' \ (seen \cup g)) <= Missable'
      BY <1>6, <3>3, <3>4
    <3>6. QED
      BY <3>1, <3>5
  <2>3. QED
    BY <1>1, <1>4, <1>5, <2>1, <2>2, Recounted
<1>11. Typed'
  BY <1>1, <1>2, <1>3, <1>4, <1>5 DEF RInv, Typed
<1>12. Link'
  BY <1>1, <1>4, <1>5 DEF RInv, Link, Alike
<1>13. Paged'
  <2>1. OneHash'
    BY <1>1 DEF RInv, Paged, OneHash
  <2>2. (rq.read \/ rq.pc \in {"plus_lstat", "plus_lookup", "plus_readdir"} => Verified(rq))'
    <3>1. rq.read \/ rq.pc \in {"plus_lstat", "plus_lookup", "plus_readdir"} => Verified(rq)
      BY DEF RInv, Paged
    <3>2. QED
      BY <1>4, <1>5, <3>1 DEF Alike, Verified
  <2>3. /\ (Begun(rq) /\ rq.calm => rq.path = at)'
        /\ (Begun(rq) /\ changes.moved = 0 => rq.path = known)'
    BY <1>1, <1>3, <1>4, <1>5 DEF RInv, Paged, Begun, Alike
  <2>4. Errors'
    BY <1>3, <1>4, <1>5 DEF RInv, Paged, Errors, Alike
  <2>5. QED
    BY <1>1, <1>3, <2>1, <2>2, <2>3, <2>4 DEF RInv, Paged
<1>14. (ls.on => DotsSeen)'
  BY <1>1 DEF RInv, DotsSeen
<1>15. Calm(rq)'
  BY <1>4, <1>5 DEF Calm
<1>16. (Phase(rq) /\ Ordered(rq) /\ Staged(rq))'
  <2>1. Phase(rq') /\ Ordered(rq') /\ Staged(rq')
    BY <1>4, <1>5
  <2>2. QED
    BY <2>1 DEF Phase, Ordered, Staged, Dotted, Begun
<1>17. QED
  BY <1>9, <1>10, <1>11, <1>12, <1>13, <1>14, <1>15, <1>16 DEF RInv, Page

-----------------------------------------------------------------------------

LEMMA StartsGood == Init => RInv
<1> SUFFICES ASSUME Init PROVE RInv
  OBVIOUS
<1>1. /\ dir \subseteq Names /\ at \in Paths /\ known \in Paths /\ mvs = {} /\ rq = Idle /\ ls = Unlisted
      /\ seen = {} /\ twice = {} /\ stay = {} /\ changes = NoChange /\ from = {}
  BY DEF Init
<1>2. Blank(rq) /\ rq.pc = "idle" /\ rq.cookie = 0
  BY <1>1, IdleBlank
<1>3. Cardinality(Names) \in Nat /\ Cardinality({}) = 0
  BY FS_CardinalityType, ReaddirAssumption, FS_EmptySet
<1>4. /\ changes \in Counts /\ changes.removed = 0 /\ changes.added = 0
      /\ changes.toPlain = 0 /\ changes.toPlus = 0
  BY <1>1 DEF NoChange, Counts
<1>5. ls \in Listing /\ ~ls.on /\ ls.cookie = 0 /\ ls.last = "none" /\ ls.status = "none"
  <2>1. 0 \in Cookies /\ 0 \in Verfs /\ FALSE \in BOOLEAN
    BY CookiesNat, ReaddirAssumption DEF Verfs
  <2>2. QED
    BY <1>1, <2>1 DEF Unlisted, Listing
<1>6. Typed /\ Link
  BY <1>1, <1>2, <1>4, <1>5 DEF Typed, Link, Blank
<1>7. Paged
  BY <1>1, <1>2, <1>5 DEF Paged, OneHash, Errors, Begun, Blank
<1>8. Misses /\ Repeats
  BY <1>1, <1>3, <1>4, <1>5 DEF Misses, Repeats, MissesBounded, RepeatsBounded
<1>9. Page(rq)
  <2>1. Phase(rq) /\ Calm(rq) /\ Staged(rq) /\ Missed(rq) /\ Repeated(rq)
    BY <1>2 DEF Blank, Phase, Calm, Staged, Missed, Repeated, Reading, Begun
  <2>2. 1 - 1 + 0 <= Cardinality(Names) + 2
    BY <1>3
  <2>3. Ordered(rq)
    BY <1>2, <2>2 DEF Blank, Ordered
  <2>4. QED
    BY <2>1, <2>3 DEF Page
<1>10. QED
  BY <1>5, <1>6, <1>7, <1>8, <1>9 DEF RInv

LEMMA StepNone == RInv /\ UNCHANGED lsvars => RInv'
<1> SUFFICES ASSUME RInv, UNCHANGED lsvars PROVE RInv'
  OBVIOUS
<1>1. /\ dir' = dir /\ at' = at /\ known' = known /\ mvs' = mvs
      /\ rq' = rq /\ ls' = ls /\ seen' = seen /\ twice' = twice
      /\ stay' = stay /\ changes' = changes /\ from' = from
  BY DEF lsvars, place, history
<1>2. (Typed /\ Link /\ Paged /\ (ls.on => DotsSeen))'
  BY <1>1 DEF RInv, Typed, Link, Paged, OneHash, Errors, Begun, Verified, DotsSeen
<1>3. Missable' = Missable /\ Repeatable' = Repeatable
  BY <1>1 DEF Missable, Repeatable
<1>4. Misses' /\ Repeats'
  BY <1>1, <1>3 DEF RInv, Misses, Repeats, MissesBounded, RepeatsBounded
<1>5. (Phase(rq) /\ Calm(rq) /\ Ordered(rq) /\ Staged(rq))'
  BY <1>1 DEF RInv, Page, Phase, Calm, Ordered, Staged, Dotted, Begun
<1>6. Missed(rq)' /\ Repeated(rq)'
  <2>1. PICK t : t = rq' /\ t = rq
    BY <1>1
  <2>2. Alike(rq, t)
    BY <2>1 DEF Alike
  <2>3. QED
    BY <1>1, <1>3, <2>1, <2>2, ReadingOn, Recounted
<1>7. QED
  BY <1>2, <1>4, <1>5, <1>6 DEF RInv, Page

LEMMA Invariance == Spec => []RInv
<1>1. ASSUME RInv, [Next]_lsvars PROVE RInv'
  <2>1. ASSUME NEW room \in Rooms, StartListing(room) PROVE RInv'
    BY <1>1, <2>1, StepStart
  <2>2. ASSUME NEW proc \in {"READDIR", "READDIRPLUS"}, Ask(proc) PROVE RInv'
    BY <1>1, <2>2, StepAsk
  <2>3. CASE Receive
    BY <1>1, <2>3, StepReceive
  <2>4. CASE Resend
    BY <1>1, <2>4, StepResend
  <2>5. CASE Server
    <3>1. CASE fhandle_to_filename
      BY <1>1, <3>1, StepFhandle
    <3>2. CASE readdir
      BY <1>1, <3>2, StepReaddir
    <3>3. CASE stat
      BY <1>1, <3>3, StepStat
    <3>4. CASE plus_lstat
      BY <1>1, <3>4, StepLstat
    <3>5. CASE plus_lookup
      BY <1>1, <3>5, StepLookup
    <3>6. CASE plus_readdir
      BY <1>1, <3>6, StepPlusReaddir
    <3>7. QED
      BY <2>5, <3>1, <3>2, <3>3, <3>4, <3>5, <3>6 DEF Server
  <2>6. ASSUME NEW n \in Names, Create(n) PROVE RInv'
    BY <1>1, <2>6, StepCreate
  <2>7. ASSUME NEW n \in Names, Unlink(n) PROVE RInv'
    BY <1>1, <2>7, StepUnlink
  <2>8. ASSUME NEW p \in Paths, Rename(p) PROVE RInv'
    BY <1>1, <2>8, StepRename
  <2>11. ASSUME NEW m \in mvs, Mv(m) \/ MvLost(m) PROVE RInv'
    BY <1>1, <2>11, StepMv, StepMvLost
  <2>9. CASE UNCHANGED lsvars
    BY <1>1, <2>9, StepNone
  <2>10. QED
    BY <1>1, <2>1, <2>2, <2>3, <2>4, <2>5, <2>6, <2>7, <2>8, <2>9, <2>11 DEF Next
<1>2. QED
  BY <1>1, StartsGood, PTL DEF Spec

-----------------------------------------------------------------------------
(* The results.                                                            *)

(* Types: the cookies that a client is given, and gives back, are never    *)
(* greater than the number of names that can ever be, with the dots; an    *)
(* entry is there whenever one is looked up; and a page lists no name      *)
(* twice, in the order of its cookies.                                     *)
THEOREM TypesKept == Spec => []TypeOK
<1>1. ASSUME RInv PROVE TypeOK
  <2>1. /\ rq \in Request /\ ls \in Listing /\ dir \subseteq Names /\ at \in Paths
        /\ known \in Paths /\ mvs \subseteq Paths \X Paths
        /\ seen \subseteq Entries /\ twice \subseteq seen
    BY <1>1 DEF RInv, Typed
  <2>2. rq.cookie \in Cookies
    BY <1>1, <2>1, CookiesNat DEF RInv, Link, Listing
  <2>3. ToSet(rq.todo) \subseteq Entries
    <3>1. rq.todo \in Seq(Entries)
      BY <2>1 DEF Request
    <3>2. QED
      BY <3>1 DEF ToSet
  <2>4. rq.pc \in {"plus_lstat", "plus_lookup"} => rq.todo # <<>>
    BY <1>1 DEF RInv, Page, Phase
  <2>5. \A i, j \in DOMAIN rq.out :
            i < j => /\ rq.out[i].name < rq.out[j].name
                     /\ rq.out[i].cookie < rq.out[j].cookie
    <3>1. rq.out \in Seq([name : Entries, cookie : Nat])
      BY <2>1 DEF Request
    <3>2. DOMAIN rq.out = 1..Len(rq.out)
      BY <3>1
    <3>3. QED
      BY <1>1, <3>2 DEF RInv, Page, Ordered
  <2>6. QED
    BY <2>1, <2>2, <2>3, <2>4, <2>5 DEF TypeOK, Request, Listing
<1>2. QED
  BY <1>1, Invariance, PTL

(* A listing that has come to its end has missed, of the names that were   *)
(* there all along, at most one for each name removed while it went on,    *)
(* and two for each time that the client went over from READDIRPLUS to     *)
(* READDIR: the server keeps nothing between two pages, and a position is  *)
(* enough for that.                                                        *)
THEOREM MissesAreBounded == Spec => []MissesBounded
<1>1. RInv => MissesBounded
  BY DEF RInv, Misses
<1>2. QED
  BY <1>1, Invariance, PTL

(* It lists twice at most one name for each name that was added, and two   *)
(* for each time that the client went over from READDIR to READDIRPLUS,    *)
(* however many replies are lost and asked for again.                      *)
THEOREM RepeatsAreBounded == Spec => []RepeatsBounded
<1>1. RInv => RepeatsBounded
  BY DEF RInv, Repeats
<1>2. QED
  BY <1>1, Invariance, PTL

(* The pages of one listing come from one path, unless two paths have one  *)
(* hash or a path has the hash 0: the verifier is compared before any      *)
(* entry is read, by READDIR in the callback of readdir(3) itself.         *)
THEOREM PagesFromOnePath == Spec => []OnePath
<1>1. RInv => OnePath
  BY DEF RInv, Paged, OneHash, OnePath
<1>2. QED
  BY <1>1, Invariance, PTL

(* A page is refused with a bad cookie only if the database came to have   *)
(* another path for the directory since the listing began; and but for an  *)
(* access that fails by itself, with another error only if something was   *)
(* removed or the directory renamed while the page was being made, or the  *)
(* database had not the directory's path.                                  *)
THEOREM ErrorsAreCaused == Spec => []ErrorsHaveCause
<1>1. RInv => ErrorsHaveCause
  BY DEF RInv, Paged, Errors, ErrorsHaveCause
<1>2. QED
  BY <1>1, Invariance, PTL

=============================================================================
