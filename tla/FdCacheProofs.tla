--------------------------- MODULE FdCacheProofs ---------------------------
(***************************************************************************)
(* Theorems about FdCache, for every set of configurations, of slots and   *)
(* of objects: no descriptor is leaked or closed twice, the cache stays    *)
(* within its bound, and where the cache has room and an object one user,  *)
(* accesses are to the file that was opened and eof is truthful.           *)
(***************************************************************************)
EXTENDS FdCache, FiniteSetTheorems, SequenceTheorems, TLAPS

-----------------------------------------------------------------------------
(* The inductive invariant. *)

(* The recency list has no object twice.                                   *)
NoRepeats(s) == \A i, j \in 1..Len(s) : s[i] = s[j] => i = j
Recency(s)   == s \in Seq(Objects) /\ NoRepeats(s)

(* What the cache or a request holds is a descriptor. *)
HeldOpen == \A e \in Opens : Held(e) => heap[e].fd \in AllFds

(* A request holds one from its open on.                                   *)
Before == {"idle", "fhandle", "open", "assert", "stat", "open_fd"}
Stage(r) == /\ r.pc \in Before => r.e = None
            /\ r.pc \notin Before => r.e # None
            /\ r.pc # "idle" => r.o \in Objects /\ r.proc \in {"read", "write", "commit"}
            /\ r.off + r.count <= conf.bytes
Stages == \A c \in Calls : Stage(rq[c])

Apart == ~conf.sharing =>
    \A c, d \in Calls : c # d /\ Active(c) /\ Active(d) => rq[c].o # rq[d].o

(* The descriptor of a request is the one cached for its object.           *)
Keeps == Roomy => \A c \in Calls : rq[c].e # None => cache[rq[c].o] = rq[c].e

(* What is known of the size of a file: all there is of it, if no file     *)
(* grows by name, but for a write that is about to say so; and no more     *)
(* than there is, if none shrinks.                                         *)
Told(o)  == heap[cache[o]].size
KnowsAll == Roomy /\ "grow" \notin conf.resizes =>
    /\ \A o \in Objects : Cached(o) =>
            \/ size[o] <= Told(o)
            \/ \E c \in Calls : rq[c].pc = "write_done" /\ rq[c].o = o /\ size[o] <= End(c)
    /\ \A c \in Calls : rq[c].pc = "open_fd" => size[rq[c].o] <= rq[c].size
KnowsNoMore == Roomy /\ "shrink" \notin conf.resizes =>
    /\ \A o \in Objects : Cached(o) => Told(o) <= size[o]
    /\ \A c \in Calls : /\ rq[c].pc = "open_fd" => rq[c].size <= size[rq[c].o]
                        /\ rq[c].pc = "write_done" => End(c) <= size[rq[c].o]

IInv == /\ TypeOK /\ Recency(order) /\ HeldOpen /\ Stages /\ FdOwned
        /\ CacheBounded /\ Apart /\ Keeps /\ KnowsAll /\ KnowsNoMore

-----------------------------------------------------------------------------
(* The recency list. *)

LEMMA RemoveGood ==
    ASSUME NEW S, NEW s \in Seq(S), NoRepeats(s), NEW x
    PROVE  LET r == RemoveFirst(s, x)
           IN  /\ r \in Seq(S) /\ NoRepeats(r)
               /\ ToSet(r) = ToSet(s) \ {x}
               /\ Len(r) = IF x \in ToSet(s) THEN Len(s) - 1 ELSE Len(s)
<1>1. CASE x \notin ToSet(s)
  <2>1. ~\E i \in 1..Len(s) : s[i] = x
    BY <1>1 DEF ToSet
  <2>2. RemoveFirst(s, x) = s
    BY <2>1 DEF RemoveFirst
  <2>3. QED
    BY <1>1, <2>2
<1>2. CASE x \in ToSet(s)
  <2>1. PICK k \in 1..Len(s) : s[k] = x
    BY <1>2 DEF ToSet
  <2>2. {i \in 1..Len(s) : s[i] = x} = {k}
    BY <2>1 DEF NoRepeats
  <2>3. Min({k}) = k
    BY <2>1 DEF Min
  <2>4. SelectInSeq(s, LAMBDA v : v = x) = k
    BY <2>2, <2>3 DEF SelectInSeq
  <2>5. RemoveFirst(s, x) = SubSeq(s, 1, k - 1) \o SubSeq(s, k + 1, Len(s))
    BY <2>1, <2>4 DEF RemoveFirst, RemoveAt
  <2> DEFINE r == SubSeq(s, 1, k - 1) \o SubSeq(s, k + 1, Len(s))
  <2>6. /\ r \in Seq(S) /\ Len(r) = Len(s) - 1
        /\ \A i \in 1..Len(r) : r[i] = IF i < k THEN s[i] ELSE s[i + 1]
    <3> DEFINE a == SubSeq(s, 1, k - 1)
               b == SubSeq(s, k + 1, Len(s))
    <3>1. a \in Seq(S) /\ Len(a) = k - 1 /\ \A i \in 1..(k - 1) : a[i] = s[i]
      BY <2>1, SubSeqProperties
    <3>2. b \in Seq(S) /\ Len(b) = Len(s) - k /\ \A i \in 1..(Len(s) - k) : b[i] = s[k + i]
      BY <2>1, SubSeqProperties
    <3> HIDE DEF a, b
    <3>3. /\ a \o b \in Seq(S) /\ Len(a \o b) = Len(a) + Len(b)
          /\ \A i \in 1..Len(a) + Len(b) :
                (a \o b)[i] = IF i <= Len(a) THEN a[i] ELSE b[i - Len(a)]
      BY <3>1, <3>2, ConcatProperties, Zenon
    <3>4. r = a \o b
      BY DEF a, b
    <3> HIDE DEF r
    <3>5. r \in Seq(S) /\ Len(r) = Len(s) - 1
      <4>1. r \in Seq(S) /\ Len(r) = Len(a) + Len(b)
        BY <3>3, <3>4, Zenon
      <4>2. QED
        BY <4>1, <3>1, <3>2, <2>1
    <3>6. \A i \in 1..Len(r) : r[i] = IF i < k THEN a[i] ELSE b[i - (k - 1)]
      BY <3>1, <3>2, <3>3, <3>4, <3>5, <2>1
    <3>7. ASSUME NEW i \in k..Len(r)
          PROVE  b[i - (k - 1)] = s[i + 1]
      <4>1. i - (k - 1) \in 1..(Len(s) - k) /\ k + (i - (k - 1)) = i + 1
        BY <3>5, <2>1
      <4>2. QED
        BY <4>1, <3>2
    <3>8. QED
      BY <3>1, <3>5, <3>6, <3>7, <2>1
  <2>7. NoRepeats(r)
    <3> HIDE DEF r
    <3>1. QED
      BY <2>6, <2>1 DEF NoRepeats
  <2>8. ToSet(r) = ToSet(s) \ {x}
    <3> HIDE DEF r
    <3>1. ASSUME NEW y \in ToSet(r)
          PROVE  y \in ToSet(s) \ {x}
      BY <3>1, <2>6, <2>1 DEF ToSet, NoRepeats
    <3>2. ASSUME NEW y \in ToSet(s) \ {x}
          PROVE  y \in ToSet(r)
      <4>1. PICK j \in 1..Len(s) : s[j] = y
        BY DEF ToSet
      <4>2. CASE j < k
        BY <4>1, <4>2, <2>6, <2>1 DEF ToSet
      <4>3. CASE j > k
        <5>1. j - 1 \in 1..Len(r) /\ r[j - 1] = s[j]
          BY <4>1, <4>3, <2>6, <2>1
        <5>2. QED
          BY <5>1, <4>1, <2>6 DEF ToSet
      <4>4. QED
        BY <4>1, <4>2, <4>3, <2>1
    <3>3. QED
      BY <3>1, <3>2
  <2>9. QED
    BY <2>5, <2>6, <2>7, <2>8, <1>2
<1>3. QED
  BY <1>1, <1>2

LEMMA AppendGood ==
    ASSUME NEW S, NEW s \in Seq(S), NoRepeats(s), NEW x \in S, x \notin ToSet(s)
    PROVE  LET r == Append(s, x)
           IN  /\ r \in Seq(S) /\ NoRepeats(r)
               /\ ToSet(r) = ToSet(s) \cup {x} /\ Len(r) = Len(s) + 1
<1> DEFINE r == Append(s, x)
<1>1. /\ r \in Seq(S) /\ Len(r) = Len(s) + 1
      /\ \A i \in 1..Len(s) : r[i] = s[i] /\ s[i] # x
      /\ r[Len(r)] = x
  BY DEF ToSet
<1> HIDE DEF r
<1>2. NoRepeats(r)
  BY <1>1 DEF NoRepeats
<1>3. ToSet(r) = ToSet(s) \cup {x}
  <2>1. ASSUME NEW y \in ToSet(r) PROVE y \in ToSet(s) \cup {x}
    BY <1>1 DEF ToSet
  <2>2. ASSUME NEW y \in ToSet(s) \cup {x} PROVE y \in ToSet(r)
    BY <1>1 DEF ToSet
  <2>3. QED
    BY <2>1, <2>2
<1>4. QED
  BY <1>1, <1>2, <1>3 DEF r

(* A list without repetitions is as long as the set of what is in it. *)
LEMMA LengthIsCardinality ==
    ASSUME NEW S, NEW s \in Seq(S), NoRepeats(s)
    PROVE  IsFiniteSet(ToSet(s)) /\ Cardinality(ToSet(s)) = Len(s)
<1>1. IsFiniteSet(1..Len(s)) /\ Cardinality(1..Len(s)) = Len(s)
  <2>1. Len(s) \in Nat
    OBVIOUS
  <2>2. QED
    BY <2>1, FS_Interval
<1>2. s \in Bijection(1..Len(s), ToSet(s))
  BY DEF Bijection, Injection, Surjection, IsInjective, ToSet, NoRepeats
<1>3. QED
  BY <1>1, <1>2, FS_Bijection DEF ExistsBijection

-----------------------------------------------------------------------------
(* Numbers. *)

LEMMA MaxOfTwo ==
    ASSUME NEW a \in Int, NEW b \in Int
    PROVE  Max({a, b}) = IF a >= b THEN a ELSE b
<1> DEFINE m == IF a >= b THEN a ELSE b
<1>1. m \in {a, b} /\ (\A y \in {a, b} : m >= y)
  OBVIOUS
<1>2. \A x : x \in {a, b} /\ (\A y \in {a, b} : x >= y) => x = m
  OBVIOUS
<1> HIDE DEF m
<1>3. Max({a, b}) = m
  BY <1>1, <1>2 DEF Max
<1>4. QED
  BY <1>3 DEF m

LEMMA MinOfTwo ==
    ASSUME NEW a \in Int, NEW b \in Int
    PROVE  Min({a, b}) = IF a <= b THEN a ELSE b
<1> DEFINE m == IF a <= b THEN a ELSE b
<1>1. m \in {a, b} /\ (\A y \in {a, b} : m <= y)
  OBVIOUS
<1>2. \A x : x \in {a, b} /\ (\A y \in {a, b} : x <= y) => x = m
  OBVIOUS
<1> HIDE DEF m
<1>3. Min({a, b}) = m
  BY <1>1, <1>2 DEF Min
<1>4. QED
  BY <1>3 DEF m

LEMMA Constants ==
    /\ None \notin Objects /\ None \notin Opens
    /\ Cardinality(Objects) \in Nat /\ Cardinality(Calls) \in Nat
    /\ IsFiniteSet(Opens)
    /\ Cardinality(Opens) = Cardinality(Objects) + Cardinality(Calls)
<1>1. Cardinality(Objects) \in Nat /\ Cardinality(Calls) \in Nat
  BY CacheAssumption, FS_CardinalityType
<1>2. None \notin Objects /\ None \notin Nat
  BY CacheAssumption
<1>3. None \notin Opens
  BY <1>1, <1>2 DEF Opens
<1>4. IsFiniteSet(Opens) /\ Cardinality(Opens) = Cardinality(Objects) + Cardinality(Calls)
  <2> DEFINE n == Cardinality(Objects) + Cardinality(Calls)
  <2>1. n \in Nat
    BY <1>1
  <2> HIDE DEF n
  <2>2. IsFiniteSet(1..n) /\ Cardinality(1..n) = n
    BY <2>1, FS_Interval
  <2>3. QED
    BY <2>2 DEF Opens, n
<1>5. QED
  BY <1>1, <1>2, <1>3, <1>4

LEMMA ConfTypes ==
    ASSUME conf \in Configurations
    PROVE  /\ conf.max \in Nat \ {0} /\ conf.bytes \in Nat \ {0}
           /\ conf.sharing \in BOOLEAN /\ conf.expiry \in BOOLEAN
BY CacheAssumption DEF Configuration

-----------------------------------------------------------------------------
(* What the operations of the cache do. *)

Listed == /\ Recency(order)
          /\ ToSet(order) = {o \in Objects : Cached(o)}
          /\ Len(order) = Cardinality(ToSet(order))
          /\ stale \subseteq ToSet(order)

(* What leaves the cache is on its way to be closed.                       *)
Leaves(s)  == Cached(s) /\ cache'[s] # cache[s]
Disposed   == closing' = closing \cup {heap[cache[s]].fd : s \in {t \in Objects : Leaves(t)}}

LEMMA ListIsLong ==
    ASSUME Recency(order)
    PROVE  IsFiniteSet(ToSet(order)) /\ Cardinality(ToSet(order)) = Len(order)
BY LengthIsCardinality DEF Recency

LEMMA GetGood ==
    ASSUME TypeOK, Recency(order), NEW o \in Objects, Cached(o), get(o)
    PROVE  Listed' /\ Len(order') = Len(order) /\ Disposed
<1> DEFINE r == RemoveFirst(order, o)
<1>1. /\ r \in Seq(Objects) /\ NoRepeats(r) /\ ToSet(r) = ToSet(order) \ {o}
      /\ Len(r) = Len(order) - 1
  BY RemoveGood DEF Recency, TypeOK
<1> HIDE DEF r
<1>2. order' = Append(r, o)
  BY DEF get, r
<1>3. /\ order' \in Seq(Objects) /\ NoRepeats(order')
      /\ ToSet(order') = ToSet(r) \cup {o} /\ Len(order') = Len(r) + 1
  <2>1. o \notin ToSet(r)
    BY <1>1
  <2>2. QED
    BY <1>1, <1>2, <2>1, AppendGood
<1>4. Recency(order)' /\ ToSet(order') = ToSet(order) /\ Len(order') = Len(order)
  <2>1. o \in ToSet(order) /\ Len(order) \in Nat
    BY DEF TypeOK, Recency
  <2>2. QED
    BY <1>1, <1>3, <2>1 DEF Recency
<1>5. Listed'
  BY <1>4 DEF Listed, TypeOK, get, Cached
<1>6. QED
  BY <1>4, <1>5 DEF Disposed, Leaves, get

LEMMA DelGood ==
    ASSUME TypeOK, Recency(order), NEW o \in Objects, Cached(o), del(o)
    PROVE  Listed' /\ Len(order') <= Len(order) /\ Disposed
<1>1. /\ order' \in Seq(Objects) /\ NoRepeats(order')
      /\ ToSet(order') = ToSet(order) \ {o} /\ Len(order') = Len(order) - 1
  BY RemoveGood DEF Recency, TypeOK, del
<1>2. Recency(order)'
  BY <1>1 DEF Recency
<1>3. IsFiniteSet(ToSet(order')) /\ Cardinality(ToSet(order')) = Len(order')
  BY <1>2, LengthIsCardinality DEF Recency
<1>4. Listed'
  BY <1>1, <1>2, <1>3 DEF Listed, TypeOK, del, Cached
<1>5. Len(order) \in Nat
  BY DEF Recency
<1>6. Disposed
  BY Constants DEF Disposed, Leaves, del, TypeOK, Cached
<1>7. QED
  BY <1>1, <1>4, <1>5, <1>6

(* At most one other entry makes room, and none where there is room.       *)
LEMMA SetGood ==
    ASSUME TypeOK, Recency(order), CacheBounded, NEW o \in Objects,
           NEW e \in Opens, cache[o] # e, set(o, e), UNCHANGED conf
    PROVE  /\ Listed' /\ CacheBounded' /\ Disposed
           /\ cache' \in [Objects -> Opens \cup {None}] /\ cache'[o] = e
           /\ \A s \in Objects \ {o} : cache'[s] \in {cache[s], None}
           /\ Roomy => \A s \in Objects \ {o} : cache'[s] = cache[s]
<1> DEFINE evict == IF Cached(o) \/ Len(order) < conf.max THEN None ELSE Head(order)
           q == RemoveFirst(order, o)
           r == RemoveFirst(q, evict)
<1>1. /\ q \in Seq(Objects) /\ NoRepeats(q) /\ ToSet(q) = ToSet(order) \ {o}
      /\ Len(q) = IF Cached(o) THEN Len(order) - 1 ELSE Len(order)
  BY RemoveGood DEF Recency, TypeOK
<1>2. conf.max \in Nat \ {0} /\ Len(order) \in Nat /\ Len(order) <= conf.max
  BY ConfTypes DEF TypeOK, CacheBounded, Recency
<1>3. \/ evict = None /\ (Cached(o) \/ Len(order) < conf.max)
      \/ (evict \in ToSet(order) /\ ~Cached(o) /\ Len(order) = conf.max)
  <2>1. CASE Cached(o) \/ Len(order) < conf.max
    BY <2>1
  <2>2. CASE ~(Cached(o) \/ Len(order) < conf.max)
    <3>1. evict = order[1] /\ 1 \in 1..Len(order)
      BY <2>2, <1>2 DEF Recency
    <3>2. QED
      BY <2>2, <3>1, <1>2 DEF ToSet, Recency
  <2>3. QED
    BY <2>1, <2>2
<1>4. evict # o
  BY <1>3, Constants DEF TypeOK
<1>5. set(o, e) <=> /\ cache' = [s \in Objects |-> CASE s = o     -> e
                                                  [] s = evict -> None
                                                  [] OTHER     -> cache[s]]
                    /\ order' = Append(r, o)
                    /\ stale' = stale \ {evict, o}
                    /\ closing' = closing \cup FdsOf({evict, o})
  BY DEF set
<1> HIDE DEF evict, q
<1>6. /\ r \in Seq(Objects) /\ NoRepeats(r) /\ ToSet(r) = ToSet(q) \ {evict}
      /\ Len(r) = IF evict \in ToSet(q) THEN Len(q) - 1 ELSE Len(q)
  BY <1>1, RemoveGood
<1> HIDE DEF r
<1>7. /\ order' \in Seq(Objects) /\ NoRepeats(order')
      /\ ToSet(order') = ToSet(r) \cup {o} /\ Len(order') = Len(r) + 1
  <2>1. order' = Append(r, o)
    BY <1>5
  <2>2. o \notin ToSet(r)
    BY <1>1, <1>6
  <2>3. QED
    BY <1>6, <2>1, <2>2, AppendGood
<1>8. Recency(order)'
  BY <1>7 DEF Recency
<1>9. Len(order') <= conf.max
  <2>1. CASE evict = None
    <3>1. None \notin ToSet(q)
      BY <1>1, Constants DEF TypeOK
    <3>2. Cached(o) \/ Len(order) < conf.max
      <4>1. None \notin ToSet(order)
        BY Constants DEF TypeOK
      <4>2. QED
        BY <2>1, <4>1, <1>3
    <3>3. QED
      BY <2>1, <3>1, <3>2, <1>1, <1>2, <1>6, <1>7
  <2>2. CASE evict # None
    BY <2>2, <1>1, <1>2, <1>3, <1>4, <1>6, <1>7
  <2>3. QED
    BY <2>1, <2>2
<1>10. /\ cache' \in [Objects -> Opens \cup {None}] /\ cache'[o] = e
       /\ \A s \in Objects \ {o} : cache'[s] = IF s = evict THEN None ELSE cache[s]
  <2>1. cache' = [s \in Objects |-> CASE s = o     -> e
                                     [] s = evict -> None
                                     [] OTHER     -> cache[s]]
    BY <1>5
  <2>2. \A s \in Objects : cache'[s] = IF s = o THEN e ELSE IF s = evict THEN None ELSE cache[s]
    BY <2>1, <1>4
  <2>3. DOMAIN cache' = Objects /\ cache' = [s \in Objects |-> cache'[s]]
    BY <2>1
  <2>4. \A s \in Objects : cache'[s] \in Opens \cup {None}
    BY <2>2 DEF TypeOK
  <2>5. QED
    BY <2>2, <2>3, <2>4
<1>11. Listed'
  <2>1. ToSet(order') = (ToSet(order) \ {evict}) \cup {o}
    BY <1>1, <1>4, <1>6, <1>7
  <2>2. ToSet(order') = {s \in Objects : Cached(s)}'
    BY <2>1, <1>4, <1>10, Constants DEF TypeOK, Cached
  <2>3. Cardinality(ToSet(order')) = Len(order')
    BY <1>7, LengthIsCardinality
  <2>4. stale' \subseteq ToSet(order')
    BY <2>1, <1>5 DEF TypeOK
  <2>5. QED
    BY <1>8, <2>2, <2>3, <2>4 DEF Listed
<1>12. Disposed
  <2>1. {t \in Objects : Leaves(t)} = {s \in Objects : s \in {evict, o} /\ Cached(s)}
    BY <1>4, <1>10 DEF Leaves, Cached
  <2>2. QED
    BY <2>1, <1>5 DEF Disposed, FdsOf
<1>13. Roomy => \A s \in Objects \ {o} : cache'[s] = cache[s]
  <2>1. SUFFICES ASSUME Roomy, evict # None PROVE FALSE
    BY <1>10, Constants
  <2>2. ToSet(order) \subseteq Objects \ {o}
    BY <2>1, <1>3 DEF TypeOK
  <2>3. IsFiniteSet(Objects \ {o}) /\ Cardinality(Objects \ {o}) = Cardinality(Objects) - 1
    BY CacheAssumption, FS_RemoveElement
  <2>4. Cardinality(ToSet(order)) <= Cardinality(Objects) - 1
    BY <2>2, <2>3, FS_Subset
  <2>5. QED
    BY <2>1, <2>4, <1>2, <1>3, Constants DEF Roomy, TypeOK
<1>14. QED
  BY <1>9, <1>10, <1>11, <1>12, <1>13 DEF CacheBounded

-----------------------------------------------------------------------------
(* What a step of one request keeps of the others. *)

LEMMA IdleGood ==
    ASSUME conf \in Configurations
    PROVE  Idle \in RqState /\ Stage(Idle)
BY ConfTypes DEF Idle, RqState, Stage, Before

Pcs == Before \cup {"read", "read_done", "write", "write_done", "commit"}

LEMMA UseGood ==
    ASSUME NEW r \in RqState, NEW pc \in Pcs, NEW e \in Opens \cup {None},
           NEW s \in 0..conf.bytes
    PROVE  [r EXCEPT !.pc = pc, !.e = e, !.size = s] \in RqState
<1> DEFINE B == 0..conf.bytes
<1>1. B = 0..conf.bytes
  OBVIOUS
<1> HIDE DEF B
<1>2. QED
  BY <1>1 DEF RqState, Pcs, Before

LEMMA StartGood ==
    ASSUME NEW proc \in {"read", "write", "commit"}, NEW o \in Objects,
           NEW off \in 0..conf.bytes, NEW count \in 0..conf.bytes, 0 \in 0..conf.bytes
    PROVE  /\ [Idle EXCEPT !.proc = proc, !.o = o, !.off = off, !.count = count] \in RqState
           /\ [Idle EXCEPT !.proc = proc, !.o = o] \in RqState
<1> DEFINE B == 0..conf.bytes
<1>1. B = 0..conf.bytes
  OBVIOUS
<1> HIDE DEF B
<1>2. QED
  BY <1>1 DEF RqState, Idle

LEMMA RequestsGood ==
    ASSUME TypeOK, Stages, UNCHANGED conf, NEW c \in Calls, NEW r \in RqState,
           Stage(r), Set(c, r)
    PROVE  /\ rq' \in [Calls -> RqState] /\ RqState' = RqState /\ Stages'
           /\ rq'[c] = r /\ \A d \in Calls \ {c} : rq'[d] = rq[d]
<1>1. /\ rq' \in [Calls -> RqState] /\ rq'[c] = r
      /\ \A d \in Calls \ {c} : rq'[d] = rq[d]
  BY DEF TypeOK, Set
<1>2. RqState' = RqState
  BY DEF RqState
<1>3. Stages'
  BY <1>1 DEF Stages, Stage
<1>4. QED
  BY <1>1, <1>2, <1>3

LEMMA ApartKept ==
    ASSUME TypeOK, Apart, UNCHANGED conf, NEW c \in Calls, NEW r, Set(c, r),
           r.pc = "idle" \/ (Active(c) /\ r.o = rq[c].o)
    PROVE  Apart'
<1>1. rq'[c] = r /\ \A d \in Calls \ {c} : rq'[d] = rq[d]
  BY DEF TypeOK, Set
<1>2. QED
  BY <1>1 DEF Apart, Active

(* A step that opens and closes nothing.                                   *)
Steps(c, r) ==
    /\ conf' = conf /\ Set(c, r) /\ r \in RqState /\ Stage(r)
    /\ table' = table
    /\ size' \in [Objects -> 0..conf.bytes]
    /\ heap' \in [Opens -> [fd : AllFds \cup {None}, size : 0..conf.bytes]]
    /\ \A e \in Opens : Held(e)' => heap'[e].fd = heap[e].fd
    /\ cache' \in [Objects -> Opens \cup {None}]
    /\ \A o \in Objects : cache'[o] # cache[o] =>
            cache'[o] = None /\ Active(c) /\ o = rq[c].o
    /\ Listed' /\ CacheBounded' /\ Disposed
    /\ r.e # None => r.e = rq[c].e \/ \E o \in Objects : r.e = cache[o]
    /\ Roomy /\ r.e # None => cache'[r.o] = r.e

LEMMA HeldBefore ==
    ASSUME TypeOK, NEW c \in Calls, NEW r, Steps(c, r), NEW e \in Opens, Held(e)'
    PROVE  Held(e)
<1>1. rq'[c] = r /\ \A d \in Calls \ {c} : rq'[d] = rq[d]
  BY DEF TypeOK, Set, Steps
<1>2. CASE \E o \in Objects : cache'[o] = e
  BY <1>2, Constants DEF Steps, Held
<1>3. CASE \E d \in Calls : rq'[d].e = e
  BY <1>1, <1>3, Constants DEF Steps, Held
<1>4. QED
  BY <1>2, <1>3 DEF Held

LEMMA OwnedKept ==
    ASSUME TypeOK, FdOwned, HeldOpen, NEW c \in Calls, NEW r, Steps(c, r)
    PROVE  FdOwned'
<1>1. \A o \in Objects : cache'[o] # None => cache'[o] = cache[o] /\ cache[o] \in Opens
  BY DEF Steps, TypeOK
<1>2. \A o \in Objects : Cached(o)' => heap'[cache'[o]].fd = heap[cache[o]].fd
  BY <1>1 DEF Steps, Cached, Held
<1>3. \A o \in Objects : Cached(o) => heap[cache[o]].fd \in AllFds
  BY DEF HeldOpen, Held, Cached, TypeOK
<1>4. \A f : f \in closing' <=>
          f \in closing \/ \E s \in Objects : Leaves(s) /\ f = heap[cache[s]].fd
  BY DEF Steps, Disposed
<1>5. \A o \in Objects : Cached(o)' =>
          LET f == heap'[cache'[o]].fd IN table'[f] = o /\ f \notin closing'
  <2>1. SUFFICES ASSUME NEW o \in Objects, Cached(o)'
                 PROVE  table[heap[cache[o]].fd] = o /\ heap[cache[o]].fd \notin closing'
    BY <1>2 DEF Steps
  <2>2. Cached(o) /\ ~Leaves(o)
    BY <2>1, <1>1 DEF Cached, Leaves
  <2>3. \A s \in Objects : Leaves(s) => table[heap[cache[s]].fd] = s
    BY DEF FdOwned, Leaves
  <2>4. QED
    BY <2>2, <2>3, <1>4 DEF FdOwned
<1>6. \A f \in closing' : table'[f] # None
  BY <1>4, Constants DEF FdOwned, Leaves, Steps
<1>7. \A f \in AllFds : table'[f] # None =>
          f \in closing' \/ (\E o \in Objects : Cached(o)' /\ heap'[cache'[o]].fd = f)
  <2>1. SUFFICES ASSUME NEW f \in AllFds, table[f] # None, f \notin closing'
                 PROVE  \E o \in Objects : Cached(o)' /\ heap'[cache'[o]].fd = f
    BY DEF Steps
  <2>2. PICK o \in Objects : Cached(o) /\ heap[cache[o]].fd = f
    BY <2>1, <1>4 DEF FdOwned
  <2>3. ~Leaves(o)
    BY <2>1, <2>2, <1>4
  <2>4. Cached(o)'
    BY <2>2, <2>3 DEF Leaves, Cached
  <2>5. QED
    BY <2>2, <2>4, <1>2
<1>8. QED
  BY <1>5, <1>6, <1>7 DEF FdOwned

(* All of the invariant but what is known of sizes.                        *)
LEMMA StepsKeep ==
    ASSUME IInv, NEW c \in Calls, NEW r, Steps(c, r)
    PROVE  TypeOK' /\ Recency(order)' /\ HeldOpen' /\ Stages' /\ FdOwned' /\ Keeps'
<1>1. /\ rq' \in [Calls -> RqState] /\ RqState' = RqState /\ Stages'
      /\ rq'[c] = r /\ \A d \in Calls \ {c} : rq'[d] = rq[d]
  BY RequestsGood DEF IInv, Steps
<1>2. HeldOpen'
  <2>1. \A e \in Opens : Held(e)' => Held(e)
    BY HeldBefore DEF IInv
  <2>2. QED
    BY <2>1 DEF IInv, HeldOpen, Steps
<1>3. closing' \subseteq AllFds
  <2>1. \A s \in Objects : Cached(s) => heap[cache[s]].fd \in AllFds
    BY DEF IInv, HeldOpen, TypeOK, Cached, Held
  <2>2. QED
    BY <2>1 DEF IInv, TypeOK, Steps, Disposed, Leaves
<1>4. TypeOK'
  BY <1>1, <1>3 DEF IInv, TypeOK, Steps, Listed
<1>5. Keeps'
  <2>1. SUFFICES ASSUME Roomy, NEW d \in Calls, rq'[d].e # None
                 PROVE  cache'[rq'[d].o] = rq'[d].e
    BY DEF Keeps, Roomy, Steps
  <2>2. CASE d = c
    BY <2>1, <2>2, <1>1 DEF Steps
  <2>3. CASE d # c
    <3>1. rq'[d] = rq[d] /\ Active(d) /\ rq[d].o \in Objects
      BY <2>1, <2>3, <1>1 DEF IInv, Stages, Stage, Active, Before
    <3>2. ~(Active(c) /\ rq[d].o = rq[c].o)
      BY <2>1, <2>3, <3>1 DEF IInv, Apart, Roomy
    <3>3. QED
      BY <2>1, <3>1, <3>2 DEF IInv, Keeps, Steps
  <2>4. QED
    BY <2>2, <2>3
<1>6. QED
  BY <1>1, <1>2, <1>4, <1>5, OwnedKept DEF IInv, Steps, Listed

LEMMA KnowsKept ==
    ASSUME IInv, NEW c \in Calls, NEW r, Steps(c, r), UNCHANGED size,
           \A e \in Opens : Held(e)' => heap'[e] = heap[e],
           rq[c].pc # "write_done", r.pc # "write_done",
           r.pc = "open_fd" => r.o \in Objects /\ r.size = size[r.o]
    PROVE  KnowsAll' /\ KnowsNoMore'
<1>1. rq'[c] = r /\ \A d \in Calls \ {c} : rq'[d] = rq[d]
  BY DEF IInv, TypeOK, Set, Steps
<1>2. \A o \in Objects : Cached(o)' =>
          Cached(o) /\ heap'[cache'[o]] = heap[cache[o]]
  BY DEF Steps, Cached, Held, IInv, TypeOK
<1>3. conf' = conf /\ (\A o \in Objects : size[o] \in Nat)
  BY ConfTypes DEF Steps, IInv, TypeOK
<1>4. KnowsAll'
  <2>1. SUFFICES ASSUME Roomy, "grow" \notin conf.resizes
                 PROVE  /\ \A o \in Objects : Cached(o)' =>
                              \/ size[o] <= Told(o)'
                              \/ \E d \in Calls : /\ rq'[d].pc = "write_done"
                                                 /\ rq'[d].o = o /\ size[o] <= End(d)'
                        /\ \A d \in Calls : rq'[d].pc = "open_fd" =>
                              size[rq'[d].o] <= rq'[d].size
    BY <1>3 DEF KnowsAll, Roomy
  <2>2. \A o \in Objects : Cached(o)' => Cached(o) /\ Told(o)' = Told(o)
    BY <1>2 DEF Told
  <2>3. \A d \in Calls : rq[d].pc = "write_done" => rq'[d] = rq[d] /\ End(d)' = End(d)
    BY <1>1 DEF End
  <2>4. \A d \in Calls : rq'[d].pc = "open_fd" =>
            rq'[d] = rq[d] \/ size[rq'[d].o] <= rq'[d].size
    BY <1>1, <1>3
  <2>5. QED
    BY <2>1, <2>2, <2>3, <2>4 DEF IInv, KnowsAll
<1>5. KnowsNoMore'
  <2>1. SUFFICES ASSUME Roomy, "shrink" \notin conf.resizes
                 PROVE  /\ \A o \in Objects : Cached(o)' => Told(o)' <= size[o]
                        /\ \A d \in Calls :
                              /\ rq'[d].pc = "open_fd" => rq'[d].size <= size[rq'[d].o]
                              /\ rq'[d].pc = "write_done" => End(d)' <= size[rq'[d].o]
    BY <1>3 DEF KnowsNoMore, Roomy
  <2>2. \A o \in Objects : Cached(o)' => Cached(o) /\ Told(o)' = Told(o)
    BY <1>2 DEF Told
  <2>3. \A d \in Calls : rq'[d].pc \in {"open_fd", "write_done"} =>
            \/ rq'[d] = rq[d] /\ End(d)' = End(d)
            \/ rq'[d].pc = "open_fd" /\ rq'[d].size <= size[rq'[d].o]
    BY <1>1, <1>3 DEF End
  <2>4. QED
    BY <2>1, <2>2, <2>3 DEF IInv, KnowsNoMore
<1>6. QED
  BY <1>4, <1>5

(* A step that leaves the cache alone, too.                                *)
LEMMA QuietSteps ==
    ASSUME IInv, UNCHANGED conf, NEW c \in Calls, NEW r \in RqState, Stage(r),
           Set(c, r), UNCHANGED <<table, cachevars>>,
           size' \in [Objects -> 0..conf.bytes],
           heap' \in [Opens -> [fd : AllFds \cup {None}, size : 0..conf.bytes]],
           \A e \in Opens : Held(e)' => heap'[e].fd = heap[e].fd,
           r.e # None => r.e = rq[c].e /\ r.o = rq[c].o
    PROVE  Steps(c, r)
<1>1. UNCHANGED <<cache, order, stale, closing>>
  BY DEF cachevars
<1>2. Listed'
  BY <1>1 DEF IInv, TypeOK, Listed, Recency, Cached
<1>3. Disposed /\ CacheBounded'
  BY <1>1 DEF Disposed, Leaves, IInv, CacheBounded
<1>4. Roomy /\ r.e # None => cache'[r.o] = r.e
  BY <1>1 DEF IInv, Keeps
<1>5. QED
  BY <1>1, <1>2, <1>3, <1>4 DEF Steps, IInv, TypeOK

LEMMA HeapGood ==
    ASSUME NEW h \in [Opens -> [fd : AllFds \cup {None}, size : 0..conf.bytes]],
           conf \in Configurations, Heap(h)
    PROVE  /\ heap' \in [Opens -> [fd : AllFds \cup {None}, size : 0..conf.bytes]]
           /\ \A e \in Opens : Held(e)' => heap'[e] = h[e]
<1>1. Nothing \in [fd : AllFds \cup {None}, size : 0..conf.bytes]
  BY ConfTypes DEF Nothing
<1>2. QED
  BY <1>1 DEF Heap

(* The simplest steps: of the request's own locals, and of what it held.   *)
LEMMA LocalKeeps ==
    ASSUME IInv, UNCHANGED conf, NEW c \in Calls, NEW r \in RqState, Stage(r),
           Set(c, r), UNCHANGED <<size, table, cachevars>>,
           UNCHANGED heap \/ Heap(heap),
           r.e # None => r.e = rq[c].e,
           r.pc = "idle" \/ (Active(c) /\ r.o = rq[c].o),
           rq[c].pc # "write_done", r.pc # "write_done",
           r.pc = "open_fd" => r.o \in Objects /\ r.size = size[r.o]
    PROVE  IInv'
<1>1. /\ heap' \in [Opens -> [fd : AllFds \cup {None}, size : 0..conf.bytes]]
      /\ \A e \in Opens : Held(e)' => heap'[e] = heap[e]
  BY HeapGood DEF IInv, TypeOK
<1>2. r.pc = "idle" => r.e = None
  BY DEF Stage, Before
<1>3. Steps(c, r)
  BY <1>1, <1>2, QuietSteps DEF IInv, TypeOK
<1>4. KnowsAll' /\ KnowsNoMore'
  BY <1>1, <1>3, KnowsKept
<1>5. Apart'
  BY ApartKept DEF IInv
<1>6. QED
  BY <1>3, <1>4, <1>5, StepsKeep DEF IInv, Steps

-----------------------------------------------------------------------------
(* Each action keeps the invariant. *)

LEMMA RequestKeeps ==
    ASSUME IInv, UNCHANGED conf, NEW c \in Calls, NEW r \in RqState, Request(c, r),
           r.e = None, r.o \in Objects, r.proc \in {"read", "write", "commit"},
           r.off + r.count <= conf.bytes
    PROVE  IInv'
<1> DEFINE s == [r EXCEPT !.pc = "fhandle"]
<1>1. s \in RqState /\ Stage(s)
  BY DEF RqState, Stage, Before
<1>2. Set(c, s) /\ UNCHANGED <<size, table, heap, cachevars>> /\ rq[c].pc = "idle"
  BY DEF Request, Active
<1>3. s.e = None /\ s.pc = "fhandle" /\ s.o = r.o
  BY DEF RqState
<1> HIDE DEF s
<1>4. Steps(c, s)
  BY <1>1, <1>2, <1>3, QuietSteps DEF IInv, TypeOK
<1>5. KnowsAll' /\ KnowsNoMore'
  BY <1>2, <1>3, <1>4, KnowsKept
<1>6. Apart'
  <2>1. rq'[c] = s /\ \A d \in Calls \ {c} : rq'[d] = rq[d]
    BY <1>2 DEF IInv, TypeOK, Set
  <2>2. conf.sharing \/ \A d \in Calls : Active(d) => rq[d].o # s.o
    BY <1>3 DEF Request
  <2>3. QED
    BY <2>1, <2>2 DEF IInv, Apart, Active
<1>7. QED
  BY <1>4, <1>5, <1>6, StepsKeep DEF IInv, Steps

LEMMA AccessKeeps ==
    ASSUME IInv, UNCHANGED conf, NEW c \in Calls, NEW o \in Objects,
           \/ \E off \in 0..conf.bytes, count \in 1..conf.bytes :
                READ(c, o, off, count) \/ WRITE(c, o, off, count)
           \/ COMMIT(c, o)
    PROVE  IInv'
<1> DEFINE procs == {"read", "write", "commit"}
<1>0. 0 \in 0..conf.bytes /\ 0 + 0 <= conf.bytes
  BY ConfTypes DEF IInv, TypeOK
<1>1. ASSUME NEW off \in 0..conf.bytes, NEW count \in 0..conf.bytes,
             off + count <= conf.bytes, NEW proc \in procs,
             Request(c, [Idle EXCEPT !.proc = proc, !.o = o, !.off = off, !.count = count])
      PROVE  IInv'
  <2> DEFINE r == [Idle EXCEPT !.proc = proc, !.o = o, !.off = off, !.count = count]
  <2>1. r.e = None /\ r.o = o /\ r.proc = proc /\ r.off = off /\ r.count = count
    BY DEF Idle
  <2>2. r \in RqState
    BY <1>0, StartGood
  <2>3. Request(c, r)
    BY <1>1
  <2> HIDE DEF r
  <2>4. QED
    BY <1>1, <2>1, <2>2, <2>3, RequestKeeps
<1>2. CASE COMMIT(c, o)
  <2> DEFINE r == [Idle EXCEPT !.proc = "commit", !.o = o]
  <2>1. r.e = None /\ r.o = o /\ r.proc = "commit" /\ r.off = 0 /\ r.count = 0
    BY DEF Idle
  <2>2. r \in RqState
    BY <1>0, StartGood
  <2>3. Request(c, r)
    BY <1>2 DEF COMMIT
  <2> HIDE DEF r
  <2>4. QED
    BY <1>0, <2>1, <2>2, <2>3, RequestKeeps
<1>3. ASSUME NEW off \in 0..conf.bytes, NEW count \in 1..conf.bytes,
             READ(c, o, off, count) \/ WRITE(c, o, off, count)
      PROVE  IInv'
  <2>1. count \in 0..conf.bytes
    BY ConfTypes DEF IInv, TypeOK
  <2>2. QED
    BY <1>1, <1>3, <2>1 DEF READ, WRITE
<1>4. QED
  BY <1>2, <1>3

LEMMA ReplyKeeps ==
    ASSUME IInv, UNCHANGED conf, NEW c \in Calls, Set(c, Idle),
           UNCHANGED <<size, table, cachevars>>, UNCHANGED heap \/ Heap(heap),
           rq[c].pc # "write_done"
    PROVE  IInv'
<1>1. Idle \in RqState /\ Stage(Idle) /\ Idle.pc = "idle" /\ Idle.e = None
  BY IdleGood DEF IInv, TypeOK, Idle
<1> HIDE DEF Idle
<1>2. QED
  BY <1>1, LocalKeeps

LEMMA FhandleKeeps ==
    ASSUME IInv, UNCHANGED conf, NEW c \in Calls, fhandle_to_filename(c)
    PROVE  IInv'
<1> DEFINE r == [rq[c] EXCEPT !.pc = "open"]
<1>1. /\ r \in RqState /\ Stage(r) /\ r.pc = "open" /\ r.o = rq[c].o /\ r.e = None
      /\ Active(c)
  BY DEF IInv, TypeOK, Stages, Stage, RqState, Before, fhandle_to_filename, Active
<1>2. Set(c, r) \/ Set(c, Idle)
  BY DEF fhandle_to_filename, Goto, Error
<1>3. UNCHANGED <<size, table, cachevars>> /\ UNCHANGED heap /\ rq[c].pc = "fhandle"
  BY DEF fhandle_to_filename
<1> HIDE DEF r
<1>4. QED
  BY <1>1, <1>2, <1>3, LocalKeeps, ReplyKeeps

LEMMA CommitKeeps ==
    ASSUME IInv, UNCHANGED conf, NEW c \in Calls, commit(c)
    PROVE  IInv'
BY ReplyKeeps DEF commit, Reply

(* The cached object is the request's own from here on.                    *)
LEMMA OpenKeeps ==
    ASSUME IInv, UNCHANGED conf, NEW c \in Calls, open(c)
    PROVE  IInv'
<1> DEFINE o == rq[c].o
<1>1. /\ rq[c] \in RqState /\ Stage(rq[c]) /\ rq[c].pc = "open" /\ Active(c)
      /\ o \in Objects /\ rq[c].e = None /\ rq[c].proc \in {"read", "write", "commit"}
  BY DEF IInv, TypeOK, Stages, Stage, RqState, Before, open, Active
<1>2. /\ UNCHANGED <<size, table>>
      /\ heap' \in [Opens -> [fd : AllFds \cup {None}, size : 0..conf.bytes]]
      /\ \A e \in Opens : Held(e)' => heap'[e] = heap[e]
  BY HeapGood DEF IInv, TypeOK, open
<1>3. CASE Has(o) /\ get(o) /\ Use(c, cache[o])
  <2> DEFINE r == [rq[c] EXCEPT !.pc = rq[c].proc, !.e = cache[o], !.size = 0]
  <2>1. cache[o] \in Opens /\ cache[o] # None
    BY <1>1, <1>3 DEF Has, Cached, IInv, TypeOK
  <2>2. /\ r \in RqState /\ Stage(r) /\ r.pc = rq[c].proc /\ r.e = cache[o] /\ r.o = o
        /\ Set(c, r)
    <3>1. 0 \in 0..conf.bytes /\ rq[c].proc \in Pcs
      BY <1>1, ConfTypes DEF IInv, TypeOK, Pcs
    <3>2. /\ r.pc = rq[c].proc /\ r.e = cache[o] /\ r.o = o /\ r.size = 0
          /\ r.proc = rq[c].proc /\ r.off = rq[c].off /\ r.count = rq[c].count
      BY <1>1 DEF RqState
    <3>3. r \in RqState
      BY <1>1, <2>1, <3>1, UseGood
    <3>4. Stage(r)
      BY <1>1, <2>1, <3>2 DEF Stage, Before
    <3>5. QED
      BY <1>3, <3>2, <3>3, <3>4 DEF Use
  <2> HIDE DEF r
  <2>3. Listed' /\ Len(order') = Len(order) /\ Disposed /\ UNCHANGED <<cache, stale, closing>>
    BY <1>1, <1>3, GetGood DEF Has, IInv, get
  <2>4. Steps(c, r)
    BY <1>1, <1>2, <2>1, <2>2, <2>3 DEF Steps, IInv, TypeOK, CacheBounded
  <2>5. KnowsAll' /\ KnowsNoMore'
    BY <1>1, <1>2, <2>2, <2>4, KnowsKept
  <2>6. Apart'
    BY <1>1, <2>2, ApartKept DEF IInv
  <2>7. QED
    BY <2>4, <2>5, <2>6, StepsKeep DEF IInv, Steps
<1>4. CASE Has(o) /\ del(o) /\ Goto(c, "assert")
  <2> DEFINE r == [rq[c] EXCEPT !.pc = "assert"]
  <2>1. /\ r \in RqState /\ Stage(r) /\ r.pc = "assert" /\ r.e = None /\ r.o = o
        /\ Set(c, r)
    BY <1>1, <1>4 DEF RqState, Stage, Before, Goto
  <2> HIDE DEF r
  <2>2. Listed' /\ Len(order') <= Len(order) /\ Disposed /\ cache' = [cache EXCEPT ![o] = None]
    BY <1>1, <1>4, DelGood DEF Has, IInv, del
  <2>3. CacheBounded'
    <3>1. Len(order) \in Nat /\ Len(order') \in Nat /\ conf.max \in Nat
      BY <2>2, ConfTypes DEF IInv, TypeOK, Listed, Recency
    <3>2. QED
      BY <2>2, <3>1 DEF IInv, CacheBounded
  <2>4. Steps(c, r)
    BY <1>1, <1>2, <2>1, <2>2, <2>3 DEF Steps, IInv, TypeOK
  <2>5. KnowsAll' /\ KnowsNoMore'
    BY <1>1, <1>2, <2>1, <2>4, KnowsKept
  <2>6. Apart'
    BY <1>1, <2>1, ApartKept DEF IInv
  <2>7. QED
    BY <2>4, <2>5, <2>6, StepsKeep DEF IInv, Steps
<1>5. CASE Goto(c, "stat") /\ UNCHANGED cachevars
  <2> DEFINE r == [rq[c] EXCEPT !.pc = "stat"]
  <2>1. /\ r \in RqState /\ Stage(r) /\ r.pc = "stat" /\ r.e = None /\ r.o = o
        /\ Set(c, r)
    BY <1>1, <1>5 DEF RqState, Stage, Before, Goto
  <2> HIDE DEF r
  <2>2. QED
    BY <1>1, <1>2, <1>5, <2>1, LocalKeeps DEF open
<1>6. QED
  BY <1>3, <1>4, <1>5 DEF open

LEMMA StatKeeps ==
    ASSUME IInv, UNCHANGED conf, NEW c \in Calls, open_stat(c)
    PROVE  IInv'
<1>1. CASE Set(c, [rq[c] EXCEPT !.pc = "open_fd", !.size = size[rq[c].o]])
  <2> DEFINE r == [rq[c] EXCEPT !.pc = "open_fd", !.size = size[rq[c].o]]
  <2>1. /\ rq[c] \in RqState /\ Stage(rq[c]) /\ rq[c].pc = "stat" /\ Active(c)
        /\ rq[c].o \in Objects /\ rq[c].e = None
    BY DEF IInv, TypeOK, Stages, Stage, Before, open_stat, Active
  <2>2. size[rq[c].o] \in 0..conf.bytes /\ "open_fd" \in Pcs /\ rq[c].e \in Opens \cup {None}
    BY <2>1 DEF IInv, TypeOK, Pcs, Before
  <2>3. r = [rq[c] EXCEPT !.pc = "open_fd", !.e = rq[c].e, !.size = size[rq[c].o]]
    BY <2>1 DEF RqState
  <2>4. r \in RqState
    BY <2>1, <2>2, <2>3, UseGood
  <2>5. /\ r.pc = "open_fd" /\ r.o = rq[c].o /\ r.e = None /\ r.size = size[rq[c].o]
        /\ r.proc = rq[c].proc /\ r.off = rq[c].off /\ r.count = rq[c].count
    BY <2>1 DEF RqState
  <2>6. Set(c, r)
    BY <1>1
  <2> HIDE DEF r
  <2>7. Stage(r)
    BY <2>1, <2>5 DEF Stage, Before
  <2>8. QED
    BY <2>1, <2>4, <2>5, <2>6, <2>7, LocalKeeps DEF open_stat
<1>2. CASE Error(c)
  BY <1>2, ReplyKeeps DEF open_stat, Error
<1>3. QED
  BY <1>1, <1>2 DEF open_stat

(* The file that an open descriptor stands for.                            *)
LEMMA FileIsAnObject ==
    ASSUME IInv, NEW c \in Calls, rq[c].e # None
    PROVE  /\ rq[c].e \in Opens /\ heap[rq[c].e].fd \in AllFds
           /\ FdOpen(c) => FileOf(c) \in Objects
           /\ Roomy => cache[rq[c].o] = rq[c].e /\ FileOf(c) = rq[c].o
<1>1. rq[c].e \in Opens /\ Held(rq[c].e)
  BY DEF IInv, TypeOK, RqState, Held
<1>2. heap[rq[c].e].fd \in AllFds
  BY <1>1 DEF IInv, HeldOpen
<1>3. FdOpen(c) => FileOf(c) \in Objects
  BY <1>2 DEF IInv, TypeOK, FdOpen, FileOf
<1>4. ASSUME Roomy
      PROVE  cache[rq[c].o] = rq[c].e /\ FileOf(c) = rq[c].o
  <2>1. cache[rq[c].o] = rq[c].e /\ rq[c].o \in Objects
    BY <1>4 DEF IInv, Keeps, Stages, Stage, Before
  <2>2. table[heap[cache[rq[c].o]].fd] = rq[c].o
    BY <2>1 DEF IInv, FdOwned, Cached
  <2>3. QED
    BY <2>1, <2>2 DEF FileOf
<1>5. QED
  BY <1>1, <1>2, <1>3, <1>4

LEMMA ReadKeeps ==
    ASSUME IInv, UNCHANGED conf, NEW c \in Calls, read(c)
    PROVE  IInv'
<1>1. /\ rq[c] \in RqState /\ Stage(rq[c]) /\ rq[c].pc = "read" /\ Active(c)
      /\ rq[c].e # None /\ rq[c].o \in Objects
  BY DEF IInv, TypeOK, Stages, Stage, Before, read, Active
<1>2. CASE Error(c)
  <2>1. UNCHANGED <<size, table, cachevars>> /\ (UNCHANGED heap \/ Heap(heap))
    BY DEF read
  <2>2. QED
    BY <1>1, <1>2, <2>1, ReplyKeeps DEF Error
<1>3. CASE FdOpen(c) /\ UNCHANGED heap
           /\ LET left == Max({0, size[FileOf(c)] - rq[c].off})
              IN  Set(c, [rq[c] EXCEPT !.pc = "read_done", !.n = Min({left, rq[c].count})])
  <2> DEFINE left == Max({0, size[FileOf(c)] - rq[c].off})
             n == Min({left, rq[c].count})
             r == [rq[c] EXCEPT !.pc = "read_done", !.n = n]
  <2>1. size[FileOf(c)] \in Nat /\ rq[c].off \in Nat /\ rq[c].count \in 0..conf.bytes
        /\ conf.bytes \in Nat
    BY <1>1, <1>3, FileIsAnObject, ConfTypes DEF IInv, TypeOK, RqState
  <2>2. left \in Nat
    BY <2>1, MaxOfTwo
  <2> HIDE DEF left
  <2>3. n \in 0..conf.bytes
    BY <2>1, <2>2, MinOfTwo
  <2> HIDE DEF n
  <2>4. r \in RqState
    <3> DEFINE B == 0..conf.bytes
    <3>1. B = 0..conf.bytes /\ n \in B
      BY <2>3
    <3> HIDE DEF B
    <3>2. QED
      BY <1>1, <3>1 DEF RqState
  <2>5. /\ r.pc = "read_done" /\ r.o = rq[c].o /\ r.e = rq[c].e
        /\ r.proc = rq[c].proc /\ r.off = rq[c].off /\ r.count = rq[c].count
    BY <1>1 DEF RqState
  <2>6. Set(c, r)
    BY <1>3 DEF n, left
  <2> HIDE DEF r
  <2>7. Stage(r)
    BY <1>1, <2>5 DEF Stage, Before
  <2>8. QED
    BY <1>1, <1>3, <2>4, <2>5, <2>6, <2>7, LocalKeeps DEF read
<1>4. QED
  BY <1>2, <1>3 DEF read

LEMMA ReadDoneKeeps ==
    ASSUME IInv, UNCHANGED conf, NEW c \in Calls, read_done(c)
    PROVE  IInv'
<1>1. /\ rq[c].pc = "read_done" /\ Active(c) /\ rq[c].o \in Objects
      /\ Set(c, Idle) /\ UNCHANGED <<size, table>> /\ Heap(heap)
  BY DEF IInv, Stages, Stage, read_done, Active, Reply
<1>2. CASE UNCHANGED cachevars
  BY <1>1, <1>2, ReplyKeeps
<1>3. CASE Has(rq[c].o) /\ del(rq[c].o)
  <2> DEFINE o == rq[c].o
  <2>1. Idle \in RqState /\ Stage(Idle) /\ Idle.pc = "idle" /\ Idle.e = None
    BY IdleGood DEF IInv, TypeOK, Idle
  <2> HIDE DEF Idle
  <2>2. /\ heap' \in [Opens -> [fd : AllFds \cup {None}, size : 0..conf.bytes]]
        /\ \A e \in Opens : Held(e)' => heap'[e] = heap[e]
    BY <1>1, HeapGood DEF IInv, TypeOK
  <2>3. Listed' /\ Len(order') <= Len(order) /\ Disposed /\ cache' = [cache EXCEPT ![o] = None]
    BY <1>1, <1>3, DelGood DEF Has, IInv, del
  <2>4. CacheBounded'
    <3>1. Len(order) \in Nat /\ Len(order') \in Nat /\ conf.max \in Nat
      BY <2>3, ConfTypes DEF IInv, TypeOK, Listed, Recency
    <3>2. QED
      BY <2>3, <3>1 DEF IInv, CacheBounded
  <2>5. Steps(c, Idle)
    BY <1>1, <2>1, <2>2, <2>3, <2>4 DEF Steps, IInv, TypeOK
  <2>6. KnowsAll' /\ KnowsNoMore'
    BY <1>1, <2>1, <2>2, <2>5, KnowsKept
  <2>7. Apart'
    BY <1>1, <2>1, ApartKept DEF IInv
  <2>8. QED
    BY <2>5, <2>6, <2>7, StepsKeep DEF IInv, Steps
<1>4. QED
  BY <1>2, <1>3 DEF read_done

(* A write grows the file it opened, and will say so.                      *)
LEMMA WriteKeeps ==
    ASSUME IInv, UNCHANGED conf, NEW c \in Calls, write(c)
    PROVE  IInv'
<1>1. /\ rq[c] \in RqState /\ Stage(rq[c]) /\ rq[c].pc = "write" /\ Active(c)
      /\ rq[c].e # None /\ rq[c].o \in Objects
  BY DEF IInv, TypeOK, Stages, Stage, Before, write, Active
<1>2. CASE Error(c) /\ Heap(heap) /\ UNCHANGED size
  <2>1. UNCHANGED <<size, table, cachevars>>
    BY <1>2 DEF write
  <2>2. QED
    BY <1>1, <1>2, <2>1, ReplyKeeps DEF Error
<1>3. CASE /\ FdOpen(c) /\ Goto(c, "write_done") /\ UNCHANGED heap
           /\ size' = [size EXCEPT ![FileOf(c)] = Max({@, End(c)})]
  <2> DEFINE r == [rq[c] EXCEPT !.pc = "write_done"]
             F == FileOf(c)
  <2>1. r \in RqState
    BY <1>1 DEF RqState
  <2>2. /\ r.pc = "write_done" /\ r.o = rq[c].o /\ r.e = rq[c].e
        /\ r.proc = rq[c].proc /\ r.off = rq[c].off /\ r.count = rq[c].count
    BY <1>1 DEF RqState
  <2>3. Set(c, r) /\ UNCHANGED <<table, cachevars, heap>>
    BY <1>3 DEF Goto, write
  <2> HIDE DEF r
  <2>4. Stage(r)
    BY <1>1, <2>2 DEF Stage, Before
  <2>5. F \in Objects /\ (Roomy => F = rq[c].o)
    BY <1>1, <1>3, FileIsAnObject
  <2>6. End(c) \in Nat /\ End(c) <= conf.bytes /\ conf.bytes \in Nat
        /\ (\A o \in Objects : size[o] \in Nat /\ size[o] <= conf.bytes)
    BY <1>1, ConfTypes DEF End, RqState, Stage, IInv, TypeOK
  <2>7. Max({size[F], End(c)}) = IF size[F] >= End(c) THEN size[F] ELSE End(c)
    BY <2>5, <2>6, MaxOfTwo
  <2> HIDE DEF F
  <2>8. size' = [size EXCEPT ![F] = IF size[F] >= End(c) THEN size[F] ELSE End(c)]
    BY <1>3, <2>7 DEF F
  <2>9. size' \in [Objects -> 0..conf.bytes]
    <3>1. (IF size[F] >= End(c) THEN size[F] ELSE End(c)) \in 0..conf.bytes
      BY <2>5, <2>6
    <3>2. QED
      BY <2>8, <3>1 DEF IInv, TypeOK
  <2>10. \A o \in Objects : size'[o] = IF o = F /\ size[o] < End(c) THEN End(c) ELSE size[o]
    BY <2>5, <2>6, <2>8 DEF IInv, TypeOK
  <2>11. Steps(c, r)
    BY <1>1, <2>1, <2>2, <2>3, <2>4, <2>9, QuietSteps DEF IInv, TypeOK
  <2>12. Apart'
    BY <1>1, <2>2, <2>3, ApartKept DEF IInv
  <2>13. /\ rq'[c] = r /\ (\A d \in Calls \ {c} : rq'[d] = rq[d]) /\ cache' = cache
         /\ rq'[c].pc = "write_done" /\ rq'[c].o = rq[c].o /\ End(c)' = End(c)
         /\ (\A d \in Calls \ {c} : End(d)' = End(d))
         /\ (\A o \in Objects : Told(o)' = Told(o) /\ Cached(o)' = Cached(o))
    BY <2>2, <2>3 DEF IInv, TypeOK, Set, cachevars, End, Told, Cached
  <2>14. Roomy => \A d \in Calls \ {c} : Active(d) => rq[d].o # F
    BY <1>1, <2>5 DEF IInv, Apart, Roomy
  <2>15. \A d \in Calls : rq[d].pc \in {"open_fd", "write_done"} =>
             d # c /\ Active(d) /\ rq[d].o \in Objects
    BY <1>1 DEF Active, IInv, Stages, Stage
  <2>16. KnowsAll'
    <3>1. SUFFICES ASSUME Roomy, "grow" \notin conf.resizes
                   PROVE  /\ \A o \in Objects : Cached(o) =>
                                \/ size'[o] <= Told(o)
                                \/ \E d \in Calls : /\ rq'[d].pc = "write_done"
                                                   /\ rq'[d].o = o /\ size'[o] <= End(d)'
                          /\ \A d \in Calls : rq'[d].pc = "open_fd" =>
                                size'[rq'[d].o] <= rq'[d].size
      BY <2>13 DEF KnowsAll, Roomy
    <3>2. ASSUME NEW o \in Objects, Cached(o)
          PROVE  \/ size'[o] <= Told(o)
                 \/ \E d \in Calls : /\ rq'[d].pc = "write_done"
                                    /\ rq'[d].o = o /\ size'[o] <= End(d)'
      <4>1. CASE o = F /\ size[o] < End(c)
        BY <4>1, <3>1, <2>5, <2>6, <2>10, <2>13
      <4>2. CASE ~(o = F /\ size[o] < End(c))
        <5>1. size'[o] = size[o]
          BY <4>2, <2>10
        <5>2. \/ size[o] <= Told(o)
              \/ \E d \in Calls : rq[d].pc = "write_done" /\ rq[d].o = o /\ size[o] <= End(d)
          BY <3>1, <3>2 DEF IInv, KnowsAll
        <5>3. QED
          BY <5>1, <5>2, <2>13, <2>15
      <4>3. QED
        BY <4>1, <4>2
    <3>3. ASSUME NEW d \in Calls, rq'[d].pc = "open_fd"
          PROVE  size'[rq'[d].o] <= rq'[d].size
      <4>1. d # c /\ rq'[d] = rq[d]
        BY <3>3, <2>13
      <4>2. rq[d].o \in Objects \ {F}
        BY <3>1, <3>3, <4>1, <2>14, <2>15
      <4>3. QED
        BY <3>1, <3>3, <4>1, <4>2, <2>10 DEF IInv, KnowsAll
    <3>4. QED
      BY <3>2, <3>3
  <2>17. KnowsNoMore'
    <3>1. SUFFICES ASSUME Roomy, "shrink" \notin conf.resizes
                   PROVE  /\ \A o \in Objects : Cached(o) => Told(o) <= size'[o]
                          /\ \A d \in Calls :
                                /\ rq'[d].pc = "open_fd" => rq'[d].size <= size'[rq'[d].o]
                                /\ rq'[d].pc = "write_done" => End(d)' <= size'[rq'[d].o]
      BY <2>13 DEF KnowsNoMore, Roomy
    <3>2. ASSUME NEW o \in Objects, Cached(o)
          PROVE  Told(o) <= size'[o]
      <4>1. Told(o) <= size[o] /\ size[o] <= size'[o] /\ size[o] \in Nat /\ size'[o] \in Nat
        BY <3>1, <3>2, <2>6, <2>10 DEF IInv, KnowsNoMore
      <4>2. Told(o) \in Nat
        BY <3>2, <2>6 DEF IInv, TypeOK, Told, Cached
      <4>3. QED
        BY <4>1, <4>2
    <3>3. ASSUME NEW d \in Calls \ {c}
          PROVE  /\ rq'[d].pc = "open_fd" => rq'[d].size <= size'[rq'[d].o]
                 /\ rq'[d].pc = "write_done" => End(d)' <= size'[rq'[d].o]
      <4>1. rq'[d] = rq[d] /\ End(d)' = End(d)
        BY <2>13
      <4>2. rq[d].pc \in {"open_fd", "write_done"} => size'[rq[d].o] = size[rq[d].o]
        BY <3>1, <2>10, <2>14, <2>15
      <4>3. QED
        BY <3>1, <4>1, <4>2 DEF IInv, KnowsNoMore
    <3>4. End(c)' <= size'[rq'[c].o]
      BY <3>1, <1>1, <2>5, <2>6, <2>10, <2>13
    <3>5. QED
      BY <3>2, <3>3, <3>4, <2>13
  <2>18. QED
    BY <2>11, <2>12, <2>16, <2>17, StepsKeep DEF IInv, Steps
<1>4. QED
  BY <1>2, <1>3 DEF write

(* Distinct entries are distinct objects, as their descriptors are.        *)
LEMMA EntriesDiffer ==
    ASSUME IInv, NEW o \in Objects, NEW p \in Objects, Cached(o), cache[p] = cache[o]
    PROVE  p = o
BY DEF IInv, FdOwned, Cached

LEMMA WriteDoneKeeps ==
    ASSUME IInv, UNCHANGED conf, NEW c \in Calls, write_done(c)
    PROVE  IInv'
<1> DEFINE e == rq[c].e
           h == [heap EXCEPT ![e].size = Max({@, End(c)})]
<1>1. /\ rq[c] \in RqState /\ Stage(rq[c]) /\ rq[c].pc = "write_done" /\ Active(c)
      /\ e # None /\ rq[c].o \in Objects /\ e \in Opens
      /\ Set(c, Idle) /\ UNCHANGED <<size, table, cachevars>> /\ Heap(h)
  BY DEF IInv, TypeOK, Stages, Stage, Before, write_done, Active, Reply, RqState
<1>2. End(c) \in Nat /\ End(c) <= conf.bytes /\ conf.bytes \in Nat
      /\ heap[e].size \in Nat /\ heap[e].size <= conf.bytes
  BY <1>1, ConfTypes DEF End, RqState, Stage, IInv, TypeOK
<1> DEFINE m == IF heap[e].size >= End(c) THEN heap[e].size ELSE End(c)
<1>3. Max({heap[e].size, End(c)}) = m /\ m \in 0..conf.bytes
  BY <1>2, MaxOfTwo
<1>4. h = [heap EXCEPT ![e].size = m]
  BY <1>1, <1>3 DEF IInv, TypeOK
<1> HIDE DEF h, m
<1>5. h \in [Opens -> [fd : AllFds \cup {None}, size : 0..conf.bytes]]
      /\ (\A x \in Opens : h[x].fd = heap[x].fd)
      /\ (\A x \in Opens : h[x].size = IF x = e THEN m ELSE heap[x].size)
  <2> DEFINE B == 0..conf.bytes
             A == AllFds \cup {None}
  <2>1. heap \in [Opens -> [fd : A, size : B]] /\ m \in B
    BY <1>3 DEF IInv, TypeOK
  <2> HIDE DEF A, B
  <2>2. h \in [Opens -> [fd : A, size : B]]
        /\ (\A x \in Opens : h[x].fd = heap[x].fd)
        /\ (\A x \in Opens : h[x].size = IF x = e THEN m ELSE heap[x].size)
    BY <1>1, <1>4, <2>1
  <2>3. QED
    BY <2>2 DEF A, B
<1>6. /\ heap' \in [Opens -> [fd : AllFds \cup {None}, size : 0..conf.bytes]]
      /\ \A x \in Opens : Held(x)' => heap'[x] = h[x]
  BY <1>1, <1>5, HeapGood DEF IInv, TypeOK
<1>7. Idle \in RqState /\ Stage(Idle) /\ Idle.pc = "idle" /\ Idle.e = None
  BY IdleGood DEF IInv, TypeOK, Idle
<1> HIDE DEF Idle
<1>8. Steps(c, Idle)
  BY <1>1, <1>5, <1>6, <1>7, QuietSteps DEF IInv, TypeOK
<1>9. Apart'
  BY <1>1, <1>7, ApartKept DEF IInv
<1>10. /\ rq'[c] = Idle /\ (\A d \in Calls \ {c} : rq'[d] = rq[d] /\ End(d)' = End(d))
       /\ cache' = cache /\ \A o \in Objects : Cached(o)' = Cached(o)
  BY <1>1 DEF IInv, TypeOK, Set, End, cachevars, Cached
<1>11. ASSUME Roomy, NEW o \in Objects, Cached(o)
       PROVE  /\ cache[o] \in Opens
              /\ Told(o)' = IF o = rq[c].o THEN m ELSE Told(o)
              /\ o = rq[c].o => Told(o) = heap[e].size
  <2>1. cache[o] \in Opens
    BY <1>11 DEF IInv, TypeOK, Cached
  <2>2. Held(cache[o])'
    BY <1>10 DEF Held
  <2>3. Told(o)' = h[cache[o]].size
    BY <1>6, <1>10, <2>1, <2>2 DEF Told
  <2>4. cache[rq[c].o] = e
    BY <1>1, <1>11 DEF IInv, Keeps
  <2>5. o # rq[c].o => cache[o] # e
    BY <1>1, <1>11, <2>4, EntriesDiffer
  <2>6. QED
    BY <1>5, <2>1, <2>3, <2>4, <2>5 DEF Told
<1>12. m \in Nat /\ m >= End(c) /\ m >= heap[e].size /\ m \in {End(c), heap[e].size}
  BY <1>2 DEF m
<1>13. \A o \in Objects : size[o] \in Nat
  BY <1>2 DEF IInv, TypeOK
<1>14. KnowsAll'
  <2>1. SUFFICES ASSUME Roomy, "grow" \notin conf.resizes
                 PROVE  /\ \A o \in Objects : Cached(o) =>
                              \/ size[o] <= Told(o)'
                              \/ \E d \in Calls : /\ rq'[d].pc = "write_done"
                                                 /\ rq'[d].o = o /\ size[o] <= End(d)'
                        /\ \A d \in Calls : rq'[d].pc = "open_fd" =>
                              size[rq'[d].o] <= rq'[d].size
    BY <1>1, <1>10 DEF KnowsAll, Roomy
  <2>2. ASSUME NEW o \in Objects, Cached(o)
        PROVE  \/ size[o] <= Told(o)'
               \/ \E d \in Calls : /\ rq'[d].pc = "write_done"
                                  /\ rq'[d].o = o /\ size[o] <= End(d)'
    <3>1. \/ size[o] <= Told(o)
          \/ \E d \in Calls : rq[d].pc = "write_done" /\ rq[d].o = o /\ size[o] <= End(d)
      BY <2>1, <2>2 DEF IInv, KnowsAll
    <3>2. CASE o = rq[c].o
      <4>1. \A d \in Calls : rq[d].pc = "write_done" /\ rq[d].o = o => d = c
        BY <2>1, <3>2, <1>1 DEF IInv, Apart, Roomy, Active
      <4>2. size[o] <= heap[e].size \/ size[o] <= End(c)
        BY <2>1, <2>2, <3>1, <3>2, <4>1, <1>11
      <4>3. QED
        BY <2>1, <2>2, <3>2, <4>2, <1>2, <1>11, <1>12, <1>13
    <3>3. CASE o # rq[c].o
      <4>1. Told(o)' = Told(o)
        BY <2>1, <2>2, <3>3, <1>11
      <4>2. \A d \in Calls : rq[d].pc = "write_done" /\ rq[d].o = o =>
                rq'[d] = rq[d] /\ End(d)' = End(d)
        BY <3>3, <1>10
      <4>3. QED
        BY <3>1, <4>1, <4>2
    <3>4. QED
      BY <3>2, <3>3
  <2>3. \A d \in Calls : rq'[d].pc = "open_fd" => size[rq'[d].o] <= rq'[d].size
    BY <2>1, <1>7, <1>10 DEF IInv, KnowsAll
  <2>4. QED
    BY <2>2, <2>3
<1>15. KnowsNoMore'
  <2>1. SUFFICES ASSUME Roomy, "shrink" \notin conf.resizes
                 PROVE  /\ \A o \in Objects : Cached(o) => Told(o)' <= size[o]
                        /\ \A d \in Calls :
                              /\ rq'[d].pc = "open_fd" => rq'[d].size <= size[rq'[d].o]
                              /\ rq'[d].pc = "write_done" => End(d)' <= size[rq'[d].o]
    BY <1>1, <1>10 DEF KnowsNoMore, Roomy
  <2>2. ASSUME NEW o \in Objects, Cached(o)
        PROVE  Told(o)' <= size[o]
    <3>1. Told(o) <= size[o] /\ End(c) <= size[rq[c].o]
      BY <2>1, <2>2, <1>1 DEF IInv, KnowsNoMore
    <3>2. QED
      BY <2>1, <2>2, <3>1, <1>11, <1>12
  <2>3. ASSUME NEW d \in Calls
        PROVE  /\ rq'[d].pc = "open_fd" => rq'[d].size <= size[rq'[d].o]
               /\ rq'[d].pc = "write_done" => End(d)' <= size[rq'[d].o]
    BY <2>1, <1>7, <1>10 DEF IInv, KnowsNoMore
  <2>4. QED
    BY <2>2, <2>3
<1>16. QED
  BY <1>8, <1>9, <1>14, <1>15, StepsKeep DEF IInv, Steps

(* There is always an object to make: the cache and the other requests     *)
(* hold fewer than there may be.                                           *)
LEMMA FreeEntry ==
    ASSUME TypeOK, NEW c \in Calls, rq[c].e = None
    PROVE  \E e \in Opens : ~Held(e)
<1> DEFINE others == Calls \ {c}
           inCache == {cache[o] : o \in Objects}
           inUse == {rq[d].e : d \in others}
           f == [o \in Objects |-> cache[o]]
           g == [d \in others |-> rq[d].e]
<1>1. IsFiniteSet(inCache) /\ Cardinality(inCache) <= Cardinality(Objects)
  <2>1. f \in Surjection(Objects, inCache)
    BY DEF Surjection
  <2>2. QED
    BY <2>1, CacheAssumption, FS_Surjection
<1>2. IsFiniteSet(others) /\ Cardinality(others) = Cardinality(Calls) - 1
  BY CacheAssumption, FS_RemoveElement
<1>3. IsFiniteSet(inUse) /\ Cardinality(inUse) <= Cardinality(others)
  <2>1. g \in Surjection(others, inUse)
    BY DEF Surjection
  <2>2. QED
    BY <2>1, <1>2, FS_Surjection
<1> HIDE DEF inCache, inUse, others
<1>4. IsFiniteSet(inCache \cup inUse) /\ Cardinality(inCache \cup inUse) < Cardinality(Opens)
  <2>1. /\ IsFiniteSet(inCache \cup inUse)
        /\ Cardinality(inCache \cup inUse) =
              Cardinality(inCache) + Cardinality(inUse) - Cardinality(inCache \cap inUse)
    BY <1>1, <1>3, FS_Union
  <2>2. IsFiniteSet(inCache \cap inUse)
    BY <1>1, FS_Subset
  <2>3. /\ Cardinality(inCache) \in Nat /\ Cardinality(inUse) \in Nat
        /\ Cardinality(inCache \cap inUse) \in Nat
    BY <1>1, <1>3, <2>2, FS_CardinalityType
  <2>4. QED
    BY <1>1, <1>2, <1>3, <2>1, <2>3, Constants
<1>5. SUFFICES ASSUME \A e \in Opens : Held(e)
               PROVE  FALSE
  OBVIOUS
<1>6. Opens \subseteq inCache \cup inUse
  BY <1>5, Constants DEF Held, inCache, inUse, others
<1>7. Cardinality(Opens) <= Cardinality(inCache \cup inUse)
  BY <1>4, <1>6, FS_Subset
<1>8. Cardinality(inCache \cup inUse) \in Nat
  BY <1>4, FS_CardinalityType
<1>9. QED
  BY <1>4, <1>7, <1>8, Constants

(* The new descriptor has no other owner, and what made room for it is     *)
(* still to be closed.                                                     *)
LEMMA OpenedKeeps ==
    ASSUME IInv, UNCHANGED <<conf, size>>, NEW c \in Calls, NEW o \in Objects,
           NEW e \in Opens, NEW f \in FreeFds,
           rq[c].pc = "open_fd", o = rq[c].o, ~Held(e),
           table' = [table EXCEPT ![f] = o], set(o, e), Use(c, e),
           Heap([heap EXCEPT ![e] = [fd |-> f, size |-> rq[c].size]])
    PROVE  IInv'
<1> DEFINE h == [heap EXCEPT ![e] = [fd |-> f, size |-> rq[c].size]]
           r == [rq[c] EXCEPT !.pc = rq[c].proc, !.e = e, !.size = 0]
<1>0. /\ rq[c] \in RqState /\ Stage(rq[c]) /\ rq[c].pc = "open_fd" /\ Active(c)
      /\ rq[c].e = None /\ o \in Objects /\ rq[c].proc \in {"read", "write", "commit"}
  BY DEF IInv, TypeOK, Stages, Stage, Before, Active
<1>2. e # None /\ cache[o] # e
  BY <1>0, Constants DEF Held
<1>3. f \in AllFds /\ table[f] = None
  BY DEF FreeFds
<1>4. size' = size /\ conf' = conf
  BY DEF open_fd
<1>5. 0 \in 0..conf.bytes /\ rq[c].proc \in Pcs /\ rq[c].size \in 0..conf.bytes
  BY <1>0, ConfTypes DEF IInv, TypeOK, Pcs, RqState
<1>6. r \in RqState /\ Set(c, r)
  BY <1>0, <1>5, UseGood DEF Use
<1>7. /\ r.pc = rq[c].proc /\ r.e = e /\ r.o = o
      /\ r.proc = rq[c].proc /\ r.off = rq[c].off /\ r.count = rq[c].count
  BY <1>0 DEF RqState
<1> HIDE DEF r
<1>8. Stage(r)
  BY <1>0, <1>2, <1>7 DEF Stage, Before
<1>9. /\ rq' \in [Calls -> RqState] /\ RqState' = RqState /\ Stages'
      /\ rq'[c] = r /\ \A d \in Calls \ {c} : rq'[d] = rq[d]
  BY <1>4, <1>6, <1>8, RequestsGood DEF IInv
<1>10. /\ Listed' /\ CacheBounded' /\ Disposed
       /\ cache' \in [Objects -> Opens \cup {None}] /\ cache'[o] = e
       /\ \A s \in Objects \ {o} : cache'[s] \in {cache[s], None}
       /\ Roomy => \A s \in Objects \ {o} : cache'[s] = cache[s]
  BY <1>0, <1>2, <1>4, SetGood DEF IInv
<1>11. /\ h \in [Opens -> [fd : AllFds \cup {None}, size : 0..conf.bytes]]
       /\ h[e].fd = f /\ h[e].size = rq[c].size
       /\ \A x \in Opens \ {e} : h[x] = heap[x]
  <2> DEFINE B == 0..conf.bytes
             A == AllFds \cup {None}
  <2>1. heap \in [Opens -> [fd : A, size : B]] /\ rq[c].size \in B /\ f \in A
    BY <1>3, <1>5 DEF IInv, TypeOK
  <2> HIDE DEF A, B
  <2>2. h \in [Opens -> [fd : A, size : B]]
        /\ h[e].fd = f /\ h[e].size = rq[c].size
        /\ \A x \in Opens \ {e} : h[x] = heap[x]
    BY <2>1
  <2>3. QED
    BY <2>2 DEF A, B
<1>12. Heap(h)
  OBVIOUS
<1> HIDE DEF h
<1>13. /\ heap' \in [Opens -> [fd : AllFds \cup {None}, size : 0..conf.bytes]]
       /\ \A x \in Opens : Held(x)' => heap'[x] = h[x]
  BY <1>11, <1>12, HeapGood DEF IInv, TypeOK
<1>14. Held(e)' /\ heap'[e].fd = f /\ heap'[e].size = rq[c].size
  <2>1. Held(e)'
    BY <1>0, <1>10 DEF Held
  <2>2. QED
    BY <2>1, <1>11, <1>13
<1>15. \A x \in Opens \ {e} : Held(x)' => Held(x) /\ heap'[x] = heap[x]
  <2>1. ASSUME NEW x \in Opens \ {e}, Held(x)'
        PROVE  Held(x)
    <3>1. CASE \E s \in Objects : cache'[s] = x
      BY <3>1, <2>1, <1>10, Constants DEF Held
    <3>2. CASE \E d \in Calls : rq'[d].e = x
      BY <3>2, <2>1, <1>7, <1>9 DEF Held
    <3>3. QED
      BY <2>1, <3>1, <3>2 DEF Held
  <2>2. QED
    BY <2>1, <1>11, <1>13
<1>16. \A s \in Objects \ {o} : Cached(s)' =>
           /\ Cached(s) /\ cache'[s] = cache[s] /\ cache[s] \in Opens \ {e}
           /\ heap'[cache'[s]] = heap[cache[s]]
  <2>1. ASSUME NEW s \in Objects \ {o}, Cached(s)'
        PROVE  /\ Cached(s) /\ cache'[s] = cache[s] /\ cache[s] \in Opens \ {e}
               /\ Held(cache[s])'
    <3>1. cache'[s] = cache[s] /\ Cached(s)
      BY <2>1, <1>10 DEF Cached
    <3>2. cache[s] # e /\ cache[s] \in Opens
      BY <3>1 DEF Held, IInv, TypeOK, Cached
    <3>3. QED
      BY <3>1, <3>2 DEF Held
  <2>2. QED
    BY <2>1, <1>15
<1>17. HeldOpen'
  BY <1>3, <1>14, <1>15 DEF IInv, HeldOpen
<1>18. \A x : x \in closing' <=>
           x \in closing \/ \E s \in Objects : Leaves(s) /\ x = heap[cache[s]].fd
  BY <1>10 DEF Disposed
<1>19. \A s \in Objects : Cached(s) =>
           heap[cache[s]].fd \in AllFds /\ table[heap[cache[s]].fd] = s
           /\ heap[cache[s]].fd # f /\ heap[cache[s]].fd \notin closing
  BY <1>3, Constants DEF IInv, FdOwned, HeldOpen, TypeOK, Cached, Held
<1>20. \A x \in AllFds : table'[x] = IF x = f THEN o ELSE table[x]
  BY DEF IInv, TypeOK
<1>21. f \notin closing' /\ closing' \subseteq AllFds
  <2>1. closing \subseteq AllFds /\ f \notin closing
    BY <1>3 DEF IInv, FdOwned, TypeOK
  <2>2. \A s \in Objects : Leaves(s) => heap[cache[s]].fd \in AllFds \ {f}
    BY <1>19 DEF Leaves
  <2>3. QED
    BY <2>1, <2>2, <1>18
<1>22. TypeOK'
  <2>1. table' \in [AllFds -> Objects \cup {None}]
    BY <1>0, <1>3 DEF IInv, TypeOK
  <2>2. QED
    BY <2>1, <1>4, <1>9, <1>10, <1>13, <1>21 DEF IInv, TypeOK, Listed
<1>23. FdOwned'
  <2>1. \A s \in Objects : Cached(s)' =>
            LET x == heap'[cache'[s]].fd IN table'[x] = s /\ x \notin closing'
    <3>1. table'[heap'[cache'[o]].fd] = o /\ heap'[cache'[o]].fd \notin closing'
      BY <1>3, <1>10, <1>14, <1>20, <1>21
    <3>2. ASSUME NEW s \in Objects \ {o}, Cached(s)'
          PROVE  table'[heap'[cache'[s]].fd] = s /\ heap'[cache'[s]].fd \notin closing'
      <4>1. Cached(s) /\ heap'[cache'[s]].fd = heap[cache[s]].fd /\ ~Leaves(s)
        BY <3>2, <1>16 DEF Leaves
      <4>2. \A t \in Objects : Leaves(t) => heap[cache[t]].fd # heap[cache[s]].fd
        BY <4>1, <1>19 DEF Leaves
      <4>3. QED
        BY <4>1, <4>2, <1>18, <1>19, <1>20
    <3>3. QED
      BY <3>1, <3>2
  <2>2. \A x \in closing' : table'[x] # None
    <3>1. \A x \in closing' : table[x] # None /\ x \in AllFds
      BY <1>18, <1>19, <1>21, Constants DEF IInv, FdOwned, Leaves
    <3>2. QED
      BY <1>0, <3>1, <1>20, Constants
  <2>3. ASSUME NEW x \in AllFds, table'[x] # None, x \notin closing'
        PROVE  \E s \in Objects : Cached(s)' /\ heap'[cache'[s]].fd = x
    <3>1. CASE x = f
      BY <3>1, <1>0, <1>2, <1>10, <1>14 DEF Cached
    <3>2. CASE x # f
      <4>1. table[x] # None /\ x \notin closing
        BY <2>3, <3>2, <1>18, <1>20
      <4>2. PICK s \in Objects : Cached(s) /\ heap[cache[s]].fd = x
        BY <4>1 DEF IInv, FdOwned
      <4>3. ~Leaves(s)
        BY <2>3, <4>2, <1>18
      <4>4. cache'[s] = cache[s] /\ Cached(s)' /\ s # o
        BY <4>2, <4>3, <1>2, <1>10 DEF Leaves, Cached
      <4>5. QED
        BY <4>2, <4>4, <1>16
    <3>3. QED
      BY <3>1, <3>2
  <2>4. QED
    BY <2>1, <2>2, <2>3 DEF FdOwned
<1>24. Apart'
  BY <1>0, <1>4, <1>6, <1>7, ApartKept DEF IInv
<1>25. Keeps'
  <2>1. SUFFICES ASSUME Roomy, NEW d \in Calls, rq'[d].e # None
                 PROVE  cache'[rq'[d].o] = rq'[d].e
    BY <1>4 DEF Keeps, Roomy
  <2>2. CASE d = c
    BY <2>2, <1>7, <1>9, <1>10
  <2>3. CASE d # c
    <3>1. rq'[d] = rq[d] /\ Active(d) /\ rq[d].o \in Objects
      BY <2>1, <2>3, <1>9 DEF IInv, Stages, Stage, Active, Before
    <3>2. rq[d].o # o
      BY <1>0, <2>1, <2>3, <3>1 DEF IInv, Apart, Roomy
    <3>3. QED
      BY <2>1, <3>1, <3>2, <1>10 DEF IInv, Keeps
  <2>4. QED
    BY <2>2, <2>3
<1>26. /\ Told(o)' = rq[c].size
       /\ \A s \in Objects \ {o} : Cached(s)' => Cached(s) /\ Told(s)' = Told(s)
       /\ rq'[c].pc \notin {"open_fd", "write_done"}
       /\ \A d \in Calls \ {c} : rq'[d] = rq[d] /\ End(d)' = End(d)
  BY <1>0, <1>7, <1>9, <1>10, <1>14, <1>16 DEF Told, End
<1>27. KnowsAll'
  <2>1. SUFFICES ASSUME Roomy, "grow" \notin conf.resizes
                 PROVE  /\ \A s \in Objects : Cached(s)' =>
                              \/ size[s] <= Told(s)'
                              \/ \E d \in Calls : /\ rq'[d].pc = "write_done"
                                                 /\ rq'[d].o = s /\ size[s] <= End(d)'
                        /\ \A d \in Calls : rq'[d].pc = "open_fd" =>
                              size[rq'[d].o] <= rq'[d].size
    BY <1>4 DEF KnowsAll, Roomy
  <2>2. size[o] <= Told(o)'
    BY <1>0, <2>1, <1>26 DEF IInv, KnowsAll
  <2>3. ASSUME NEW s \in Objects \ {o}, Cached(s)'
        PROVE  \/ size[s] <= Told(s)'
               \/ \E d \in Calls : /\ rq'[d].pc = "write_done"
                                  /\ rq'[d].o = s /\ size[s] <= End(d)'
    <3>1. \/ size[s] <= Told(s)
          \/ \E d \in Calls \ {c} : rq[d].pc = "write_done" /\ rq[d].o = s /\ size[s] <= End(d)
      BY <1>0, <2>1, <2>3, <1>26 DEF IInv, KnowsAll
    <3>2. QED
      BY <2>3, <3>1, <1>26
  <2>4. \A d \in Calls : rq'[d].pc = "open_fd" => size[rq'[d].o] <= rq'[d].size
    BY <2>1, <1>26 DEF IInv, KnowsAll
  <2>5. QED
    BY <2>2, <2>3, <2>4
<1>28. KnowsNoMore'
  <2>1. SUFFICES ASSUME Roomy, "shrink" \notin conf.resizes
                 PROVE  /\ \A s \in Objects : Cached(s)' => Told(s)' <= size[s]
                        /\ \A d \in Calls :
                              /\ rq'[d].pc = "open_fd" => rq'[d].size <= size[rq'[d].o]
                              /\ rq'[d].pc = "write_done" => End(d)' <= size[rq'[d].o]
    BY <1>4 DEF KnowsNoMore, Roomy
  <2>2. Told(o)' <= size[o]
    BY <1>0, <2>1, <1>26 DEF IInv, KnowsNoMore
  <2>3. \A s \in Objects \ {o} : Cached(s)' => Told(s)' <= size[s]
    BY <2>1, <1>26 DEF IInv, KnowsNoMore
  <2>4. \A d \in Calls :
            /\ rq'[d].pc = "open_fd" => rq'[d].size <= size[rq'[d].o]
            /\ rq'[d].pc = "write_done" => End(d)' <= size[rq'[d].o]
    BY <2>1, <1>26 DEF IInv, KnowsNoMore
  <2>5. QED
    BY <2>2, <2>3, <2>4
<1>29. QED
  BY <1>9, <1>10, <1>17, <1>22, <1>23, <1>24, <1>25, <1>27, <1>28 DEF IInv, Listed

LEMMA OpenFdKeeps ==
    ASSUME IInv, UNCHANGED conf, NEW c \in Calls, open_fd(c)
    PROVE  IInv'
<1>1. /\ rq[c].pc = "open_fd" /\ rq[c].e = None /\ rq[c].o \in Objects /\ UNCHANGED size
  BY DEF IInv, Stages, Stage, Before, open_fd
<1>2. CASE Error(c) /\ UNCHANGED <<table, heap, cachevars>>
  BY <1>1, <1>2, ReplyKeeps DEF Error
<1>3. CASE ~(Error(c) /\ UNCHANGED <<table, heap, cachevars>>)
  <2> DEFINE e == CHOOSE x \in Opens : ~Held(x)
  <2>1. e \in Opens /\ ~Held(e)
    BY <1>1, FreeEntry DEF IInv
  <2>2. PICK f \in FreeFds : /\ table' = [table EXCEPT ![f] = rq[c].o]
                             /\ set(rq[c].o, e) /\ Use(c, e)
                             /\ Heap([heap EXCEPT ![e] = [fd |-> f, size |-> rq[c].size]])
    BY <1>3 DEF open_fd
  <2> HIDE DEF e
  <2>3. QED
    BY <1>1, <2>1, <2>2, OpenedKeeps
<1>4. QED
  BY <1>2, <1>3

LEMMA CloseKeeps ==
    ASSUME IInv, UNCHANGED conf, NEW f \in AllFds, cache_close_fd(f)
    PROVE  IInv'
<1>1. /\ f \in closing /\ table' = [table EXCEPT ![f] = None] /\ closing' = closing \ {f}
      /\ size' = size /\ heap' = heap /\ cache' = cache /\ order' = order
      /\ stale' = stale /\ rq' = rq /\ conf' = conf
  BY DEF cache_close_fd
<1>2. \A x \in AllFds : table'[x] = IF x = f THEN None ELSE table[x]
  BY <1>1 DEF IInv, TypeOK
<1>3. TypeOK' /\ Recency(order)'
  BY <1>1 DEF IInv, TypeOK, Recency, Cached, RqState
<1>4. HeldOpen' /\ Stages' /\ CacheBounded' /\ Apart' /\ Keeps'
  BY <1>1 DEF IInv, HeldOpen, Held, Stages, Stage, CacheBounded, Apart, Active, Keeps, Roomy
<1>5. KnowsAll' /\ KnowsNoMore'
  BY <1>1 DEF IInv, KnowsAll, KnowsNoMore, Roomy, Told, End, Cached
<1>6. FdOwned'
  <2>1. \A o \in Objects : Cached(o) => heap[cache[o]].fd \in AllFds \ {f}
    BY <1>1 DEF IInv, FdOwned, HeldOpen, TypeOK, Cached, Held
  <2>2. closing \subseteq AllFds
    BY DEF IInv, TypeOK
  <2>3. QED
    BY <1>1, <1>2, <2>1, <2>2 DEF IInv, FdOwned, Cached
<1>7. QED
  BY <1>3, <1>4, <1>5, <1>6 DEF IInv

LEMMA ExpireKeeps ==
    ASSUME IInv, UNCHANGED conf, NEW o \in Objects, Expire(o)
    PROVE  IInv'
<1>1. /\ Cached(o) /\ stale' = stale \cup {o}
      /\ size' = size /\ table' = table /\ heap' = heap /\ cache' = cache /\ order' = order
      /\ closing' = closing /\ rq' = rq /\ conf' = conf
  BY DEF Expire, Has
<1>2. TypeOK' /\ Recency(order)'
  BY <1>1 DEF IInv, TypeOK, Recency, Cached, RqState
<1>3. HeldOpen' /\ Stages' /\ FdOwned' /\ CacheBounded' /\ Apart' /\ Keeps'
  BY <1>1 DEF IInv, HeldOpen, Held, Stages, Stage, FdOwned, Cached, CacheBounded, Apart,
     Active, Keeps, Roomy
<1>4. KnowsAll' /\ KnowsNoMore'
  BY <1>1 DEF IInv, KnowsAll, KnowsNoMore, Roomy, Told, End, Cached
<1>5. QED
  BY <1>2, <1>3, <1>4 DEF IInv

(* A file that grows by name is not known to the full any more; one that   *)
(* shrinks has less than is known.                                         *)
LEMMA ResizeKeeps ==
    ASSUME IInv, UNCHANGED conf, NEW o \in Objects, Resize(o)
    PROVE  IInv'
<1>1. /\ table' = table /\ heap' = heap /\ cache' = cache /\ order' = order
      /\ stale' = stale /\ closing' = closing /\ rq' = rq /\ conf' = conf
  BY DEF Resize, cachevars
<1>2. PICK s : /\ size' = [size EXCEPT ![o] = s]
               /\ \/ "shrink" \in conf.resizes /\ s \in 0..size[o] - 1
                  \/ "grow" \in conf.resizes /\ s \in size[o] + 1..conf.bytes
  BY DEF Resize
<1>3. /\ \A x \in Objects : size[x] \in Nat /\ size[x] <= conf.bytes
      /\ conf.bytes \in Nat
  BY ConfTypes DEF IInv, TypeOK
<1>4. s \in Nat /\ s <= conf.bytes
  BY <1>2, <1>3
<1>5. size' \in [Objects -> 0..conf.bytes]
      /\ \A x \in Objects : size'[x] = IF x = o THEN s ELSE size[x]
  BY <1>2, <1>3, <1>4 DEF IInv, TypeOK
<1>6. TypeOK' /\ Recency(order)'
  BY <1>1, <1>5 DEF IInv, TypeOK, Recency, Cached, RqState
<1>7. HeldOpen' /\ Stages' /\ FdOwned' /\ CacheBounded' /\ Apart' /\ Keeps'
  BY <1>1 DEF IInv, HeldOpen, Held, Stages, Stage, FdOwned, Cached, CacheBounded, Apart,
     Active, Keeps, Roomy
<1>8. \A c \in Calls : rq[c].pc \in {"open_fd", "write_done"} => rq[c].o \in Objects
  BY DEF IInv, Stages, Stage
<1>9. \A c \in Calls : rq[c].size \in Nat /\ End(c) \in Nat
  BY ConfTypes DEF IInv, TypeOK, RqState, End
<1>10. \A x \in Objects : Cached(x) => Told(x) \in Nat
  BY <1>3 DEF IInv, TypeOK, Cached, Told
<1>11. KnowsAll'
  <2>1. SUFFICES ASSUME Roomy, "grow" \notin conf.resizes
                 PROVE  /\ \A x \in Objects : Cached(x) =>
                              \/ size'[x] <= Told(x)
                              \/ \E c \in Calls : /\ rq[c].pc = "write_done"
                                                 /\ rq[c].o = x /\ size'[x] <= End(c)
                        /\ \A c \in Calls : rq[c].pc = "open_fd" => size'[rq[c].o] <= rq[c].size
    BY <1>1 DEF KnowsAll, Roomy, Cached, Told, End
  <2>2. \A x \in Objects : size'[x] \in Nat /\ size'[x] <= size[x]
    BY <2>1, <1>2, <1>3, <1>4, <1>5
  <2>3. ASSUME NEW x \in Objects, Cached(x)
        PROVE  \/ size'[x] <= Told(x)
               \/ \E c \in Calls : /\ rq[c].pc = "write_done"
                                  /\ rq[c].o = x /\ size'[x] <= End(c)
    <3>1. \/ size[x] <= Told(x)
          \/ \E c \in Calls : rq[c].pc = "write_done" /\ rq[c].o = x /\ size[x] <= End(c)
      BY <2>1, <2>3 DEF IInv, KnowsAll
    <3>2. QED
      BY <2>2, <2>3, <3>1, <1>3, <1>9, <1>10
  <2>4. ASSUME NEW c \in Calls, rq[c].pc = "open_fd"
        PROVE  size'[rq[c].o] <= rq[c].size
    <3>1. size[rq[c].o] <= rq[c].size
      BY <2>1, <2>4 DEF IInv, KnowsAll
    <3>2. QED
      BY <2>2, <2>4, <3>1, <1>3, <1>8, <1>9
  <2>5. QED
    BY <2>3, <2>4
<1>12. KnowsNoMore'
  <2>1. SUFFICES ASSUME Roomy, "shrink" \notin conf.resizes
                 PROVE  /\ \A x \in Objects : Cached(x) => Told(x) <= size'[x]
                        /\ \A c \in Calls :
                              /\ rq[c].pc = "open_fd" => rq[c].size <= size'[rq[c].o]
                              /\ rq[c].pc = "write_done" => End(c) <= size'[rq[c].o]
    BY <1>1 DEF KnowsNoMore, Roomy, Cached, Told, End
  <2>2. \A x \in Objects : size'[x] \in Nat /\ size[x] <= size'[x]
    BY <2>1, <1>2, <1>3, <1>4, <1>5
  <2>3. ASSUME NEW x \in Objects, Cached(x)
        PROVE  Told(x) <= size'[x]
    <3>1. Told(x) <= size[x]
      BY <2>1, <2>3 DEF IInv, KnowsNoMore
    <3>2. QED
      BY <2>2, <2>3, <3>1, <1>3, <1>10
  <2>4. ASSUME NEW c \in Calls
        PROVE  /\ rq[c].pc = "open_fd" => rq[c].size <= size'[rq[c].o]
               /\ rq[c].pc = "write_done" => End(c) <= size'[rq[c].o]
    <3>1. /\ rq[c].pc = "open_fd" => rq[c].size <= size[rq[c].o]
          /\ rq[c].pc = "write_done" => End(c) <= size[rq[c].o]
      BY <2>1, <2>4 DEF IInv, KnowsNoMore
    <3>2. QED
      BY <2>2, <2>4, <3>1, <1>3, <1>8, <1>9
  <2>5. QED
    BY <2>3, <2>4
<1>13. QED
  BY <1>6, <1>7, <1>11, <1>12 DEF IInv

(* A process begins with an empty cache, for the first time or again.      *)
LEMMA EmptyIsGood ==
    conf \in Configurations /\ size \in [Objects -> 0..conf.bytes] /\ Empty => IInv
<1> SUFFICES ASSUME conf \in Configurations, size \in [Objects -> 0..conf.bytes], Empty
             PROVE  IInv
  OBVIOUS
<1>1. conf.max \in Nat \ {0} /\ 0 \in 0..conf.bytes
  BY ConfTypes
<1>2. Idle \in RqState /\ Stage(Idle) /\ Idle.pc = "idle" /\ Idle.e = None
  BY IdleGood DEF Idle
<1>3. \A c \in Calls : rq[c] = Idle
  BY DEF Empty
<1>4. \A e \in Opens : ~Held(e)
  BY <1>2, <1>3, Constants DEF Empty, Held
<1>5. \A o \in Objects : ~Cached(o)
  BY DEF Empty, Cached
<1>6. order \in Seq(Objects) /\ Len(order) = 0
  BY DEF Empty
<1>7. ToSet(order) = {} /\ Cardinality({}) = 0
  BY <1>6, FS_EmptySet DEF ToSet
<1> HIDE DEF Idle
<1>8. TypeOK
  <2>1. Nothing \in [fd : AllFds \cup {None}, size : 0..conf.bytes]
    BY <1>1 DEF Nothing
  <2>2. heap \in [Opens -> [fd : AllFds \cup {None}, size : 0..conf.bytes]]
    BY <2>1 DEF Empty
  <2>3. rq \in [Calls -> RqState]
    BY <1>2 DEF Empty
  <2>4. QED
    BY <2>2, <2>3, <1>5, <1>6, <1>7 DEF TypeOK, Empty
<1>9. Recency(order) /\ CacheBounded
  BY <1>1, <1>6 DEF Recency, NoRepeats, CacheBounded
<1>10. HeldOpen /\ Stages /\ Apart /\ Keeps
  BY <1>2, <1>3, <1>4 DEF HeldOpen, Stages, Apart, Active, Keeps
<1>11. FdOwned
  BY <1>5 DEF FdOwned, Empty
<1>12. KnowsAll /\ KnowsNoMore
  BY <1>2, <1>3, <1>5 DEF KnowsAll, KnowsNoMore
<1>13. QED
  BY <1>8, <1>9, <1>10, <1>11, <1>12 DEF IInv

LEMMA DieKeeps ==
    ASSUME IInv, UNCHANGED conf, NEW c \in Calls, Die(c)
    PROVE  IInv'
<1>1. Empty'
  BY DEF Die, Empty
<1>2. conf' \in Configurations /\ size' \in [Objects -> 0..conf'.bytes]
  BY DEF IInv, TypeOK, Die
<1>3. (conf \in Configurations /\ size \in [Objects -> 0..conf.bytes] /\ Empty => IInv)'
  BY EmptyIsGood, PTL
<1>4. QED
  BY <1>1, <1>2, <1>3

-----------------------------------------------------------------------------
(* The theorems. *)

LEMMA Inductive == Spec => []IInv
<1>1. Init => IInv
  <2>1. SUFFICES ASSUME Init PROVE IInv
    OBVIOUS
  <2>2. conf \in Configurations /\ Empty /\ size \in [Objects -> {0, 1}]
    BY <2>1 DEF Init
  <2>3. {0, 1} \subseteq 0..conf.bytes
    BY <2>2, ConfTypes
  <2>4. size \in [Objects -> 0..conf.bytes]
    BY <2>2, <2>3
  <2>5. QED
    BY <2>2, <2>4, EmptyIsGood
<1>2. IInv /\ [Next]_fdvars => IInv'
  <2>1. SUFFICES ASSUME IInv, [Next]_fdvars PROVE IInv'
    OBVIOUS
  <2>2. CASE UNCHANGED fdvars
    BY <2>1, <2>2 DEF fdvars, IInv, TypeOK, RqState, Recency, Cached, HeldOpen, Held, Stages,
       Stage, FdOwned, CacheBounded, Apart, Active, Keeps, Roomy, KnowsAll, KnowsNoMore,
       Told, End
  <2>3. ASSUME UNCHANGED conf, NEW c \in Calls, Handler(c) \/ Die(c)
        PROVE  IInv'
    BY <2>1, <2>3, FhandleKeeps, OpenKeeps, StatKeeps, OpenFdKeeps, ReadKeeps, ReadDoneKeeps,
       WriteKeeps, WriteDoneKeeps, CommitKeeps, DieKeeps DEF Handler
  <2>4. CASE Next
    <3>1. CASE \E c \in Calls, o \in Objects :
                  \/ \E off \in 0..conf.bytes, count \in 1..conf.bytes :
                        READ(c, o, off, count) \/ WRITE(c, o, off, count)
                  \/ COMMIT(c, o)
      BY <2>1, <2>4, <3>1, AccessKeeps DEF Next
    <3>2. CASE \E c \in Calls : Handler(c) \/ Die(c)
      BY <2>3, <2>4, <3>2 DEF Next
    <3>3. CASE \E f \in AllFds : cache_close_fd(f)
      BY <2>1, <2>4, <3>3, CloseKeeps DEF Next
    <3>4. CASE \E o \in Objects : Expire(o) \/ Resize(o)
      BY <2>1, <2>4, <3>4, ExpireKeeps, ResizeKeeps DEF Next
    <3>5. QED
      BY <2>4, <3>1, <3>2, <3>3, <3>4 DEF Next
  <2>5. QED
    BY <2>1, <2>2, <2>4
<1>3. QED
  BY <1>1, <1>2, PTL DEF Spec

(* The state of the descriptor cache and of its requests has its types.    *)
THEOREM TypeCorrect == Spec => []TypeOK
<1>1. IInv => TypeOK
  BY DEF IInv
<1>2. QED
  BY <1>1, Inductive, PTL

(* Every open descriptor has one owner who will close it, and no close     *)
(* hits a number given again, however READ, WRITE and COMMIT overlap, fail *)
(* and evict each other's entries (server.js:312, common.js:61).          *)
THEOREM EveryFdOwned == Spec => []FdOwned
<1>1. IInv => FdOwned
  BY DEF IInv
<1>2. QED
  BY <1>1, Inductive, PTL

(* The cache never has more than fd_cache.max entries. *)
THEOREM CacheStaysBounded == Spec => []CacheBounded
<1>1. IInv => CacheBounded
  BY DEF IInv
<1>2. QED
  BY <1>1, Inductive, PTL

(* With room in the cache and one user for an object, READ and WRITE access *)
(* the file they opened (read.js:24, write.js:24).                         *)
THEOREM AccessesAreSafe == Spec => []FdSafe
<1>1. IInv => FdSafe
  <2>1. SUFFICES ASSUME IInv, Roomy, NEW c \in Calls, InUse(c)
                 PROVE  FileOf(c) = rq[c].o
    BY DEF FdSafe
  <2>2. rq[c].e # None
    BY <2>1 DEF IInv, Stages, Stage, InUse, Before
  <2>3. QED
    BY <2>1, <2>2, FileIsAnObject
<1>2. QED
  BY <1>1, Inductive, PTL

(* There, too, eof says that the file ends: what READ goes by has been      *)
(* brought up to date by the writes since (read.js:34, write.js:36).        *)
THEOREM EofIsTruthful == Spec => []EofTruthful
<1>1. IInv => EofTruthful
  <2>1. SUFFICES ASSUME IInv, NEW c \in Calls, rq[c].pc = "read_done", Roomy
                 PROVE  LET atEnd == size[rq[c].o] <= rq[c].off + rq[c].n
                        IN  /\ Eof(c) /\ "grow" \notin conf.resizes => atEnd
                            /\ atEnd /\ "shrink" \notin conf.resizes => Eof(c)
    BY DEF EofTruthful
  <2> DEFINE o == rq[c].o
             n == rq[c].off + rq[c].n
  <2>2. rq[c].e # None /\ o \in Objects
    BY <2>1 DEF IInv, Stages, Stage, Before
  <2>3. cache[o] = rq[c].e /\ Cached(o)
    BY <2>1, <2>2, FileIsAnObject DEF Cached
  <2>4. \A d \in Calls : rq[d].pc = "write_done" => rq[d].o # o
    BY <2>1 DEF IInv, Apart, Roomy, Active
  <2>5. Told(o) \in Nat /\ size[o] \in Nat /\ n \in Nat
    <3>1. conf.bytes \in Nat /\ cache[o] \in Opens
      BY <2>1, <2>2, <2>3, ConfTypes DEF IInv, TypeOK, Cached
    <3>2. heap[cache[o]].size \in Nat /\ size[o] \in Nat
      BY <2>1, <2>2, <3>1 DEF IInv, TypeOK
    <3>3. rq[c].off \in Nat /\ rq[c].n \in Nat
      BY <2>1, <3>1 DEF IInv, TypeOK, RqState
    <3>4. QED
      BY <3>2, <3>3 DEF Told
  <2>6. Eof(c) <=> Told(o) <= n
    BY <2>3 DEF Eof, Told
  <2>7. "grow" \notin conf.resizes => size[o] <= Told(o)
    BY <2>1, <2>2, <2>3, <2>4 DEF IInv, KnowsAll
  <2>8. "shrink" \notin conf.resizes => Told(o) <= size[o]
    BY <2>1, <2>2, <2>3 DEF IInv, KnowsNoMore
  <2> HIDE DEF o, n
  <2>9. QED
    BY <2>5, <2>6, <2>7, <2>8 DEF o, n
<1>2. QED
  BY <1>1, Inductive, PTL
=============================================================================
