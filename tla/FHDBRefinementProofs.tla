------------------------ MODULE FHDBRefinementProofs ------------------------
(***************************************************************************)
(* The proof that FHDB implements HandleTable, for every set of calls,     *)
(* paths and uuids, under the conditions that FHDBRefinement names: the    *)
(* calls in flight have no path in common, and no failure but that of a    *)
(* batch which has done nothing.                                           *)
(***************************************************************************)
EXTENDS FHDBRefinement, FHDBProofs

Apart == Overlap = "disjoint" /\ Faults \subseteq {"write"}

-----------------------------------------------------------------------------
(* The inductive invariant, on top of that of FHDBProofs. *)

CallsApart ==
    \A c, d \in Calls :
        c # d /\ Busy(c) /\ Busy(d)
            => Touched(call[c]) \cap Touched(call[d]) = {}

(* What a get has found, or not found, is still so at the later accesses.  *)
FoundPcs   == {"mv_write", "mv_cleanup", "del_write"}
MissingPcs == {"lookup_lstat", "lookup_write", "mv_write_new"}
StillSo ==
    \A c \in Calls :
        /\ call[c].pc \in FoundPcs   => fh[call[c].p] = call[c].h
        /\ call[c].pc \in MissingPcs => fh[call[c].p] = None

RInv == IInv /\ torn = {} /\ CallsApart /\ StillSo

-----------------------------------------------------------------------------

LEMMA RefInit == Init => RInv /\ Table!TabInit
<1> SUFFICES ASSUME Init PROVE RInv /\ Table!TabInit
  OBVIOUS
<1>1. \A c \in Calls : call[c].pc = "idle"
  BY DEF Init, Idle
<1>2. CallsApart /\ StillSo
  BY <1>1 DEF CallsApart, StillSo, Busy, FoundPcs, MissingPcs
<1>3. Table!TabInit
  BY <1>1 DEF Init, Table!TabInit, TableOf, AwaitsCleanup
<1>4. QED
  BY <1>2, <1>3, InvInit DEF RInv, Init

(* A call that goes on keeps its paths, and one that ends touches nothing. *)
LEMMA ApartKept ==
    ASSUME CallsApart, NEW c \in Calls, Busy(c),
           \A d \in Calls : d # c => call'[d] = call[d],
           \/ call'[c].pc \in {"idle", "done"}
           \/ call'[c].p = call[c].p /\ call'[c].q = call[c].q
    PROVE  CallsApart'
BY DEF CallsApart, Busy, Touched

(* What the other calls have found or missed survives a step of c that     *)
(* changes only the entries of c's own paths.                              *)
LEMMA OthersStillSo ==
    ASSUME RInv, NEW c \in Calls, Busy(c),
           \A d \in Calls : d # c => call'[d] = call[d],
           \A s \in Paths : s \notin Touched(call[c]) => fh'[s] = fh[s],
           call'[c].pc \in FoundPcs   => fh'[call'[c].p] = call'[c].h,
           call'[c].pc \in MissingPcs => fh'[call'[c].p] = None
    PROVE  StillSo'
<1> SUFFICES ASSUME NEW d \in Calls, d # c,
                    call[d].pc \in FoundPcs \cup MissingPcs
             PROVE  fh'[call[d].p] = fh[call[d].p]
  BY DEF StillSo, RInv
<1>1. Busy(d) /\ call[d].p \in Paths
  BY DEF RInv, IInv, TypeOK, Busy, FoundPcs, MissingPcs
<1>2. call[d].p \in Touched(call[d])
  BY <1>1, NoneAssumption DEF Touched
<1>3. call[d].p \notin Touched(call[c])
  BY <1>1, <1>2 DEF RInv, CallsApart
<1>4. QED
  BY <1>1, <1>3

(* The entry of a path that neither the step nor its cleanup concerns.     *)
LEMMA EntryKept ==
    ASSUME NEW c \in Calls, NEW s \in Paths, fh'[s] = fh[s],
           \A d \in Calls : d # c => call'[d] = call[d],
           call[c].pc = "mv_cleanup" => call[c].p # s,
           call'[c].pc = "mv_cleanup" => call'[c].p # s
    PROVE  TableOf'[s] = TableOf[s]
<1>1. AwaitsCleanup(s, fh[s])' <=> AwaitsCleanup(s, fh[s])
  BY DEF AwaitsCleanup
<1>2. QED
  BY <1>1 DEF TableOf

(* A path of a busy call awaits no other call's cleanup.                   *)
LEMMA NoOtherCleanup ==
    ASSUME RInv, NEW c \in Calls, Busy(c), NEW p \in Touched(call[c]),
           NEW d \in Calls, d # c
    PROVE  ~(call[d].pc = "mv_cleanup" /\ call[d].p = p)
<1> SUFFICES ASSUME call[d].pc = "mv_cleanup", call[d].p = p PROVE FALSE
  OBVIOUS
<1>1. Busy(d) /\ call[d].p \in Touched(call[d])
  BY DEF Busy, Touched
<1>2. QED
  BY <1>1 DEF RInv, CallsApart

-----------------------------------------------------------------------------
(* The steps that write nothing: the table stays as it is.                 *)

LEMMA NothingWritten ==
    ASSUME NEW c \in Calls, UNCHANGED <<fh, fn, retired>>,
           \A d \in Calls : d # c => call'[d] = call[d],
           call[c].pc # "mv_cleanup", call'[c].pc # "mv_cleanup"
    PROVE  UNCHANGED Table!tabvars
<1>1. \A s \in Paths : TableOf'[s] = TableOf[s]
  BY EntryKept
<1>2. TableOf' = TableOf
  BY <1>1 DEF TableOf
<1>3. QED
  BY <1>2 DEF Table!tabvars

(* ... and the invariant is kept, if what the call found is right.         *)
LEMMA QuietStep ==
    ASSUME Apart, RInv, IInv', NEW c \in Calls, Busy(c),
           UNCHANGED <<fh, fn, retired, torn>>,
           \A d \in Calls : d # c => call'[d] = call[d],
           call[c].pc # "mv_cleanup", call'[c].pc # "mv_cleanup",
           \/ call'[c].pc \in {"idle", "done"}
           \/ call'[c].p = call[c].p /\ call'[c].q = call[c].q,
           call'[c].pc \in FoundPcs   => fh[call'[c].p] = call'[c].h,
           call'[c].pc \in MissingPcs => fh[call'[c].p] = None
    PROVE  RInv' /\ UNCHANGED Table!tabvars
<1>1. StillSo'
  BY OthersStillSo
<1>2. CallsApart'
  BY ApartKept DEF RInv
<1>3. UNCHANGED Table!tabvars
  BY NothingWritten
<1>4. QED
  BY <1>1, <1>2, <1>3 DEF RInv

LEMMA RefStart ==
    ASSUME Apart, RInv, IInv', NEW c \in Calls, Start(c)
    PROVE  RInv' /\ UNCHANGED Table!tabvars
<1>1. PICK r : /\ Begin(c, r)
               /\ r.pc \in {"fhandle_get", "lookup_get", "mv_get", "del_get"}
               /\ r \in CallState
  <2> USE DEF Idle, CallState, Pcs, MvPcs, DelPcs
  <2>1. ASSUME NEW h \in Handles, StartFhandle(c, h)
        PROVE  \E r \in CallState : Begin(c, r) /\ r.pc = "fhandle_get"
    <3> DEFINE r == [Idle EXCEPT !.pc = "fhandle_get", !.h = h]
    <3>1. r \in CallState /\ r.pc = "fhandle_get"
      OBVIOUS
    <3>2. QED  BY <3>1, <2>1 DEF StartFhandle
  <2>2. ASSUME NEW p \in Paths, StartLookup(c, p)
        PROVE  \E r \in CallState : Begin(c, r) /\ r.pc = "lookup_get"
    <3> DEFINE r == [Idle EXCEPT !.pc = "lookup_get", !.p = p]
    <3>1. r \in CallState /\ r.pc = "lookup_get"
      OBVIOUS
    <3>2. QED  BY <3>1, <2>2 DEF StartLookup
  <2>3. ASSUME NEW p \in Paths, NEW q \in Paths, StartMv(c, p, q)
        PROVE  \E r \in CallState : Begin(c, r) /\ r.pc = "mv_get"
    <3> DEFINE r == [Idle EXCEPT !.pc = "mv_get", !.p = p, !.q = q]
    <3>1. r \in CallState /\ r.pc = "mv_get"
      OBVIOUS
    <3>2. QED  BY <3>1, <2>3 DEF StartMv
  <2>4. ASSUME NEW p \in Paths, StartDel(c, p)
        PROVE  \E r \in CallState : Begin(c, r) /\ r.pc = "del_get"
    <3> DEFINE r == [Idle EXCEPT !.pc = "del_get", !.p = p]
    <3>1. r \in CallState /\ r.pc = "del_get"
      OBVIOUS
    <3>2. QED  BY <3>1, <2>4 DEF StartDel
  <2>5. QED
    BY <2>1, <2>2, <2>3, <2>4 DEF Start
<1>2. /\ call'[c] = r /\ ~Busy(c)
      /\ \A d \in Calls : d # c => call'[d] = call[d]
      /\ UNCHANGED <<fh, fn, issued, retired, torn>>
  BY <1>1, BeginCall DEF Begin, RInv, IInv
<1>3. StillSo'
  BY <1>1, <1>2 DEF RInv, StillSo, FoundPcs, MissingPcs
<1>4. \A d \in Calls : Busy(d) => Touched(r) \cap Touched(call[d]) = {}
  BY <1>1 DEF Begin, Admissible, Apart
<1>5. CallsApart'
  BY <1>2, <1>4 DEF RInv, CallsApart, Busy
<1>6. UNCHANGED Table!tabvars
  BY <1>1, <1>2, NothingWritten DEF Busy
<1>7. QED
  BY <1>2, <1>3, <1>5, <1>6 DEF RInv

LEMMA RefReturn ==
    ASSUME RInv, IInv', NEW c \in Calls, Return(c)
    PROVE  RInv' /\ UNCHANGED Table!tabvars
<1>1. /\ call'[c].pc = "idle" /\ call[c].pc = "done"
      /\ \A d \in Calls : d # c => call'[d] = call[d]
      /\ UNCHANGED <<fh, fn, retired, torn>>
  BY DEF Return, Idle, RInv, IInv, TypeOK
<1>2. CallsApart' /\ StillSo'
  BY <1>1 DEF RInv, CallsApart, StillSo, Busy, FoundPcs, MissingPcs
<1>3. UNCHANGED Table!tabvars
  BY <1>1, NothingWritten
<1>4. QED
  BY <1>1, <1>2, <1>3 DEF RInv

(* A call that ends, writing nothing. *)
LEMMA RefEnd ==
    ASSUME Apart, RInv, IInv', NEW c \in Calls, Busy(c),
           call[c].pc # "mv_cleanup", UNCHANGED <<fh, fn, retired, torn>>,
           \/ Fail(c)
           \/ \E p \in Paths, h \in Handles : Answer(c, p, h)
    PROVE  RInv' /\ UNCHANGED Table!tabvars
<1>1. /\ call'[c].pc = "done"
      /\ \A d \in Calls : d # c => call'[d] = call[d]
  BY AnswerCall, FailCall DEF RInv, IInv
<1>2. QED
  BY <1>1, QuietStep DEF FoundPcs, MissingPcs

(* A call that goes on, writing nothing. *)
LEMMA RefGoOn ==
    ASSUME Apart, RInv, IInv', NEW c \in Calls, Busy(c),
           call[c].pc # "mv_cleanup", UNCHANGED <<fh, fn, retired, torn>>,
           NEW pc \in Pcs \ {"mv_cleanup"}, NEW h \in Handles \cup {None},
           GoOn(c, pc, h),
           pc \in FoundPcs   => fh[call[c].p] = h,
           pc \in MissingPcs => fh[call[c].p] = None
    PROVE  RInv' /\ UNCHANGED Table!tabvars
<1>1. /\ call'[c].pc = pc /\ call'[c].h = h
      /\ call'[c].p = call[c].p /\ call'[c].q = call[c].q
      /\ \A d \in Calls : d # c => call'[d] = call[d]
  BY GoOnCall DEF RInv, IInv
<1>2. QED
  BY <1>1, QuietStep

(* What a call that waits for an access to the database holds.             *)
LEMMA Locals ==
    ASSUME RInv, NEW c \in Calls, Busy(c)
    PROVE  /\ TypeOK
           /\ call[c].pc # "fhandle_get" => call[c].p \in Paths
           /\ call[c].pc \in HoldPcs \cup {"fhandle_get"} => call[c].h \in Handles
           /\ IsMv(call[c]) => call[c].q \in Paths
BY DEF RInv, IInv, TypeOK, HoldPcs

LEMMA RefReads ==
    ASSUME Apart, RInv, IInv', NEW c \in Calls,
           \/ FhandleGet(c) \/ LookupGet(c) \/ MvGet(c) \/ DelGet(c)
           \/ \E found \in BOOLEAN : LookupLstat(c, found)
    PROVE  RInv' /\ UNCHANGED Table!tabvars
<1> USE DEF Pcs, MvPcs, DelPcs, FoundPcs, MissingPcs, GetOk, GetErr
<1>1. "get" \notin Faults
  BY DEF Apart
<1>2. CASE FhandleGet(c)
  BY <1>2, RefEnd, Locals DEF FhandleGet, Busy, TypeOK
<1>3. CASE LookupGet(c)
  <2>1. Busy(c) /\ call[c].p \in Paths /\ TypeOK
    BY <1>3, Locals DEF LookupGet, Busy
  <2>2. CASE GetOk(fh[call[c].p]) /\ Answer(c, call[c].p, fh[call[c].p])
    BY <1>3, <2>1, <2>2, RefEnd DEF LookupGet, TypeOK
  <2>3. CASE fh[call[c].p] = None /\ GoOn(c, "lookup_lstat", None)
    BY <1>3, <2>1, <2>3, RefGoOn DEF LookupGet
  <2>4. QED
    BY <1>1, <1>3, <2>2, <2>3 DEF LookupGet
<1>4. CASE MvGet(c)
  <2>1. Busy(c) /\ call[c].p \in Paths /\ TypeOK
    BY <1>4, Locals DEF MvGet, Busy
  <2>2. CASE GetOk(fh[call[c].p]) /\ GoOn(c, "mv_write", fh[call[c].p])
    BY <1>4, <2>1, <2>2, RefGoOn DEF MvGet, TypeOK
  <2>3. ASSUME fh[call[c].p] = None, NEW h \in Handles,
               GoOn(c, "mv_write_new", h)
        PROVE  RInv' /\ UNCHANGED Table!tabvars
    BY <1>4, <2>1, <2>3, RefGoOn DEF MvGet
  <2>4. QED
    BY <1>1, <1>4, <2>2, <2>3 DEF MvGet
<1>5. CASE DelGet(c)
  <2>1. Busy(c) /\ call[c].p \in Paths /\ TypeOK
    BY <1>5, Locals DEF DelGet, Busy
  <2>2. CASE GetOk(fh[call[c].p]) /\ GoOn(c, "del_write", fh[call[c].p])
    BY <1>5, <2>1, <2>2, RefGoOn DEF DelGet, TypeOK
  <2>3. CASE Fail(c)
    BY <1>5, <2>1, <2>3, RefEnd DEF DelGet
  <2>4. QED
    BY <1>5, <2>2, <2>3 DEF DelGet
<1>6. ASSUME NEW found \in BOOLEAN, LookupLstat(c, found)
      PROVE  RInv' /\ UNCHANGED Table!tabvars
  <2>1. Busy(c) /\ fh[call[c].p] = None
    BY <1>6 DEF LookupLstat, Busy, RInv, StillSo
  <2>2. CASE Fail(c)
    BY <1>6, <2>1, <2>2, RefEnd DEF LookupLstat
  <2>3. ASSUME NEW h \in Handles, GoOn(c, "lookup_write", h)
        PROVE  RInv' /\ UNCHANGED Table!tabvars
    BY <1>6, <2>1, <2>3, RefGoOn DEF LookupLstat
  <2>4. QED
    BY <1>6, <2>2, <2>3 DEF LookupLstat
<1>7. QED
  BY <1>2, <1>3, <1>4, <1>5, <1>6

-----------------------------------------------------------------------------
(* The batches.  Each changes the table in one step, but for the cleanup   *)
(* of mv, which is not seen.                                               *)

(* The table shows the entry of a path that belongs to a busy call, unless *)
(* that call is the one that is to clean it up.                            *)
LEMMA EntryShown ==
    ASSUME RInv, NEW c \in Calls, Busy(c), NEW p \in Paths,
           p \in Touched(call[c]),
           \A d \in Calls : d # c => call'[d] = call[d]
    PROVE  /\ (call[c].pc = "mv_cleanup" => call[c].p # p)
                => TableOf[p] = fh[p]
           /\ (call'[c].pc = "mv_cleanup" => call'[c].p # p)
                => TableOf'[p] = fh'[p]
<1>1. \A d \in Calls : d # c => ~(call[d].pc = "mv_cleanup" /\ call[d].p = p)
  BY NoOtherCleanup
<1>2. CASE call[c].pc = "mv_cleanup" => call[c].p # p
  BY <1>1, <1>2 DEF TableOf, AwaitsCleanup
<1>3. CASE call'[c].pc = "mv_cleanup" => call'[c].p # p
  BY <1>1, <1>3 DEF TableOf, AwaitsCleanup
<1>4. QED
  BY <1>2, <1>3

(* A batch that answers or goes on keeps the invariant.                    *)
LEMMA BatchKeeps ==
    ASSUME RInv, IInv', NEW c \in Calls, Busy(c), UNCHANGED torn,
           \A d \in Calls : d # c => call'[d] = call[d],
           \A s \in Paths : s \notin Touched(call[c]) => fh'[s] = fh[s],
           \/ call'[c].pc = "done"
           \/ /\ call'[c].pc = "mv_cleanup"
              /\ call'[c].p = call[c].p /\ call'[c].q = call[c].q
              /\ fh'[call[c].p] = call'[c].h
    PROVE  RInv'
<1>1. StillSo'
  BY OthersStillSo DEF FoundPcs, MissingPcs
<1>2. CallsApart'
  BY ApartKept DEF RInv
<1>3. QED
  BY <1>1, <1>2 DEF RInv

(* lookup: an Issue. *)
LEMMA RefLookupWrite ==
    ASSUME Apart, RInv, IInv', NEW c \in Calls, LookupWrite(c)
    PROVE  RInv' /\ [Table!TabNext]_Table!tabvars
<1> DEFINE p == call[c].p  h == call[c].h
<1>1. Busy(c) /\ p \in Paths /\ h \in Handles /\ TypeOK
  BY Locals DEF LookupWrite, Busy, HoldPcs
<1>2. CASE Fail(c) /\ UNCHANGED db
  BY <1>1, <1>2, RefEnd DEF LookupWrite, db
<1>3. CASE PutBoth(p, h) /\ Answer(c, p, h)
  <2>1. /\ fh' = [fh EXCEPT ![p] = h] /\ fn' = [fn EXCEPT ![h] = p]
        /\ call'[c].pc = "done" /\ UNCHANGED <<retired, torn>>
        /\ \A d \in Calls : d # c => call'[d] = call[d]
        /\ fh \in [Paths -> Handles \cup {None}]
    BY <1>1, <1>3, AnswerCall DEF LookupWrite, PutBoth, TypeOK
  <2>2. p \in Touched(call[c])
    BY <1>1, NoneAssumption DEF Touched
  <2>3. fh[p] = None /\ fn[h] = None /\ h \notin retired
    BY DEF LookupWrite, RInv, StillSo, IInv, FreshHeld, MissingPcs
  <2>4. TableOf[p] = None /\ TableOf'[p] = h
    BY <1>1, <2>1, <2>2, <2>3, EntryShown DEF LookupWrite
  <2>5. \A s \in Paths : s # p => TableOf'[s] = TableOf[s]
    BY <2>1, EntryKept DEF LookupWrite
  <2>6. TableOf' = [TableOf EXCEPT ![p] = h]
    BY <2>4, <2>5 DEF TableOf
  <2>7. Table!Issue(p, h)
    BY <2>1, <2>3, <2>4, <2>6 DEF Table!Issue, Table!Unused, Table!Assign
  <2>8. RInv'
    BY <1>1, <2>1, <2>2, BatchKeeps
  <2>9. QED
    BY <1>1, <2>7, <2>8 DEF Table!TabNext
<1>4. QED
  BY <1>2, <1>3 DEF LookupWrite

(* The batch of an mv whose old path had no entry: a MoveUnknown.          *)
LEMMA RefMvNew ==
    ASSUME Apart, RInv, IInv', NEW c \in Calls, call[c].pc = "mv_write_new",
           PutBoth(call[c].q, call[c].h), Answer(c, call[c].p, call[c].h),
           UNCHANGED <<issued, retired, torn>>
    PROVE  RInv' /\ [Table!TabNext]_Table!tabvars
<1> DEFINE p == call[c].p  q == call[c].q  h == call[c].h
<1>1. Busy(c) /\ p \in Paths /\ q \in Paths /\ h \in Handles /\ TypeOK
  BY Locals DEF Busy, HoldPcs, IsMv, MvPcs
<1>2. /\ fh' = [fh EXCEPT ![q] = h] /\ fn' = [fn EXCEPT ![h] = q]
      /\ call'[c].pc = "done"
      /\ \A d \in Calls : d # c => call'[d] = call[d]
      /\ fh \in [Paths -> Handles \cup {None}]
  BY <1>1, AnswerCall DEF PutBoth, TypeOK
<1>3. p \in Touched(call[c]) /\ q \in Touched(call[c])
  BY <1>1, NoneAssumption DEF Touched
<1>4. fh[p] = None /\ fn[h] = None /\ h \notin retired
  BY DEF RInv, StillSo, IInv, FreshHeld, MissingPcs
<1>5. TableOf[p] = None /\ TableOf'[q] = h
  BY <1>1, <1>2, <1>3, <1>4, EntryShown
<1>6. \A s \in Paths : s # q => TableOf'[s] = TableOf[s]
  BY <1>2, EntryKept
<1>7. TableOf' = [TableOf EXCEPT ![q] = h]
  BY <1>5, <1>6 DEF TableOf
<1>8. Table!MoveUnknown(p, q, h)
  BY <1>2, <1>4, <1>5, <1>7
     DEF Table!MoveUnknown, Table!Unused, Table!Assign
<1>9. RInv'
  BY <1>1, <1>2, <1>3, BatchKeeps
<1>10. QED
  BY <1>1, <1>8, <1>9 DEF Table!TabNext

(* The first batch of an mv that carries a handle over: a Move.  The old   *)
(* path keeps its entry until the cleanup, but the table shows none.       *)
LEMMA RefMvCarry ==
    ASSUME Apart, RInv, IInv', NEW c \in Calls, call[c].pc = "mv_write",
           PutBoth(call[c].q, call[c].h), GoOn(c, "mv_cleanup", call[c].h),
           UNCHANGED <<issued, retired, torn>>
    PROVE  RInv' /\ [Table!TabNext]_Table!tabvars
<1> DEFINE p == call[c].p  q == call[c].q  h == call[c].h
<1>1. Busy(c) /\ p \in Paths /\ q \in Paths /\ h \in Handles /\ TypeOK
  BY Locals DEF Busy, HoldPcs, IsMv, MvPcs
<1>2. /\ fh' = [fh EXCEPT ![q] = h] /\ fn' = [fn EXCEPT ![h] = q]
      /\ call'[c].pc = "mv_cleanup"
      /\ call'[c].p = p /\ call'[c].q = q /\ call'[c].h = h
      /\ \A d \in Calls : d # c => call'[d] = call[d]
      /\ fh \in [Paths -> Handles \cup {None}]
  BY <1>1, GoOnCall DEF PutBoth, TypeOK, Pcs, MvPcs
<1>3. p \in Touched(call[c]) /\ q \in Touched(call[c])
  BY <1>1, NoneAssumption DEF Touched
<1>4. fh[p] = h /\ fh'[p] = h /\ fh'[q] = h
  BY <1>1, <1>2 DEF RInv, StillSo, FoundPcs
<1>5. TableOf[p] = h
  BY <1>1, <1>2, <1>3, <1>4, EntryShown
<1>6. TableOf'[p] = None
  BY <1>1, <1>2, <1>4 DEF TableOf, AwaitsCleanup
<1>7. q # p => TableOf'[q] = h
  BY <1>1, <1>2, <1>3, <1>4, EntryShown
<1>8. \A s \in Paths : s # q /\ s # p => TableOf'[s] = TableOf[s]
  BY <1>2, EntryKept
<1>9. TableOf' = [TableOf EXCEPT ![q] = h, ![p] = None]
  BY <1>1, <1>6, <1>7, <1>8 DEF TableOf
<1>10. Table!Move(p, q)
  BY <1>1, <1>2, <1>5, <1>9, NoneAssumption DEF Table!Move
<1>11. RInv'
  BY <1>1, <1>2, <1>3, <1>4, BatchKeeps
<1>12. QED
  BY <1>1, <1>10, <1>11 DEF Table!TabNext

LEMMA RefMvWrite ==
    ASSUME Apart, RInv, IInv', NEW c \in Calls, MvWrite(c)
    PROVE  RInv' /\ [Table!TabNext]_Table!tabvars
<1>1. Busy(c)
  BY DEF MvWrite, Busy
<1>2. CASE Fail(c) /\ UNCHANGED db
  BY <1>1, <1>2, RefEnd DEF MvWrite, db
<1>3. CASE ~(Fail(c) /\ UNCHANGED db)
  BY <1>3, RefMvCarry, RefMvNew DEF MvWrite
<1>4. QED
  BY <1>2, <1>3

(* The cleanup changes an entry that the table does not show.              *)
LEMMA RefMvCleanup ==
    ASSUME Apart, RInv, IInv', NEW c \in Calls, MvCleanup(c)
    PROVE  RInv' /\ UNCHANGED Table!tabvars
<1> DEFINE p == call[c].p  h == call[c].h
<1>1. Busy(c) /\ p \in Paths /\ h \in Handles /\ TypeOK
  BY Locals DEF MvCleanup, Busy, HoldPcs
<1>2. /\ fh' = [fh EXCEPT ![p] = None] /\ UNCHANGED <<fn, retired, torn>>
      /\ call'[c].pc = "done"
      /\ \A d \in Calls : d # c => call'[d] = call[d]
      /\ fh \in [Paths -> Handles \cup {None}]
  BY <1>1, AnswerCall DEF MvCleanup, TypeOK, Apart
<1>3. p \in Touched(call[c])
  BY <1>1, NoneAssumption DEF Touched
<1>4. fh[p] = h
  BY DEF MvCleanup, RInv, StillSo, FoundPcs
<1>5. TableOf[p] = None
  BY <1>1, <1>4 DEF TableOf, AwaitsCleanup, MvCleanup
<1>6. TableOf'[p] = None
  BY <1>1, <1>2, <1>3, EntryShown
<1>7. \A s \in Paths : s # p => TableOf'[s] = TableOf[s]
  BY <1>2, EntryKept
<1>8. TableOf' = TableOf
  BY <1>5, <1>6, <1>7 DEF TableOf
<1>9. RInv'
  BY <1>1, <1>2, <1>3, BatchKeeps
<1>10. QED
  BY <1>2, <1>8, <1>9 DEF Table!tabvars

(* del: a Drop. *)
LEMMA RefDelWrite ==
    ASSUME Apart, RInv, IInv', NEW c \in Calls, DelWrite(c)
    PROVE  RInv' /\ [Table!TabNext]_Table!tabvars
<1> DEFINE p == call[c].p  h == call[c].h
<1>1. Busy(c) /\ p \in Paths /\ h \in Handles /\ TypeOK
  BY Locals DEF DelWrite, Busy, HoldPcs
<1>2. CASE Fail(c) /\ UNCHANGED <<fh, fn, retired>>
  BY <1>1, <1>2, RefEnd DEF DelWrite
<1>3. CASE DelBoth(p, h) /\ retired' = retired \cup {h} /\ Answer(c, p, h)
  <2>1. /\ fh' = [fh EXCEPT ![p] = None] /\ fn' = [fn EXCEPT ![h] = None]
        /\ call'[c].pc = "done" /\ UNCHANGED torn
        /\ retired' = retired \cup {h}
        /\ \A d \in Calls : d # c => call'[d] = call[d]
        /\ fh \in [Paths -> Handles \cup {None}]
    BY <1>1, <1>3, AnswerCall DEF DelWrite, DelBoth, TypeOK
  <2>2. p \in Touched(call[c])
    BY <1>1, NoneAssumption DEF Touched
  <2>3. fh[p] = h
    BY DEF DelWrite, RInv, StillSo, FoundPcs
  <2>4. TableOf[p] = h /\ TableOf'[p] = None
    BY <1>1, <2>1, <2>2, <2>3, EntryShown DEF DelWrite
  <2>5. \A s \in Paths : s # p => TableOf'[s] = TableOf[s]
    BY <2>1, EntryKept DEF DelWrite
  <2>6. TableOf' = [TableOf EXCEPT ![p] = None]
    BY <2>4, <2>5 DEF TableOf
  <2>7. Table!Drop(p)
    BY <1>1, <2>1, <2>4, <2>6, NoneAssumption DEF Table!Drop
  <2>8. RInv'
    BY <1>1, <2>1, <2>2, BatchKeeps
  <2>9. QED
    BY <1>1, <2>7, <2>8 DEF Table!TabNext
<1>4. QED
  BY <1>2, <1>3 DEF DelWrite

-----------------------------------------------------------------------------

LEMMA RefNext ==
    ASSUME Apart, RInv, [Next]_vars
    PROVE  RInv' /\ [Table!TabNext]_Table!tabvars
<1>1. IInv'
  BY InvNext DEF Apart, Disciplined, RInv
<1>2. ASSUME NEW c \in Calls, Step(c)
      PROVE  RInv' /\ [Table!TabNext]_Table!tabvars
  BY <1>1, <1>2, RefReads, RefLookupWrite, RefMvWrite, RefMvCleanup,
     RefDelWrite DEF Step
<1>3. ASSUME NEW c \in Calls, Start(c) \/ Return(c)
      PROVE  RInv' /\ [Table!TabNext]_Table!tabvars
  BY <1>1, <1>3, RefStart, RefReturn
<1>4. CASE UNCHANGED vars
  <2>1. CallsApart' /\ StillSo'
    BY <1>4 DEF vars, RInv, CallsApart, StillSo, Busy
  <2>2. UNCHANGED Table!tabvars
    BY <1>4 DEF vars, Table!tabvars, TableOf, AwaitsCleanup
  <2>3. QED
    BY <1>1, <1>4, <2>1, <2>2 DEF vars, RInv
<1>5. ~Crash
  BY DEF Crash, Apart
<1>6. QED
  BY <1>2, <1>3, <1>4, <1>5 DEF Next

(* To callers whose calls in flight have no path in common, lookup, mv and *)
(* del are single steps on a table of handles, as long as no get fails and *)
(* no mv is cut off between its two batches; any batch may fail.           *)
THEOREM ImplementsHandleTable ==
    ASSUME Overlap = "disjoint", Faults \subseteq {"write"}
    PROVE  Spec => ImplementsTable
<1>1. Init => RInv /\ Table!TabInit
  BY RefInit
<1>2. RInv /\ [Next]_vars => RInv' /\ [Table!TabNext]_Table!tabvars
  BY RefNext DEF Apart
<1>3. QED
  BY <1>1, <1>2, PTL DEF Spec, ImplementsTable, Table!TabSpec

=============================================================================
