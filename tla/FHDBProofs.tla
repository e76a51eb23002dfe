----------------------------- MODULE FHDBProofs -----------------------------
(***************************************************************************)
(* Theorems about FHDB, for every set of calls, paths and uuids: types,    *)
(* and the two safety invariants for callers that keep the discipline      *)
(* they need.                                                              *)
(***************************************************************************)
EXTENDS FHDB, TLAPS

(* What the callers must keep to: nobody renames, or no mv is in flight    *)
(* together with another call that gives up the same path.  Nothing is     *)
(* assumed about failures and restarts.                                    *)
Disciplined == ~Renames \/ Overlap \in {"sources", "disjoint"}

-----------------------------------------------------------------------------
(* The inductive invariant. *)

(* The accesses at which a call holds a handle it will write or has written. *)
HoldPcs == {"lookup_write", "mv_write", "mv_write_new", "mv_cleanup",
            "del_write"}
Holds(c) == call[c].pc \in HoldPcs

SourcesExclusive ==
    \A c, d \in Calls : c # d => ~SourceClash(call[c], call[d])

MvOnlyWhenAllowed == ~Renames => \A c \in Calls : ~IsMv(call[c])

(* Every uuid in the database or in a call's hand has been drawn. *)
AllIssued ==
    /\ \A p \in Paths : fh[p] # None => fh[p] \in issued
    /\ \A h \in Handles : fn[h] # None => h \in issued
    /\ retired \cup torn \subseteq issued
    /\ \A c \in Calls : Holds(c) => call[c].h \in issued

(* What a get found still holds when the batch is written, but for a torn  *)
(* handle.                                                                 *)
MvHolds ==
    \A c \in Calls :
        call[c].pc = "mv_write" =>
            fn[call[c].h] = call[c].p \/ call[c].h \in torn
DelHolds ==
    \A c \in Calls :
        call[c].pc = "del_write" =>
            fn[call[c].h] \in {call[c].p, None} \/ call[c].h \in torn

(* A uuid that has been drawn and not yet recorded is known to nobody else. *)
FreshHeld ==
    \A c \in Calls :
        call[c].pc \in {"lookup_write", "mv_write_new"} =>
            /\ fn[call[c].h] = None
            /\ call[c].h \notin retired
            /\ \A p \in Paths : fh[p] # call[c].h
            /\ \A d \in Calls : d # c /\ Holds(d) => call[d].h # call[c].h

IInv == /\ TypeOK
        /\ ForwardConsistent
        /\ NoResurrection
        /\ SourcesExclusive
        /\ MvOnlyWhenAllowed
        /\ AllIssued
        /\ MvHolds
        /\ DelHolds
        /\ FreshHeld

-----------------------------------------------------------------------------
(* What a step does to the locals of the call it belongs to: the other     *)
(* calls keep theirs.                                                      *)

LEMMA BeginCall ==
    ASSUME TypeOK, NEW c \in Calls, NEW r \in CallState, Begin(c, r)
    PROVE  /\ call' \in [Calls -> CallState]
           /\ call'[c] = r
           /\ \A d \in Calls : d # c => call'[d] = call[d]
BY DEF TypeOK, Begin

LEMMA AnswerCall ==
    ASSUME TypeOK, NEW c \in Calls, NEW p \in Paths \cup {None},
           NEW h \in Handles \cup {None}, Answer(c, p, h)
    PROVE  /\ call' \in [Calls -> CallState]
           /\ call'[c].pc = "done"
           /\ \A d \in Calls : d # c => call'[d] = call[d]
BY DEF TypeOK, Answer, CallState, Pcs

LEMMA FailCall ==
    ASSUME TypeOK, NEW c \in Calls, Fail(c)
    PROVE  /\ call' \in [Calls -> CallState]
           /\ call'[c].pc = "done"
           /\ \A d \in Calls : d # c => call'[d] = call[d]
BY DEF TypeOK, Fail, CallState, Pcs

LEMMA GoOnCall ==
    ASSUME TypeOK, NEW c \in Calls, NEW pc \in Pcs,
           NEW h \in Handles \cup {None}, GoOn(c, pc, h)
    PROVE  /\ call' \in [Calls -> CallState]
           /\ call'[c].pc = pc
           /\ call'[c].h = h
           /\ call'[c].p = call[c].p
           /\ call'[c].q = call[c].q
           /\ \A d \in Calls : d # c => call'[d] = call[d]
BY DEF TypeOK, GoOn, CallState

-----------------------------------------------------------------------------
(* Type correctness. *)

LEMMA TypeInit == Init => TypeOK
BY DEF Init, TypeOK, Idle, CallState, Pcs, Busy, IsMv, MvPcs, DelPcs

(* The local part of TypeOK is about one call at a time, so a step has to  *)
(* establish it for the call it belongs to only.                           *)
LocalOK(r) ==
    /\ r.pc \in {"fhandle_get", "lookup_write", "mv_write",
                 "mv_write_new", "mv_cleanup", "del_write"}
          => r.h \in Handles
    /\ r.pc \notin {"idle", "done", "fhandle_get"} => r.p \in Paths
    /\ IsMv(r) => r.q \in Paths

LEMMA TypeSplit ==
    TypeOK <=> /\ fh \in [Paths -> Handles \cup {None}]
               /\ fn \in [Handles -> Paths \cup {None}]
               /\ issued \subseteq Handles
               /\ retired \subseteq Handles
               /\ torn \subseteq Handles
               /\ call \in [Calls -> CallState]
               /\ \A c \in Calls : LocalOK(call[c])
BY DEF TypeOK, LocalOK, Busy

LEMMA TypeOneCall ==
    ASSUME TypeOK, NEW c \in Calls, call' \in [Calls -> CallState],
           \A d \in Calls : d # c => call'[d] = call[d],
           LocalOK(call'[c]),
           fh' \in [Paths -> Handles \cup {None}],
           fn' \in [Handles -> Paths \cup {None}],
           issued' \subseteq Handles, retired' \subseteq Handles,
           torn' \subseteq Handles
    PROVE  TypeOK'
<1>1. \A d \in Calls : LocalOK(call'[d])
  BY TypeSplit
<1>2. QED
  BY <1>1 DEF TypeOK, LocalOK, Busy

LEMMA TypeStart ==
    ASSUME TypeOK, NEW c \in Calls, Start(c)
    PROVE  TypeOK'
<1>1. SUFFICES ASSUME NEW r \in CallState, Begin(c, r), LocalOK(r)
               PROVE  TypeOK'
  <2>1. ASSUME NEW h \in Handles, StartFhandle(c, h)
        PROVE  \E r \in CallState : Begin(c, r) /\ LocalOK(r)
    <3> DEFINE r == [Idle EXCEPT !.pc = "fhandle_get", !.h = h]
    <3>1. r \in CallState /\ LocalOK(r)
      BY DEF Idle, CallState, Pcs, LocalOK, IsMv, MvPcs
    <3>2. QED  BY <3>1, <2>1 DEF StartFhandle
  <2>2. ASSUME NEW p \in Paths, StartLookup(c, p)
        PROVE  \E r \in CallState : Begin(c, r) /\ LocalOK(r)
    <3> DEFINE r == [Idle EXCEPT !.pc = "lookup_get", !.p = p]
    <3>1. r \in CallState /\ LocalOK(r)
      BY DEF Idle, CallState, Pcs, LocalOK, IsMv, MvPcs
    <3>2. QED  BY <3>1, <2>2 DEF StartLookup
  <2>3. ASSUME NEW p \in Paths, NEW q \in Paths, StartMv(c, p, q)
        PROVE  \E r \in CallState : Begin(c, r) /\ LocalOK(r)
    <3> DEFINE r == [Idle EXCEPT !.pc = "mv_get", !.p = p, !.q = q]
    <3>1. r \in CallState /\ LocalOK(r)
      BY DEF Idle, CallState, Pcs, LocalOK, IsMv, MvPcs
    <3>2. QED  BY <3>1, <2>3 DEF StartMv
  <2>4. ASSUME NEW p \in Paths, StartDel(c, p)
        PROVE  \E r \in CallState : Begin(c, r) /\ LocalOK(r)
    <3> DEFINE r == [Idle EXCEPT !.pc = "del_get", !.p = p]
    <3>1. r \in CallState /\ LocalOK(r)
      BY DEF Idle, CallState, Pcs, DelPcs, LocalOK, IsMv, MvPcs
    <3>2. QED  BY <3>1, <2>4 DEF StartDel
  <2>5. QED
    BY <2>1, <2>2, <2>3, <2>4 DEF Start
<1>2. UNCHANGED <<fh, fn, issued, retired, torn>>
  BY <1>1 DEF Begin
<1>3. QED
  BY <1>1, <1>2, BeginCall, TypeOneCall, TypeSplit

LEMMA TypeStep ==
    ASSUME TypeOK, NEW c \in Calls, Step(c)
    PROVE  TypeOK'
<1> USE DEF LocalOK, IsMv, MvPcs, DelPcs, Pcs
<1>0. /\ LocalOK(call[c])
      /\ call[c] \in CallState
      /\ call[c].p \in Paths \cup {None}
      /\ call[c].h \in Handles \cup {None}
  BY TypeSplit DEF CallState
<1>1. CASE FhandleGet(c)
  <2>1. CASE Answer(c, fn[call[c].h], call[c].h)
    BY <1>0, <1>1, <2>1, AnswerCall, TypeOneCall, TypeSplit DEF FhandleGet
  <2>2. CASE Fail(c)
    BY <1>0, <1>1, <2>2, FailCall, TypeOneCall, TypeSplit DEF FhandleGet
  <2>3. QED  BY <1>1, <2>1, <2>2 DEF FhandleGet
<1>2. CASE LookupGet(c)
  <2>1. CASE Answer(c, call[c].p, fh[call[c].p])
    BY <1>0, <1>2, <2>1, AnswerCall, TypeOneCall, TypeSplit DEF LookupGet
  <2>2. CASE GoOn(c, "lookup_lstat", None)
    BY <1>0, <1>2, <2>2, GoOnCall, TypeOneCall, TypeSplit DEF LookupGet
  <2>3. QED  BY <1>2, <2>1, <2>2 DEF LookupGet
<1>3. ASSUME NEW found \in BOOLEAN, LookupLstat(c, found)
      PROVE  TypeOK'
  <2>1. ASSUME NEW h \in Handles, issued' = issued \cup {h},
               GoOn(c, "lookup_write", h)
        PROVE  TypeOK'
    BY <1>0, <1>3, <2>1, GoOnCall, TypeOneCall, TypeSplit DEF LookupLstat
  <2>2. CASE Fail(c) /\ UNCHANGED issued
    BY <1>0, <1>3, <2>2, FailCall, TypeOneCall, TypeSplit DEF LookupLstat
  <2>3. QED  BY <1>3, <2>1, <2>2 DEF LookupLstat
<1>4. CASE LookupWrite(c)
  <2>1. CASE PutBoth(call[c].p, call[c].h) /\ Answer(c, call[c].p, call[c].h)
    BY <1>0, <1>4, <2>1, AnswerCall, TypeOneCall, TypeSplit
       DEF LookupWrite, PutBoth
  <2>2. CASE Fail(c) /\ UNCHANGED db
    BY <1>0, <1>4, <2>2, FailCall, TypeOneCall, TypeSplit
       DEF LookupWrite, db
  <2>3. QED  BY <1>4, <2>1, <2>2 DEF LookupWrite
<1>5. CASE MvGet(c)
  <2>1. CASE GetOk(fh[call[c].p]) /\ GoOn(c, "mv_write", fh[call[c].p])
             /\ UNCHANGED issued
    BY <1>0, <1>5, <2>1, GoOnCall, TypeOneCall, TypeSplit DEF MvGet, GetOk
  <2>2. ASSUME NEW h \in Handles, issued' = issued \cup {h},
               GoOn(c, "mv_write_new", h)
        PROVE  TypeOK'
    BY <1>0, <1>5, <2>2, GoOnCall, TypeOneCall, TypeSplit DEF MvGet
  <2>3. QED  BY <1>5, <2>1, <2>2 DEF MvGet
<1>6. CASE MvWrite(c)
  <2>1. CASE PutBoth(call[c].q, call[c].h)
             /\ call[c].pc = "mv_write" /\ GoOn(c, "mv_cleanup", call[c].h)
    BY <1>0, <1>6, <2>1, GoOnCall, TypeOneCall, TypeSplit
       DEF MvWrite, PutBoth
  <2>2. CASE PutBoth(call[c].q, call[c].h)
             /\ Answer(c, call[c].p, call[c].h)
    BY <1>0, <1>6, <2>2, AnswerCall, TypeOneCall, TypeSplit
       DEF MvWrite, PutBoth
  <2>3. CASE Fail(c) /\ UNCHANGED db
    BY <1>0, <1>6, <2>3, FailCall, TypeOneCall, TypeSplit DEF MvWrite, db
  <2>4. QED  BY <1>6, <2>1, <2>2, <2>3 DEF MvWrite
<1>7. CASE MvCleanup(c)
  <2>1. CASE fh' = [fh EXCEPT ![call[c].p] = None] /\ UNCHANGED <<fn, torn>>
             /\ Answer(c, call[c].p, call[c].h)
    BY <1>0, <1>7, <2>1, AnswerCall, TypeOneCall, TypeSplit DEF MvCleanup
  <2>2. CASE Fail(c) /\ UNCHANGED db /\ torn' = torn \cup {call[c].h}
    BY <1>0, <1>7, <2>2, FailCall, TypeOneCall, TypeSplit DEF MvCleanup, db
  <2>3. QED  BY <1>7, <2>1, <2>2 DEF MvCleanup
<1>8. CASE DelGet(c)
  <2>1. CASE GetOk(fh[call[c].p]) /\ GoOn(c, "del_write", fh[call[c].p])
    BY <1>0, <1>8, <2>1, GoOnCall, TypeOneCall, TypeSplit DEF DelGet, GetOk
  <2>2. CASE Fail(c)
    BY <1>0, <1>8, <2>2, FailCall, TypeOneCall, TypeSplit DEF DelGet
  <2>3. QED  BY <1>8, <2>1, <2>2 DEF DelGet
<1>9. CASE DelWrite(c)
  <2>1. CASE DelBoth(call[c].p, call[c].h) /\ Answer(c, call[c].p, call[c].h)
             /\ retired' = retired \cup {call[c].h}
    BY <1>0, <1>9, <2>1, AnswerCall, TypeOneCall, TypeSplit
       DEF DelWrite, DelBoth
  <2>2. CASE Fail(c) /\ UNCHANGED <<fh, fn, retired>>
    BY <1>0, <1>9, <2>2, FailCall, TypeOneCall, TypeSplit DEF DelWrite
  <2>3. QED  BY <1>9, <2>1, <2>2 DEF DelWrite
<1>10. QED
  BY <1>1, <1>2, <1>3, <1>4, <1>5, <1>6, <1>7, <1>8, <1>9 DEF Step

LEMMA TypeNext == TypeOK /\ [Next]_vars => TypeOK'
<1> SUFFICES ASSUME TypeOK, [Next]_vars PROVE TypeOK'
  OBVIOUS
<1>1. CASE Crash
  BY <1>1, TypeSplit
     DEF Crash, TypeOK, Idle, CallState, Pcs, Busy, IsMv, MvPcs, DelPcs
<1>2. ASSUME NEW c \in Calls, Return(c)
      PROVE  TypeOK'
  <2>1. Idle \in CallState /\ LocalOK(Idle)
    BY DEF Idle, CallState, Pcs, LocalOK, IsMv, MvPcs
  <2>2. QED
    BY <1>2, <2>1, TypeSplit, TypeOneCall DEF Return
<1>3. CASE UNCHANGED vars
  BY <1>3 DEF vars, TypeOK, Busy
<1>4. QED
  BY <1>1, <1>2, <1>3, TypeStart, TypeStep DEF Next

(* The databases and the locals of every call keep their types, for any    *)
(* callers and any failures.                                               *)
THEOREM TypeCorrect == Spec => []TypeOK
BY TypeInit, TypeNext, PTL DEF Spec

-----------------------------------------------------------------------------
(* The two safety invariants. *)

LEMMA InvInit == Init => IInv
<1> SUFFICES ASSUME Init PROVE IInv
  OBVIOUS
<1>1. \A c \in Calls : call[c].pc = "idle"
  BY DEF Init, Idle
<1>2. /\ \A p \in Paths : fh[p] = None
      /\ \A h \in Handles : fn[h] = None
      /\ retired = {} /\ torn = {}
  BY DEF Init
<1>3. ForwardConsistent /\ NoResurrection
  BY <1>2 DEF ForwardConsistent, NoResurrection
<1>4. SourcesExclusive /\ MvOnlyWhenAllowed
  BY <1>1 DEF SourcesExclusive, MvOnlyWhenAllowed, SourceClash, IsMv, IsDel,
              MvPcs, DelPcs
<1>5. AllIssued /\ MvHolds /\ DelHolds /\ FreshHeld
  BY <1>1, <1>2 DEF AllIssued, MvHolds, DelHolds, FreshHeld, Holds, HoldPcs
<1>6. QED
  BY <1>3, <1>4, <1>5, TypeInit DEF IInv

(* What a call may hold, seen from the others' and the database's side. *)
HoldsWell(c, r) ==
    /\ \A d \in Calls : d # c => /\ ~SourceClash(r, call[d])
                                 /\ ~SourceClash(call[d], r)
    /\ IsMv(r) => Renames
    /\ r.pc = "mv_write" => fn[r.h] = r.p \/ r.h \in torn
    /\ r.pc = "del_write" => fn[r.h] \in {r.p, None} \/ r.h \in torn
    /\ r.pc \in {"lookup_write", "mv_write_new"} =>
        /\ fn[r.h] = None
        /\ r.h \notin retired
        /\ \A p \in Paths : fh[p] # r.h
        /\ \A d \in Calls : d # c /\ Holds(d) => call[d].h # r.h
    /\ r.pc \in HoldPcs =>
        \A d \in Calls :
            d # c /\ call[d].pc \in {"lookup_write", "mv_write_new"}
                => call[d].h # r.h

(* A step that leaves the database alone keeps the invariant if the call   *)
(* it belongs to holds well what it holds afterwards.                      *)
LEMMA CallOnly ==
    ASSUME IInv, TypeOK', NEW c \in Calls, UNCHANGED <<fh, fn, retired, torn>>,
           \A d \in Calls : d # c => call'[d] = call[d],
           call[c].pc # "mv_cleanup",
           issued \subseteq issued',
           call'[c].pc \in HoldPcs => call'[c].h \in issued',
           HoldsWell(c, call'[c])
    PROVE  IInv'
<1>1. ForwardConsistent'
  BY DEF IInv, ForwardConsistent, AwaitsCleanup
<1>2. NoResurrection'
  BY DEF IInv, NoResurrection
<1>3. SourcesExclusive'
  <2> SUFFICES ASSUME NEW a \in Calls, NEW b \in Calls, a # b
               PROVE  ~SourceClash(call'[a], call'[b])
    BY DEF SourcesExclusive, SourceClash, IsMv, IsDel
  <2>1. CASE a = c
    BY <2>1 DEF HoldsWell
  <2>2. CASE b = c
    BY <2>2 DEF HoldsWell
  <2>3. CASE a # c /\ b # c
    BY <2>3 DEF IInv, SourcesExclusive
  <2>4. QED  BY <2>1, <2>2, <2>3
<1>4. MvOnlyWhenAllowed'
  BY DEF IInv, MvOnlyWhenAllowed, IsMv, HoldsWell
<1>5. AllIssued'
  BY DEF IInv, AllIssued, Holds
<1>6. MvHolds'
  BY DEF IInv, MvHolds, HoldsWell
<1>7. DelHolds'
  BY DEF IInv, DelHolds, HoldsWell
<1>8. FreshHeld'
  BY DEF IInv, FreshHeld, Holds, HoldsWell
<1>9. QED
  BY <1>1, <1>2, <1>3, <1>4, <1>5, <1>6, <1>7, <1>8 DEF IInv

(* A call that ends without having touched the database. *)
LEMMA EndOnly ==
    ASSUME IInv, TypeOK', NEW c \in Calls, UNCHANGED <<fh, fn, retired, issued, torn>>,
           \A d \in Calls : d # c => call'[d] = call[d],
           call[c].pc # "mv_cleanup", call'[c].pc \in {"done", "idle"}
    PROVE  IInv'
<1>1. HoldsWell(c, call'[c])
  BY DEF HoldsWell, SourceClash, IsMv, IsDel, MvPcs, DelPcs, HoldPcs
<1>2. QED
  BY <1>1, CallOnly DEF HoldPcs

LEMMA InvStart ==
    ASSUME Disciplined, IInv, NEW c \in Calls, Start(c)
    PROVE  IInv'
<1> USE DEF MvPcs, DelPcs
<1>1. TypeOK /\ TypeOK'
  BY TypeStart DEF IInv
<1>2. ~Busy(c)
  BY DEF Start, StartFhandle, StartLookup, StartMv, StartDel, Begin
<1>3. SUFFICES ASSUME NEW r \in CallState, Begin(c, r), IsMv(r) => Renames,
                      r.pc \notin HoldPcs,
                      IsMv(r) \/ IsDel(r) => r.p \in Paths
               PROVE  IInv'
  <2> USE DEF Idle, CallState, Pcs, IsMv, IsDel, HoldPcs
  <2>1. ASSUME NEW h \in Handles, StartFhandle(c, h)
        PROVE  IInv'
    <3> DEFINE r == [Idle EXCEPT !.pc = "fhandle_get", !.h = h]
    <3>1. r \in CallState /\ r.pc = "fhandle_get"
      OBVIOUS
    <3>2. QED  BY <3>1, <2>1, <1>3 DEF StartFhandle
  <2>2. ASSUME NEW p \in Paths, StartLookup(c, p)
        PROVE  IInv'
    <3> DEFINE r == [Idle EXCEPT !.pc = "lookup_get", !.p = p]
    <3>1. r \in CallState /\ r.pc = "lookup_get"
      OBVIOUS
    <3>2. QED  BY <3>1, <2>2, <1>3 DEF StartLookup
  <2>3. ASSUME NEW p \in Paths, NEW q \in Paths, StartMv(c, p, q)
        PROVE  IInv'
    <3> DEFINE r == [Idle EXCEPT !.pc = "mv_get", !.p = p, !.q = q]
    <3>1. r \in CallState /\ r.pc = "mv_get" /\ r.p = p
      OBVIOUS
    <3>2. QED  BY <3>1, <2>3, <1>3 DEF StartMv
  <2>4. ASSUME NEW p \in Paths, StartDel(c, p)
        PROVE  IInv'
    <3> DEFINE r == [Idle EXCEPT !.pc = "del_get", !.p = p]
    <3>1. r \in CallState /\ r.pc = "del_get" /\ r.p = p
      OBVIOUS
    <3>2. QED  BY <3>1, <2>4, <1>3 DEF StartDel
  <2>5. QED
    BY <2>1, <2>2, <2>3, <2>4 DEF Start
<1>4. /\ call'[c] = r
      /\ \A d \in Calls : d # c => call'[d] = call[d]
      /\ UNCHANGED <<fh, fn, issued, retired, torn>>
  BY <1>1, <1>3, BeginCall DEF Begin
<1>5. ASSUME NEW d \in Calls, d # c
      PROVE  ~SourceClash(r, call[d]) /\ ~SourceClash(call[d], r)
  <2>1. CASE ~Renames
    BY <2>1, <1>3 DEF IInv, MvOnlyWhenAllowed, SourceClash
  <2>2. CASE ~Busy(d)
    BY <2>2 DEF Busy, SourceClash, IsMv, IsDel
  <2>3. CASE Busy(d) /\ Overlap = "sources"
    BY <2>3, <1>3 DEF Begin, Admissible, SourceClash
  <2>4. CASE Busy(d) /\ Overlap = "disjoint"
    <3>1. ~(r.p \in Paths /\ r.p = call[d].p)
      BY <2>4, <1>3, NoneAssumption DEF Begin, Admissible, Touched
    <3>2. QED  BY <3>1, <1>3 DEF SourceClash
  <2>5. QED
    BY <2>1, <2>2, <2>3, <2>4 DEF Disciplined
<1>6. HoldsWell(c, r)
  BY <1>3, <1>5 DEF HoldsWell, HoldPcs
<1>7. QED
  BY <1>1, <1>2, <1>3, <1>4, <1>6, CallOnly DEF Busy

LEMMA InvFhandleGet ==
    ASSUME IInv, TypeOK', NEW c \in Calls, FhandleGet(c)
    PROVE  IInv'
<1>1. TypeOK /\ call[c] \in CallState /\ call[c].h \in Handles
  BY DEF IInv, TypeOK, FhandleGet
<1>2. CASE Answer(c, fn[call[c].h], call[c].h)
  BY <1>1, <1>2, AnswerCall, EndOnly DEF FhandleGet, TypeOK
<1>3. CASE Fail(c)
  BY <1>1, <1>3, FailCall, EndOnly DEF FhandleGet
<1>4. QED
  BY <1>2, <1>3 DEF FhandleGet

LEMMA InvLookupGet ==
    ASSUME IInv, TypeOK', NEW c \in Calls, LookupGet(c)
    PROVE  IInv'
<1>1. TypeOK /\ call[c] \in CallState /\ call[c].p \in Paths
  BY DEF IInv, TypeOK, LookupGet, Busy
<1>2. CASE Answer(c, call[c].p, fh[call[c].p])
  BY <1>1, <1>2, AnswerCall, EndOnly DEF LookupGet, TypeOK
<1>3. CASE GoOn(c, "lookup_lstat", None)
  <2>1. /\ call'[c].pc = "lookup_lstat"
        /\ \A d \in Calls : d # c => call'[d] = call[d]
    <3>1. "lookup_lstat" \in Pcs
      BY DEF Pcs
    <3>2. QED
      BY <1>1, <1>3, <3>1, GoOnCall
  <2>2. HoldsWell(c, call'[c])
    BY <2>1 DEF HoldsWell, SourceClash, IsMv, IsDel, MvPcs, DelPcs, HoldPcs
  <2>3. QED
    BY <2>1, <2>2, CallOnly DEF LookupGet, HoldPcs
<1>4. QED
  BY <1>2, <1>3 DEF LookupGet

(* A uuid just drawn is held well by the call that drew it. *)
LEMMA DrawOnly ==
    ASSUME IInv, TypeOK', NEW c \in Calls, UNCHANGED <<fh, fn, retired, torn>>,
           NEW h \in Handles, Fresh(h), issued' = issued \cup {h},
           \/ call[c].pc = "lookup_lstat" /\ GoOn(c, "lookup_write", h)
           \/ call[c].pc = "mv_get" /\ GoOn(c, "mv_write_new", h)
    PROVE  IInv'
<1>1. /\ call'[c].pc \in {"lookup_write", "mv_write_new"}
      /\ call'[c].pc = "mv_write_new" => call[c].pc = "mv_get"
      /\ call'[c].h = h
      /\ call'[c].p = call[c].p
      /\ \A d \in Calls : d # c => call'[d] = call[d]
  <2>1. TypeOK /\ h \in Handles \cup {None}
    BY DEF IInv
  <2>2. "lookup_write" \in Pcs /\ "mv_write_new" \in Pcs
    BY DEF Pcs, MvPcs
  <2>3. CASE call[c].pc = "lookup_lstat" /\ GoOn(c, "lookup_write", h)
    BY <2>1, <2>2, <2>3, GoOnCall
  <2>4. CASE call[c].pc = "mv_get" /\ GoOn(c, "mv_write_new", h)
    BY <2>1, <2>2, <2>4, GoOnCall
  <2>5. QED
    BY <2>3, <2>4
<1>2. /\ fn[h] = None
      /\ h \notin retired
      /\ \A p \in Paths : fh[p] # h
      /\ \A d \in Calls : Holds(d) => call[d].h # h
  BY NoneAssumption DEF IInv, AllIssued, Fresh
<1>3. \A d \in Calls : d # c => /\ ~SourceClash(call'[c], call[d])
                               /\ ~SourceClash(call[d], call'[c])
  BY <1>1 DEF IInv, SourcesExclusive, SourceClash, IsMv, IsDel, MvPcs, DelPcs
<1>4. IsMv(call'[c]) => Renames
  BY <1>1 DEF IInv, MvOnlyWhenAllowed, IsMv, MvPcs
<1>5. HoldsWell(c, call'[c])
  BY <1>1, <1>2, <1>3, <1>4 DEF HoldsWell, Holds, HoldPcs
<1>6. QED
  BY <1>1, <1>5, CallOnly

LEMMA InvLookupLstat ==
    ASSUME IInv, TypeOK', NEW c \in Calls, NEW found \in BOOLEAN,
           LookupLstat(c, found)
    PROVE  IInv'
<1>1. CASE Fail(c) /\ UNCHANGED issued
  BY <1>1, FailCall, EndOnly DEF LookupLstat, IInv
<1>2. ASSUME NEW h \in Handles, Fresh(h), issued' = issued \cup {h},
             GoOn(c, "lookup_write", h)
      PROVE  IInv'
  BY <1>2, DrawOnly DEF LookupLstat
<1>3. QED
  BY <1>1, <1>2 DEF LookupLstat

LEMMA InvMvGet ==
    ASSUME IInv, TypeOK', NEW c \in Calls, MvGet(c)
    PROVE  IInv'
<1>1. TypeOK /\ call[c] \in CallState /\ call[c].p \in Paths
  BY DEF IInv, TypeOK, MvGet, Busy
<1>2. ASSUME NEW h \in Handles, Fresh(h), issued' = issued \cup {h},
             GoOn(c, "mv_write_new", h)
      PROVE  IInv'
  BY <1>2, DrawOnly DEF MvGet
<1>3. CASE GetOk(fh[call[c].p]) /\ GoOn(c, "mv_write", fh[call[c].p])
           /\ UNCHANGED issued
  <2> DEFINE p == call[c].p
             h == fh[p]
  <2>1. h \in Handles /\ h \in issued
    BY <1>1, <1>3 DEF GetOk, TypeOK, IInv, AllIssued
  <2>2. /\ call'[c].pc = "mv_write"
        /\ call'[c].h = h
        /\ call'[c].p = p
        /\ \A d \in Calls : d # c => call'[d] = call[d]
    <3>1. "mv_write" \in Pcs
      BY DEF Pcs, MvPcs
    <3>2. h \in Handles \cup {None} /\ GoOn(c, "mv_write", h)
      BY <1>3, <2>1
    <3>3. QED
      BY <1>1, <3>1, <3>2, GoOnCall
  <2>3. \A d \in Calls : d # c => /\ ~SourceClash(call'[c], call[d])
                                 /\ ~SourceClash(call[d], call'[c])
    BY <2>2 DEF MvGet, IInv, SourcesExclusive, SourceClash, IsMv, IsDel, MvPcs,
                DelPcs
  <2>4. IsMv(call'[c]) => Renames
    BY DEF MvGet, IInv, MvOnlyWhenAllowed, IsMv, MvPcs
  <2>5. fn[h] = p \/ h \in torn
    <3>1. ~AwaitsCleanup(p, h)
      BY DEF MvGet, AwaitsCleanup, IInv, SourcesExclusive, SourceClash, IsMv,
             MvPcs
    <3>2. QED  BY <1>1, <1>3, <3>1 DEF GetOk, IInv, ForwardConsistent
  <2>6. \A d \in Calls : call[d].pc \in {"lookup_write", "mv_write_new"}
            => call[d].h # h
    BY <1>1 DEF IInv, FreshHeld
  <2>7. HoldsWell(c, call'[c])
    BY <2>2, <2>3, <2>4, <2>5, <2>6 DEF HoldsWell
  <2>8. QED
    BY <1>3, <2>1, <2>2, <2>7, CallOnly DEF MvGet
<1>4. QED
  BY <1>2, <1>3 DEF MvGet

LEMMA InvDelGet ==
    ASSUME IInv, TypeOK', NEW c \in Calls, DelGet(c)
    PROVE  IInv'
<1>1. TypeOK /\ call[c] \in CallState /\ call[c].p \in Paths
  BY DEF IInv, TypeOK, DelGet, Busy
<1>2. CASE Fail(c)
  BY <1>1, <1>2, FailCall, EndOnly DEF DelGet
<1>3. CASE GetOk(fh[call[c].p]) /\ GoOn(c, "del_write", fh[call[c].p])
  <2> DEFINE p == call[c].p
             h == fh[p]
  <2>1. h \in Handles /\ h \in issued
    BY <1>1, <1>3 DEF GetOk, TypeOK, IInv, AllIssued
  <2>2. /\ call'[c].pc = "del_write"
        /\ call'[c].h = h
        /\ call'[c].p = p
        /\ \A d \in Calls : d # c => call'[d] = call[d]
    <3>1. "del_write" \in Pcs
      BY DEF Pcs, DelPcs
    <3>2. h \in Handles \cup {None} /\ GoOn(c, "del_write", h)
      BY <1>3, <2>1
    <3>3. QED
      BY <1>1, <3>1, <3>2, GoOnCall
  <2>3. \A d \in Calls : d # c => /\ ~SourceClash(call'[c], call[d])
                                 /\ ~SourceClash(call[d], call'[c])
    BY <2>2 DEF DelGet, IInv, SourcesExclusive, SourceClash, IsMv, IsDel, MvPcs,
                DelPcs
  <2>4. ~IsMv(call'[c])
    BY <2>2 DEF IsMv, MvPcs
  <2>5. fn[h] = p \/ h \in torn
    <3>1. ~AwaitsCleanup(p, h)
      BY DEF DelGet, AwaitsCleanup, IInv, SourcesExclusive, SourceClash, IsMv,
             IsDel, MvPcs, DelPcs
    <3>2. QED  BY <1>1, <1>3, <3>1 DEF GetOk, IInv, ForwardConsistent
  <2>6. \A d \in Calls : call[d].pc \in {"lookup_write", "mv_write_new"}
            => call[d].h # h
    BY <1>1 DEF IInv, FreshHeld
  <2>7. HoldsWell(c, call'[c])
    BY <2>2, <2>3, <2>4, <2>5, <2>6 DEF HoldsWell
  <2>8. QED
    BY <1>3, <2>1, <2>2, <2>7, CallOnly DEF DelGet
<1>4. QED
  BY <1>2, <1>3 DEF DelGet

(* A call that ends releases what it held: the others' part of the         *)
(* invariant only has to survive the change of the database.               *)
LEMMA ExclusiveAtEnd ==
    ASSUME IInv, NEW c \in Calls,
           call'[c].pc \notin DelPcs, IsMv(call'[c]) => IsMv(call[c]),
           call'[c].p = call[c].p \/ call'[c].pc = "done",
           \A d \in Calls : d # c => call'[d] = call[d]
    PROVE  SourcesExclusive' /\ MvOnlyWhenAllowed'
<1>1. SourcesExclusive'
  <2> SUFFICES ASSUME NEW a \in Calls, NEW b \in Calls, a # b
               PROVE  ~SourceClash(call'[a], call'[b])
    BY DEF SourcesExclusive, SourceClash, IsMv, IsDel
  <2>1. \A d \in Calls : d # c => /\ ~SourceClash(call[c], call[d])
                                 /\ ~SourceClash(call[d], call[c])
    BY DEF IInv, SourcesExclusive
  <2>2. \A d \in Calls : d # c => /\ ~SourceClash(call'[c], call[d])
                                 /\ ~SourceClash(call[d], call'[c])
    BY <2>1 DEF SourceClash, IsMv, IsDel, MvPcs, DelPcs
  <2>3. CASE a = c \/ b = c
    BY <2>2, <2>3
  <2>4. CASE a # c /\ b # c
    BY <2>4 DEF IInv, SourcesExclusive
  <2>5. QED  BY <2>3, <2>4
<1>2. MvOnlyWhenAllowed'
  BY DEF IInv, MvOnlyWhenAllowed, IsMv
<1>3. QED
  BY <1>1, <1>2

(* The batch of lookup, and that of an mv whose old path had no entry: a   *)
(* handle nobody else knows becomes the handle of a path.                  *)
LEMMA RecordNew ==
    ASSUME IInv, TypeOK', NEW c \in Calls, NEW p \in Paths,
           call[c].pc \in {"lookup_write", "mv_write_new"},
           PutBoth(p, call[c].h), UNCHANGED <<issued, retired, torn>>,
           call'[c].pc = "done",
           \A d \in Calls : d # c => call'[d] = call[d]
    PROVE  IInv'
<1> DEFINE h == call[c].h
<1>1. /\ h \in Handles
      /\ fh' = [fh EXCEPT ![p] = h]
      /\ fn' = [fn EXCEPT ![h] = p]
      /\ fh \in [Paths -> Handles \cup {None}]
      /\ fn \in [Handles -> Paths \cup {None}]
  BY DEF IInv, TypeOK, PutBoth
<1>2. /\ fn[h] = None /\ h \notin retired /\ h \in issued
      /\ \A s \in Paths : fh[s] # h
      /\ \A d \in Calls : d # c /\ Holds(d) => call[d].h # h
  BY DEF IInv, FreshHeld, AllIssued, Holds, HoldPcs
<1>3. ForwardConsistent'
  <2> SUFFICES ASSUME NEW s \in Paths, fh'[s] # None
               PROVE  (\/ fn[fh[s]] = s
                       \/ AwaitsCleanup(s, fh[s])
                       \/ fh[s] \in torn)'
    BY DEF ForwardConsistent
  <2>1. CASE s = p
    BY <1>1, <2>1
  <2>2. CASE s # p
    <3>1. fh'[s] = fh[s] /\ fh[s] # h /\ fh[s] \in Handles
      BY <1>1, <1>2, <2>2
    <3>2. fn'[fh[s]] = fn[fh[s]]
      BY <1>1, <3>1
    <3>3. AwaitsCleanup(s, fh[s]) => AwaitsCleanup(s, fh[s])'
      BY <3>1 DEF AwaitsCleanup
    <3>4. QED  BY <3>1, <3>2, <3>3 DEF IInv, ForwardConsistent, AwaitsCleanup
  <2>3. QED  BY <2>1, <2>2
<1>4. NoResurrection'
  BY <1>1, <1>2 DEF IInv, NoResurrection, TypeOK
<1>5. SourcesExclusive' /\ MvOnlyWhenAllowed'
  BY ExclusiveAtEnd DEF IsMv, MvPcs, DelPcs
<1>6. AllIssued'
  BY <1>1, <1>2 DEF IInv, AllIssued, Holds, HoldPcs
<1>7. MvHolds' /\ DelHolds'
  BY <1>1, <1>2 DEF IInv, MvHolds, DelHolds, Holds, HoldPcs, TypeOK
<1>8. FreshHeld'
  BY <1>1, <1>2 DEF IInv, FreshHeld, Holds, HoldPcs, TypeOK
<1>9. QED
  BY <1>3, <1>4, <1>5, <1>6, <1>7, <1>8 DEF IInv

LEMMA InvLookupWrite ==
    ASSUME IInv, TypeOK', NEW c \in Calls, LookupWrite(c)
    PROVE  IInv'
<1>1. TypeOK /\ call[c] \in CallState /\ call[c].p \in Paths
             /\ call[c].h \in Handles
  BY DEF IInv, TypeOK, LookupWrite, Busy
<1>2. CASE Fail(c) /\ UNCHANGED db
  BY <1>1, <1>2, FailCall, EndOnly DEF LookupWrite, db
<1>3. CASE PutBoth(call[c].p, call[c].h) /\ Answer(c, call[c].p, call[c].h)
  BY <1>1, <1>3, AnswerCall, RecordNew DEF LookupWrite
<1>4. QED
  BY <1>2, <1>3 DEF LookupWrite

(* The first batch of an mv that carries a handle over.                    *)
LEMMA CarryOver ==
    ASSUME IInv, TypeOK', NEW c \in Calls, call[c].pc = "mv_write",
           PutBoth(call[c].q, call[c].h), UNCHANGED <<issued, retired, torn>>,
           GoOn(c, "mv_cleanup", call[c].h)
    PROVE  IInv'
<1> DEFINE h == call[c].h
           p == call[c].p
           q == call[c].q
<1>1. /\ h \in Handles /\ p \in Paths /\ q \in Paths
      /\ fh' = [fh EXCEPT ![q] = h]
      /\ fn' = [fn EXCEPT ![h] = q]
      /\ fh \in [Paths -> Handles \cup {None}]
      /\ fn \in [Handles -> Paths \cup {None}]
  BY DEF IInv, TypeOK, PutBoth, Busy, IsMv, MvPcs
<1>2. /\ call'[c].pc = "mv_cleanup" /\ call'[c].h = h /\ call'[c].p = p
      /\ \A d \in Calls : d # c => call'[d] = call[d]
  <2>1. "mv_cleanup" \in Pcs
    BY DEF Pcs, MvPcs
  <2>2. TypeOK /\ h \in Handles \cup {None} /\ GoOn(c, "mv_cleanup", h)
    BY <1>1 DEF IInv
  <2>3. QED
    BY <2>1, <2>2, GoOnCall
<1>3. /\ fn[h] = p \/ h \in torn
      /\ h \in issued
      /\ h \notin retired \ torn
  BY <1>1, NoneAssumption
     DEF IInv, MvHolds, AllIssued, Holds, HoldPcs, NoResurrection
<1>4. ForwardConsistent'
  <2> SUFFICES ASSUME NEW s \in Paths, fh'[s] # None
               PROVE  (\/ fn[fh[s]] = s
                       \/ AwaitsCleanup(s, fh[s])
                       \/ fh[s] \in torn)'
    BY DEF ForwardConsistent
  <2>1. CASE s = q
    BY <1>1, <2>1
  <2>2. CASE s # q
    <3>1. fh'[s] = fh[s] /\ fh[s] \in Handles
      BY <1>1, <2>2
    <3>2. CASE fh[s] # h
      <4>1. fn'[fh[s]] = fn[fh[s]]
        BY <1>1, <3>1, <3>2
      <4>2. CASE AwaitsCleanup(s, fh[s])
        BY <1>2, <3>1, <4>2 DEF AwaitsCleanup
      <4>3. QED  BY <3>1, <4>1, <4>2 DEF IInv, ForwardConsistent
    <3>3. CASE fh[s] = h
      <4>1. CASE fn[h] = s
        BY <1>2, <1>3, <3>1, <3>3, <4>1 DEF AwaitsCleanup
      <4>2. CASE AwaitsCleanup(s, h)
        BY <1>2, <3>1, <3>3, <4>2 DEF AwaitsCleanup
      <4>3. QED  BY <3>1, <3>3, <4>1, <4>2 DEF IInv, ForwardConsistent
    <3>4. QED  BY <3>2, <3>3
  <2>3. QED  BY <2>1, <2>2
<1>5. NoResurrection'
  BY <1>1, <1>3 DEF IInv, NoResurrection, TypeOK
<1>6. SourcesExclusive' /\ MvOnlyWhenAllowed'
  BY <1>2, ExclusiveAtEnd DEF IsMv, MvPcs, DelPcs
<1>7. AllIssued'
  BY <1>1, <1>2, <1>3 DEF IInv, AllIssued, Holds, HoldPcs
<1>8. \A d \in Calls : d # c /\ call[d].pc \in {"mv_write", "del_write"}
        => call[d].h # h \/ fn[h] = None \/ h \in torn
  <2>1. \A d \in Calls : d # c /\ (IsMv(call[d]) \/ IsDel(call[d]))
            => call[d].p # p
    BY DEF IInv, SourcesExclusive, SourceClash, IsMv, MvPcs
  <2>2. QED
    BY <1>3, <2>1 DEF IInv, MvHolds, DelHolds, IsMv, IsDel, MvPcs, DelPcs
<1>9. MvHolds' /\ DelHolds'
  BY <1>1, <1>2, <1>3, <1>8, NoneAssumption DEF IInv, MvHolds, DelHolds, TypeOK
<1>10. FreshHeld'
  <2>1. \A d \in Calls : call[d].pc \in {"lookup_write", "mv_write_new"}
            => call[d].h # h /\ call[d].h \in Handles
    BY <1>3, <1>1, NoneAssumption DEF IInv, FreshHeld, Holds, HoldPcs, TypeOK
  <2>2. QED
    BY <1>1, <1>2, <2>1 DEF IInv, FreshHeld, Holds, HoldPcs
<1>11. QED
  BY <1>4, <1>5, <1>6, <1>7, <1>9, <1>10 DEF IInv

LEMMA InvMvWrite ==
    ASSUME IInv, TypeOK', NEW c \in Calls, MvWrite(c)
    PROVE  IInv'
<1>1. TypeOK /\ call[c] \in CallState /\ call[c].p \in Paths
             /\ call[c].q \in Paths /\ call[c].h \in Handles
  BY DEF IInv, TypeOK, MvWrite, Busy, IsMv, MvPcs
<1>2. CASE Fail(c) /\ UNCHANGED db
  BY <1>1, <1>2, FailCall, EndOnly DEF MvWrite, db
<1>3. CASE PutBoth(call[c].q, call[c].h) /\ call[c].pc = "mv_write"
           /\ GoOn(c, "mv_cleanup", call[c].h)
  BY <1>3, CarryOver DEF MvWrite
<1>4. CASE PutBoth(call[c].q, call[c].h) /\ call[c].pc = "mv_write_new"
           /\ Answer(c, call[c].p, call[c].h)
  BY <1>1, <1>4, AnswerCall, RecordNew DEF MvWrite
<1>5. QED
  BY <1>2, <1>3, <1>4 DEF MvWrite

LEMMA InvMvCleanup ==
    ASSUME IInv, TypeOK', NEW c \in Calls, MvCleanup(c)
    PROVE  IInv'
<1> DEFINE p == call[c].p
<1>1. TypeOK /\ call[c] \in CallState /\ p \in Paths /\ call[c].h \in Handles
  BY DEF IInv, TypeOK, MvCleanup, Busy
<1>2. \/ fh' = [fh EXCEPT ![p] = None] /\ torn' = torn
      \/ fh' = fh /\ torn' = torn \cup {call[c].h}
  BY DEF MvCleanup, db
<1>3. /\ UNCHANGED <<fn, issued, retired>>
      /\ call[c].h \in issued
      /\ torn \subseteq torn'
  BY <1>2 DEF MvCleanup, db, IInv, AllIssued, Holds, HoldPcs
<1>4. /\ call'[c].pc = "done"
      /\ \A d \in Calls : d # c => call'[d] = call[d]
  BY <1>1, AnswerCall, FailCall DEF MvCleanup
<1>5. ForwardConsistent'
  <2> SUFFICES ASSUME NEW s \in Paths, fh'[s] # None
               PROVE  (\/ fn[fh[s]] = s
                       \/ AwaitsCleanup(s, fh[s])
                       \/ fh[s] \in torn)'
    BY DEF ForwardConsistent
  <2>1. fh'[s] = fh[s] /\ (s # p \/ call[c].h \in torn')
    BY <1>1, <1>2 DEF TypeOK
  <2>2. CASE fn[fh[s]] = s \/ fh[s] \in torn
    BY <1>3, <2>1, <2>2
  <2>3. CASE AwaitsCleanup(s, fh[s])
    BY <1>4, <2>1, <2>3 DEF AwaitsCleanup
  <2>4. QED  BY <2>1, <2>2, <2>3 DEF IInv, ForwardConsistent
<1>6. NoResurrection'
  BY <1>3 DEF IInv, NoResurrection
<1>7. SourcesExclusive' /\ MvOnlyWhenAllowed'
  BY <1>4, ExclusiveAtEnd DEF IsMv, MvPcs, DelPcs
<1>8. AllIssued' /\ MvHolds' /\ DelHolds'
  BY <1>1, <1>2, <1>3, <1>4 DEF IInv, AllIssued, MvHolds, DelHolds, Holds,
                                HoldPcs, TypeOK
<1>9. FreshHeld'
  <2>1. \A s \in Paths : fh'[s] # None => fh'[s] = fh[s]
    BY <1>1, <1>2 DEF TypeOK
  <2>2. \A d \in Calls : call[d].pc \in {"lookup_write", "mv_write_new"}
            => call[d].h # None
    BY NoneAssumption DEF IInv, TypeOK
  <2>3. QED
    BY <1>3, <1>4, <2>1, <2>2 DEF IInv, FreshHeld, Holds, HoldPcs
<1>10. QED
  BY <1>5, <1>6, <1>7, <1>8, <1>9 DEF IInv

LEMMA InvDelWrite ==
    ASSUME IInv, TypeOK', NEW c \in Calls, DelWrite(c)
    PROVE  IInv'
<1> DEFINE h == call[c].h
           p == call[c].p
<1>1. TypeOK /\ call[c] \in CallState /\ p \in Paths /\ h \in Handles
  BY DEF IInv, TypeOK, DelWrite, Busy
<1>2. CASE Fail(c) /\ UNCHANGED <<fh, fn, retired>>
  BY <1>1, <1>2, FailCall, EndOnly DEF DelWrite
<1>3. CASE DelBoth(p, h) /\ retired' = retired \cup {h} /\ Answer(c, p, h)
  <2>1. /\ fh' = [fh EXCEPT ![p] = None]
        /\ fn' = [fn EXCEPT ![h] = None]
        /\ retired' = retired \cup {h}
        /\ UNCHANGED <<issued, torn>>
        /\ fh \in [Paths -> Handles \cup {None}]
        /\ fn \in [Handles -> Paths \cup {None}]
    BY <1>1, <1>3 DEF DelBoth, DelWrite, TypeOK
  <2>2. /\ call'[c].pc = "done"
        /\ \A d \in Calls : d # c => call'[d] = call[d]
    BY <1>1, <1>3, AnswerCall
  <2>3. (fn[h] \in {p, None} \/ h \in torn) /\ h \in issued
    BY DEF DelWrite, IInv, DelHolds, AllIssued, Holds, HoldPcs
  <2>4. ForwardConsistent'
    <3> SUFFICES ASSUME NEW s \in Paths, fh'[s] # None
                 PROVE  (\/ fn[fh[s]] = s
                       \/ AwaitsCleanup(s, fh[s])
                       \/ fh[s] \in torn)'
      BY DEF ForwardConsistent
    <3>1. s # p /\ fh'[s] = fh[s] /\ fh[s] \in Handles
      BY <1>1, <2>1
    <3>2. CASE AwaitsCleanup(s, fh[s])
      BY <2>2, <3>1, <3>2 DEF AwaitsCleanup, DelWrite
    <3>3. CASE fn[fh[s]] = s
      <4>1. fh[s] # h \/ h \in torn
        BY <2>3, <3>1, <3>3, NoneAssumption
      <4>2. QED  BY <2>1, <3>1, <3>3, <4>1
    <3>4. QED  BY <2>1, <3>1, <3>2, <3>3 DEF IInv, ForwardConsistent
  <2>5. NoResurrection'
    BY <1>1, <2>1 DEF IInv, NoResurrection, TypeOK
  <2>6. SourcesExclusive' /\ MvOnlyWhenAllowed'
    BY <2>2, ExclusiveAtEnd DEF IsMv, MvPcs, DelPcs
  <2>7. AllIssued'
    BY <1>1, <2>1, <2>2, <2>3 DEF IInv, AllIssued, Holds, HoldPcs, TypeOK
  <2>8. MvHolds'
    <3>1. \A d \in Calls : call[d].pc = "mv_write" => call[d].p # p
      BY DEF DelWrite, IInv, SourcesExclusive, SourceClash, IsMv, IsDel,
             MvPcs, DelPcs
    <3>2. \A d \in Calls :
            call[d].pc = "mv_write" => call[d].h # h \/ h \in torn
      BY <2>3, <3>1, NoneAssumption DEF IInv, MvHolds, TypeOK, Busy, IsMv, MvPcs
    <3>3. QED  BY <1>1, <2>1, <2>2, <3>2 DEF IInv, MvHolds, TypeOK
  <2>9. DelHolds'
    BY <1>1, <2>1, <2>2 DEF IInv, DelHolds, TypeOK
  <2>10. FreshHeld'
    <3>1. \A d \in Calls : call[d].pc \in {"lookup_write", "mv_write_new"}
              => call[d].h # h /\ call[d].h \in Handles
      BY DEF DelWrite, IInv, FreshHeld, Holds, HoldPcs, TypeOK
    <3>2. \A s \in Paths : fh'[s] # None => fh'[s] = fh[s]
      BY <1>1, <2>1
    <3>3. QED
      BY <1>1, <2>1, <2>2, <3>1, <3>2, NoneAssumption
         DEF IInv, FreshHeld, Holds, HoldPcs
  <2>11. QED
    BY <2>4, <2>5, <2>6, <2>7, <2>8, <2>9, <2>10 DEF IInv
<1>4. QED
  BY <1>2, <1>3 DEF DelWrite

LEMMA InvCrash ==
    ASSUME IInv, TypeOK', Crash
    PROVE  IInv'
<1>1. \A c \in Calls : call'[c].pc = "idle"
  BY DEF Crash, Idle
<1>2. \A p \in Paths, h \in Handles : AwaitsCleanup(p, h) => h \in torn'
  BY DEF Crash, AwaitsCleanup
<1>3. ForwardConsistent' /\ NoResurrection'
  BY <1>2 DEF Crash, IInv, TypeOK, ForwardConsistent, NoResurrection
<1>4. SourcesExclusive' /\ MvOnlyWhenAllowed'
  BY <1>1 DEF SourcesExclusive, SourceClash, MvOnlyWhenAllowed, IsMv, IsDel,
              MvPcs, DelPcs
<1>5. AllIssued' /\ MvHolds' /\ DelHolds' /\ FreshHeld'
  BY <1>1 DEF Crash, IInv, AllIssued, MvHolds, DelHolds, FreshHeld, Holds,
              HoldPcs
<1>6. QED
  BY <1>3, <1>4, <1>5 DEF IInv

LEMMA InvNext ==
    ASSUME Disciplined, IInv, [Next]_vars
    PROVE  IInv'
<1>1. TypeOK'
  BY TypeNext DEF IInv
<1>2. ASSUME NEW c \in Calls, Step(c)
      PROVE  IInv'
  BY <1>1, <1>2, InvFhandleGet, InvLookupGet, InvLookupLstat, InvLookupWrite,
     InvMvGet, InvMvWrite, InvMvCleanup, InvDelGet, InvDelWrite DEF Step
<1>3. ASSUME NEW c \in Calls, Return(c)
      PROVE  IInv'
  <2>1. /\ call'[c].pc = "idle" /\ call[c].pc = "done"
        /\ \A d \in Calls : d # c => call'[d] = call[d]
    BY <1>3 DEF Return, Idle, IInv, TypeOK
  <2>2. QED
    BY <1>1, <1>3, <2>1, EndOnly DEF Return
<1>4. CASE UNCHANGED vars
  BY <1>1, <1>4
     DEF vars, IInv, ForwardConsistent, AwaitsCleanup, NoResurrection,
         SourcesExclusive, MvOnlyWhenAllowed, AllIssued, MvHolds, DelHolds,
         FreshHeld, Holds
<1>5. QED
  BY <1>1, <1>2, <1>3, <1>4, InvStart, InvCrash DEF Next

THEOREM InvariantHolds ==
    ASSUME Disciplined
    PROVE  Spec => []IInv
<1>1. IInv /\ [Next]_vars => IInv'
  BY InvNext
<1>2. QED
  BY <1>1, InvInit, PTL DEF Spec

(* A handle that lookup answers leads back to the path it was answered     *)
(* for: with any interleaving, failure and restart as long as nobody       *)
(* renames, and with renames for callers that keep the discipline.         *)
THEOREM HandlesLeadBack ==
    ASSUME Disciplined
    PROVE  Spec => []ForwardConsistent
<1>1. IInv => ForwardConsistent
  BY DEF IInv
<1>2. QED
  BY <1>1, InvariantHolds, PTL

(* A handle that del has removed stays dead, under the same discipline.    *)
THEOREM RemovedHandlesStayDead ==
    ASSUME Disciplined
    PROVE  Spec => []NoResurrection
<1>1. IInv => NoResurrection
  BY DEF IInv
<1>2. QED
  BY <1>1, InvariantHolds, PTL

(* A handle only ever leaves its path by an mv or a del that found it, and *)
(* found it under that path unless a failure or a restart between the two  *)
(* batches of an mv has left it under another one as well; under the same  *)
(* discipline.                                                             *)
THEOREM HandlesKeepTheirPath ==
    ASSUME Disciplined
    PROVE  Spec => HandleKeepsPath
<1> DEFINE Kept == \A h \in Handles :
         fn[h] # None /\ fn'[h] # fn[h] =>
            \E c \in Calls :
                /\ call[c].h = h
                /\ call[c].p = fn[h] \/ h \in torn
                /\ \/ call[c].pc = "mv_write" /\ fn'[h] = call[c].q
                   \/ call[c].pc = "del_write" /\ fn'[h] = None
<1>1. ASSUME IInv, [Next]_vars
      PROVE  [Kept]_vars
  <2>1. SUFFICES ASSUME NEW h \in Handles, fn[h] # None, fn'[h] # fn[h]
                 PROVE  \E c \in Calls :
                            /\ call[c].h = h
                            /\ call[c].p = fn[h] \/ h \in torn
                            /\ \/ call[c].pc = "mv_write"
                                  /\ fn'[h] = call[c].q
                               \/ call[c].pc = "del_write" /\ fn'[h] = None
    OBVIOUS
  <2>2. PICK c \in Calls : LookupWrite(c) \/ MvWrite(c) \/ DelWrite(c)
    BY <1>1, <2>1
       DEF Next, vars, Start, StartFhandle, StartLookup, StartMv, StartDel,
           Begin, Step, FhandleGet, LookupGet, LookupLstat, MvGet, MvCleanup,
           DelGet, Return, Crash, db
  <2>3. CASE LookupWrite(c)
    BY <1>1, <2>1, <2>3 DEF LookupWrite, PutBoth, db, IInv, TypeOK, FreshHeld
  <2>4. CASE MvWrite(c)
    BY <1>1, <2>1, <2>4
       DEF MvWrite, PutBoth, db, IInv, TypeOK, FreshHeld, MvHolds
  <2>5. CASE DelWrite(c)
    BY <1>1, <2>1, <2>5 DEF DelWrite, DelBoth, IInv, TypeOK, DelHolds
  <2>6. QED
    BY <2>2, <2>3, <2>4, <2>5
<1>2. QED
  BY <1>1, InvariantHolds, PTL DEF HandleKeepsPath, Spec

=============================================================================
