-------------------------------- MODULE FHDB --------------------------------
(***************************************************************************)
(* The file handle database of lib/fhdb.js: a LevelDB with an entry        *)
(* ":fh:<path>" -> uuid for every path that has been looked up and an      *)
(* entry ":fn:<uuid>" -> path for every uuid handed out.  The four         *)
(* operations (fhandle, lookup, mv, del) are asynchronous: each is a chain *)
(* of database accesses, and between two accesses of one call any number   *)
(* of accesses of other calls take place.  One action below is one access  *)
(* together with the callback that runs when it completes.                 *)
(*                                                                         *)
(* The file system is the caller's: lookup's fs.lstat may say either that  *)
(* the path is there or that it is not.  The environment starts any call   *)
(* at any time, subject to the three parameters Renames, Overlap, Faults.  *)
(***************************************************************************)
EXTENDS Naturals, FiniteSets

CONSTANTS
    Calls,      \* slots for calls in flight
    Paths,      \* path names of the served file system
    Handles,    \* uuids that uuid.v4() may return
    None,       \* "no entry" in the database, "no value" in a field
    Renames,    \* do callers use mv?
    Overlap,    \* which calls the callers let overlap: see Admissible
    Faults      \* which failures happen: see below

(* "get": a db.get fails although the key is there; "write": a batch of    *)
(* lookup, del or the first one of mv fails; "cleanup": the second batch   *)
(* of mv fails; "crash": the process dies and restarts.                    *)
FaultKinds == {"get", "write", "cleanup", "crash"}

ASSUME NoneAssumption == None \notin Paths \cup Handles
ASSUME ParameterAssumption ==
    /\ Renames \in BOOLEAN
    /\ Overlap \in {"any", "sources", "disjoint"}
    /\ Faults \subseteq FaultKinds

VARIABLES
    fh,         \* fh[p]: the value of key ":fh:p"
    fn,         \* fn[h]: the value of key ":fn:h"
    issued,     \* the uuids drawn so far
    retired,    \* history: the uuids whose ":fn:" entry del has removed
    torn,       \* history: the uuids whose mv ended between its two batches
    call        \* call[c]: the locals of the call in slot c

db == <<fh, fn>>
vars == <<fh, fn, issued, retired, torn, call>>

(***************************************************************************)
(* A call's locals: pc names the access the call is waiting for.  p and q  *)
(* are the path arguments (p also holds the path fhandle answers), h is    *)
(* the handle argument, the _fhandle a get returned or the uuid drawn; ok  *)
(* is whether the callback got an error.                                   *)
(***************************************************************************)
MvPcs  == {"mv_get", "mv_write", "mv_write_new", "mv_cleanup"}
DelPcs == {"del_get", "del_write"}
Pcs    == {"idle", "done", "fhandle_get", "lookup_get", "lookup_lstat",
           "lookup_write"} \cup MvPcs \cup DelPcs

CallState == [pc : Pcs, p : Paths \cup {None}, q : Paths \cup {None},
              h : Handles \cup {None}, ok : BOOLEAN]

Idle == [pc |-> "idle", p |-> None, q |-> None, h |-> None, ok |-> FALSE]

Busy(c) == call[c].pc \notin {"idle", "done"}

(* Mutant: a handle that the database does not hold is free for reuse. *)
FreshIfUnmapped(h) == fn[h] = None
(* A uuid is drawn from Handles and never drawn twice. *)
Fresh(h) == h \notin issued

(* Bound of the model: a call that may have to draw a uuid only starts     *)
(* when the pool has one left for it.                                      *)
MayDraw(c) == call[c].pc \in {"lookup_get", "lookup_lstat", "mv_get"}
UuidLeft ==
    Cardinality(issued) + Cardinality({c \in Calls : MayDraw(c)})
        < Cardinality(Handles)

(***************************************************************************)
(* Which calls may be in flight together.  The module itself excludes      *)
(* nothing ("any").  "sources": no mv is in flight together with another   *)
(* mv or a del that gives up the same path.  "disjoint": calls in flight   *)
(* together have no path in common.                                        *)
(***************************************************************************)
IsMv(r)  == r.pc \in MvPcs
IsDel(r) == r.pc \in DelPcs

SourceClash(r, s) == r.p = s.p /\ \/ IsMv(r) /\ (IsMv(s) \/ IsDel(s))
                                  \/ IsDel(r) /\ IsMv(s)

Touched(r) == {r.p, r.q} \ {None}

Admissible(r) ==
    \A d \in Calls :
        Busy(d) => /\ Overlap = "sources" => ~SourceClash(r, call[d])
                   /\ Overlap = "disjoint" =>
                        Touched(r) \cap Touched(call[d]) = {}

-----------------------------------------------------------------------------

(* Starting a call: the arguments are bound, nothing is read yet. *)
Begin(c, r) ==
    /\ ~Busy(c)
    /\ Admissible(r)
    /\ call' = [call EXCEPT ![c] = r]
    /\ UNCHANGED <<fh, fn, issued, retired, torn>>

StartFhandle(c, h) ==
    Begin(c, [Idle EXCEPT !.pc = "fhandle_get", !.h = h])

StartLookup(c, p) ==
    UuidLeft /\ Begin(c, [Idle EXCEPT !.pc = "lookup_get", !.p = p])

StartMv(c, p, q) ==
    /\ Renames
    /\ UuidLeft
    /\ Begin(c, [Idle EXCEPT !.pc = "mv_get", !.p = p, !.q = q])

StartDel(c, p) == Begin(c, [Idle EXCEPT !.pc = "del_get", !.p = p])

(* The caller's callback: a handle, a path or nothing, and no error ...    *)
Answer(c, p, h) ==
    call' = [call EXCEPT ![c] = [@ EXCEPT !.pc = "done", !.p = p, !.h = h,
                                           !.ok = TRUE]]
(* ... or an error. *)
Fail(c) == call' = [call EXCEPT ![c] = [@ EXCEPT !.pc = "done", !.ok = FALSE]]

(* The call goes on to its next access, holding handle h. *)
GoOn(c, pc, h) == call' = [call EXCEPT ![c] = [@ EXCEPT !.pc = pc, !.h = h]]

(* Mutant: the value is used whether or not the get failed. *)
GetOkUnchecked(entry) == TRUE

(* The two outcomes of db.get on an entry: a value, or an error - either   *)
(* NotFound or a failing read, which no caller tells apart.                *)
GetOk(entry) == entry # None
GetErr(entry) == entry = None \/ "get" \in Faults

(* The batches, each atomic. *)
PutBoth(p, h) == /\ fh' = [fh EXCEPT ![p] = h]
                 /\ fn' = [fn EXCEPT ![h] = p]

(* Mutants: del forgets one of the two keys. *)
DelFnOnly(p, h) == fn' = [fn EXCEPT ![h] = None] /\ UNCHANGED fh
DelFhOnly(p, h) == fh' = [fh EXCEPT ![p] = None] /\ UNCHANGED fn

DelBoth(p, h) == /\ fh' = [fh EXCEPT ![p] = None]
                 /\ fn' = [fn EXCEPT ![h] = None]

-----------------------------------------------------------------------------

(* fhandle(fh, cb): one get of ":fn:<fh>". *)
FhandleGet(c) ==
    /\ call[c].pc = "fhandle_get"
    /\ LET h == call[c].h
       IN  \/ GetOk(fn[h]) /\ Answer(c, fn[h], h)
           \/ GetErr(fn[h]) /\ Fail(c)
    /\ UNCHANGED <<fh, fn, issued, retired, torn>>

(* lookup(p, cb), first access: a hit answers, any error is a miss. *)
LookupGet(c) ==
    /\ call[c].pc = "lookup_get"
    /\ LET p == call[c].p
       IN  \/ GetOk(fh[p]) /\ Answer(c, p, fh[p])
           \/ GetErr(fh[p]) /\ GoOn(c, "lookup_lstat", None)
    /\ UNCHANGED <<fh, fn, issued, retired, torn>>

(* The lstat after a miss; for a file that is there a uuid is drawn. *)
LookupLstat(c, found) ==
    /\ call[c].pc = "lookup_lstat"
    /\ IF found
       THEN \E h \in Handles : /\ Fresh(h)
                               /\ issued' = issued \cup {h}
                               /\ GoOn(c, "lookup_write", h)
       ELSE Fail(c) /\ UNCHANGED issued
    /\ UNCHANGED <<fh, fn, retired, torn>>

(* The batch that records a new handle. *)
LookupWrite(c) ==
    /\ call[c].pc = "lookup_write"
    /\ LET p == call[c].p  h == call[c].h
       IN  \/ PutBoth(p, h) /\ Answer(c, p, h)
           \/ "write" \in Faults /\ Fail(c) /\ UNCHANGED db
    /\ UNCHANGED <<issued, retired, torn>>

(* mv(oldpath, newpath, cb), first access.  A hit carries the old handle   *)
(* over; on any error newpath gets a uuid of its own.                      *)
MvGet(c) ==
    /\ call[c].pc = "mv_get"
    /\ LET p == call[c].p
       IN  \/ /\ GetOk(fh[p])
              /\ GoOn(c, "mv_write", fh[p])
              /\ UNCHANGED issued
           \/ /\ GetErr(fh[p])
              /\ \E h \in Handles : /\ Fresh(h)
                                    /\ issued' = issued \cup {h}
                                    /\ GoOn(c, "mv_write_new", h)
    /\ UNCHANGED <<fh, fn, retired, torn>>

(* Mutant: mv answers without its cleanup. *)
MvWriteNoCleanup(c) ==
    /\ call[c].pc \in {"mv_write", "mv_write_new"}
    /\ PutBoth(call[c].q, call[c].h)
    /\ Answer(c, call[c].p, call[c].h)
    /\ UNCHANGED <<issued, retired, torn>>

(* update_db(newpath, _fhandle): both entries of newpath in one batch.  A  *)
(* carried handle is followed by the cleanup batch, a new one is not.      *)
MvWrite(c) ==
    /\ call[c].pc \in {"mv_write", "mv_write_new"}
    /\ LET q == call[c].q  h == call[c].h
       IN  \/ /\ PutBoth(q, h)
              /\ IF call[c].pc = "mv_write" THEN GoOn(c, "mv_cleanup", h)
                                            ELSE Answer(c, call[c].p, h)
           \/ "write" \in Faults /\ Fail(c) /\ UNCHANGED db
    /\ UNCHANGED <<issued, retired, torn>>

(* Mutant: cleanup deletes the ":fn:" entry as well. *)
MvCleanupBoth(c) ==
    /\ call[c].pc = "mv_cleanup"
    /\ DelBoth(call[c].p, call[c].h)
    /\ Answer(c, call[c].p, call[c].h)
    /\ UNCHANGED <<issued, retired, torn>>

(* cleanup(): a batch of its own deletes ":fh:<oldpath>". *)
MvCleanup(c) ==
    /\ call[c].pc = "mv_cleanup"
    /\ LET p == call[c].p
       IN  \/ /\ fh' = [fh EXCEPT ![p] = None]
              /\ Answer(c, p, call[c].h)
              /\ UNCHANGED <<fn, torn>>
           \/ /\ "cleanup" \in Faults
              /\ Fail(c)
              /\ torn' = torn \cup {call[c].h}
              /\ UNCHANGED db
    /\ UNCHANGED <<issued, retired>>

(* del(p, cb), first access: without an entry the caller gets the error. *)
DelGet(c) ==
    /\ call[c].pc = "del_get"
    /\ LET p == call[c].p
       IN  \/ GetOk(fh[p]) /\ GoOn(c, "del_write", fh[p])
           \/ GetErr(fh[p]) /\ Fail(c)
    /\ UNCHANGED <<fh, fn, issued, retired, torn>>

(* The batch that deletes ":fh:<p>" and the ":fn:" entry of the handle     *)
(* that the get returned.                                                  *)
DelWrite(c) ==
    /\ call[c].pc = "del_write"
    /\ LET p == call[c].p  h == call[c].h
       IN  \/ /\ DelBoth(p, h)
              /\ retired' = retired \cup {h}
              /\ Answer(c, p, h)
           \/ "write" \in Faults /\ Fail(c) /\ UNCHANGED <<fh, fn, retired>>
    /\ UNCHANGED <<issued, torn>>

(* The caller's callback has run: nothing of the call is left. *)
Return(c) ==
    /\ call[c].pc = "done"
    /\ call' = [call EXCEPT ![c] = Idle]
    /\ UNCHANGED <<fh, fn, issued, retired, torn>>

(* The process dies and starts again on the same database: the calls in    *)
(* flight are gone, every batch is there as a whole or not at all.         *)
Crash ==
    /\ "crash" \in Faults
    /\ call' = [c \in Calls |-> Idle]
    /\ torn' = torn \cup {call[c].h : c \in {d \in Calls : call[d].pc = "mv_cleanup"}}
    /\ UNCHANGED <<fh, fn, issued, retired>>

-----------------------------------------------------------------------------

Step(c) ==
    \/ FhandleGet(c)
    \/ LookupGet(c)
    \/ \E found \in BOOLEAN : LookupLstat(c, found)
    \/ LookupWrite(c)
    \/ MvGet(c)
    \/ MvWrite(c)
    \/ MvCleanup(c)
    \/ DelGet(c)
    \/ DelWrite(c)

Start(c) ==
    \/ \E h \in Handles : StartFhandle(c, h)
    \/ \E p \in Paths : StartLookup(c, p)
    \/ \E p, q \in Paths : StartMv(c, p, q)
    \/ \E p \in Paths : StartDel(c, p)

Init ==
    /\ fh = [p \in Paths |-> None]
    /\ fn = [h \in Handles |-> None]
    /\ issued = {}
    /\ retired = {}
    /\ torn = {}
    /\ call = [c \in Calls |-> Idle]

Next == (\E c \in Calls : Start(c) \/ Step(c) \/ Return(c)) \/ Crash

Spec == Init /\ [][Next]_vars

-----------------------------------------------------------------------------

(* Both databases are maps from keys to values of the right kind, and the  *)
(* locals of a call are what its access needs.                             *)
TypeOK ==
    /\ fh \in [Paths -> Handles \cup {None}]
    /\ fn \in [Handles -> Paths \cup {None}]
    /\ issued \subseteq Handles
    /\ retired \subseteq Handles
    /\ torn \subseteq Handles
    /\ call \in [Calls -> CallState]
    /\ \A c \in Calls :
        /\ call[c].pc \in {"fhandle_get", "lookup_write", "mv_write",
                           "mv_write_new", "mv_cleanup", "del_write"}
              => call[c].h \in Handles
        /\ Busy(c) /\ call[c].pc # "fhandle_get" => call[c].p \in Paths
        /\ IsMv(call[c]) => call[c].q \in Paths

(* An old path whose mv has moved the handle on but has not cleaned up. *)
AwaitsCleanup(p, h) ==
    \E c \in Calls :
        call[c].pc = "mv_cleanup" /\ call[c].p = p /\ call[c].h = h

(* The handle that lookup answers for a path leads back to that path: a    *)
(* ":fh:" entry never names a handle whose ":fn:" entry is gone or names   *)
(* another file, except for the old path of an mv between its two batches. *)
(* Otherwise the client is given a handle for one file and reads and       *)
(* writes another one, or one that every later request rejects.  A failure *)
(* or a restart between the two batches of an mv costs the handle it moved *)
(* and no other one: it harms nothing else, whatever is done to the path   *)
(* afterwards.                                                             *)
ForwardConsistent ==
    \A p \in Paths :
        fh[p] # None => \/ fn[fh[p]] = p
                        \/ AwaitsCleanup(p, fh[p])
                        \/ fh[p] \in torn

(* Once del has removed a handle it resolves to nothing for ever: a client *)
(* that still holds it can never be served some other file under it.  Not  *)
(* so a torn handle: an mv of the old path, which still leads to it, would *)
(* give it a path again after the del of the new one.                      *)
NoResurrection == \A h \in retired \ torn : fn[h] = None

(* What a handle stands for changes in two ways only: an mv that found it  *)
(* gives it the new path, and a del that found it ends it - and the path   *)
(* they found it under is the one it stands for, though both write a batch *)
(* made of what an earlier get returned, and any other call may have run   *)
(* in between.  A torn handle, which a failure or a restart has left under *)
(* a second path, its old one, is moved and ended by way of that one too.  *)
HandleKeepsPath ==
    [][\A h \in Handles :
         fn[h] # None /\ fn'[h] # fn[h] =>
            \E c \in Calls :
                /\ call[c].h = h
                /\ call[c].p = fn[h] \/ h \in torn
                /\ \/ call[c].pc = "mv_write" /\ fn'[h] = call[c].q
                   \/ call[c].pc = "del_write" /\ fn'[h] = None]_vars

(* "The new file keeps the old file's fhandle" (comment at fhdb.js:130):   *)
(* when an mv that found a handle answers, newpath is mapped to it.        *)
NewFileKeepsHandle ==
    [][\A c \in Calls :
         call[c].pc = "mv_cleanup" /\ call'[c].pc = "done" /\ call'[c].ok
            => fh'[call[c].q] = call[c].h]_vars
=============================================================================
