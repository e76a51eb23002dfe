------------------------------ MODULE Setattr -------------------------------
(***************************************************************************)
(* SETATTR (lib/nfs/setattr.js) on one file: a chain that changes the      *)
(* mode, the owner, the size and the times, each with a call of its own    *)
(* and each able to fail, while other requests change the same file.       *)
(* Where the client leaves out one of two values that a call sets together *)
(* (uid and gid, mtime and atime), the handler fills in what an earlier    *)
(* lstat said.                                                             *)
(*                                                                         *)
(* A failed lstat, chmod, ... is an error reply with what was done before  *)
(* it left in place.  utimes throws on a time that is undefined: then the  *)
(* process dies, is started again, and clients send once more what was     *)
(* not answered.                                                           *)
(*                                                                         *)
(* Times are instants finer than any conversion: a Date has milliseconds,  *)
(* the times in fs.Stats whole seconds (node 0.10) or milliseconds, and of *)
(* a client's time the handler keeps the seconds.  The file is no symbolic *)
(* link: lstat would look at the link, the other calls at what it names.   *)
(***************************************************************************)
EXTENDS Naturals

CONSTANTS
    Calls,      \* slots for requests in flight
    Requests,   \* the new_attributes that clients send
    None,       \* an attribute that is not to be changed; a time undefined
    Milli,      \* a millisecond, in instants
    Second,
    StatUnit,   \* what the times in fs.Stats are multiples of
    Start,      \* the clock, when the first request comes
    MaxTime,    \* bound: the clock stops there, as if it were coarse
    OwnersApart \* does one client at a time change the owner?

Times == 0..MaxTime
Modes == 0..4095
Hows  == {"DONT_CHANGE", "SET_TO_SERVER_TIME", "SET_TO_CLIENT_TIME"}

Attributes == [mode : Modes \cup {None}, uid : Nat \cup {None},
               gid : Nat \cup {None}, size : Nat \cup {None},
               how_m_time : Hows, mtime : Times \cup {None},
               how_a_time : Hows, atime : Times \cup {None}]

ASSUME SetattrAssumption == /\ Requests \subseteq Attributes
                            /\ Milli \in Nat \ {0} /\ Second \in Nat \ {0}
                            /\ StatUnit \in {Milli, Second}
                            /\ MaxTime \in Nat /\ Start \in Times
                            /\ None \notin Nat /\ None \notin Attributes
                            /\ OwnersApart \in BOOLEAN

VARIABLES
    file,       \* the file's attributes
    clock,
    rq,         \* rq[c]: the locals of the request in slot c
    asked       \* history: the uid and the gid that clients asked for last

savars == <<file, clock, rq, asked>>

Idle == [pc |-> "idle", attrs |-> None, _mtime |-> None, _atime |-> None,
         uid |-> None, gid |-> None,    \* and two history fields: the file
                                        \* and the clock at the start
         before |-> None, since |-> 0, ok |-> TRUE]

Active(c) == rq[c].pc # "idle"
At(c, pc) == rq[c].pc = pc

HasOwner(a) == a.uid # None \/ a.gid # None
SetsTimes(a) == a.how_m_time # "DONT_CHANGE" \/ a.how_a_time # "DONT_CHANGE"

Down(t, unit) == t - (t % unit)

(* A change of owner or size clears the setuid bit (2048), the setgid bit  *)
(* (1024) or neither, as the host's file system has it.                    *)
MayClear(mode) == {mode, mode % 2048, mode % 1024}

After(t) == IF t < MaxTime THEN t + 1 ELSE t
Tick == After(clock)

-----------------------------------------------------------------------------
(* When the file changes, the other requests are not alone any more: what   *)
(* it was like when they began is forgotten.                               *)
Others(r) == IF file' = file THEN r ELSE [r EXCEPT !.before = None]
Set(c, r) == rq' = [d \in Calls |-> IF d = c THEN r ELSE Others(rq[d])]
Send(c, r, ok) == Set(c, [Idle EXCEPT !.pc = "sent", !.attrs = r.attrs,
                            !.before = r.before, !.since = r.since, !.ok = ok])

OneTimeMissing(r) == SetsTimes(r.attrs) /\ (r._mtime = None \/ r._atime = None)

(* setattr_get_mtime, setattr_get_atime: the test whether an earlier lstat *)
(* has left a time is for null, and an undefined one passes it.  The reply *)
(* to a client's time that is null logs an err that is not declared there, *)
(* and so throws as well.                                                  *)
GetTime(how, time, saved) ==
    CASE how = "SET_TO_CLIENT_TIME" /\ time # None -> Down(time, Second)
      [] how = "SET_TO_CLIENT_TIME" /\ time = None -> None
      [] how = "SET_TO_SERVER_TIME" -> Down(clock, Milli)
      [] OTHER -> saved
Timed(r) == [r EXCEPT !._mtime = GetTime(r.attrs.how_m_time, r.attrs.mtime, @),
                      !._atime = GetTime(r.attrs.how_a_time, r.attrs.atime, @)]

(* setattr_time, up to its access. *)
ToTimeSilent(c, r) ==       \* mutant: no reply if no time is to be set
    IF ~SetsTimes(r.attrs) THEN Set(c, [r EXCEPT !.pc = "stuck"])
    ELSE Set(c, [Timed(r) EXCEPT !.pc = IF OneTimeMissing(Timed(r))
                                        THEN "throw" ELSE "time"])
ToTime(c, r) ==
    IF ~SetsTimes(r.attrs) THEN Send(c, r, TRUE)
    ELSE Set(c, [Timed(r) EXCEPT !.pc = IF OneTimeMissing(Timed(r))
                                        THEN "throw" ELSE "time"])
ToSize(c, r) == IF r.attrs.size # None THEN Set(c, [r EXCEPT !.pc = "size"])
                                       ELSE ToTime(c, r)
ToOwn(c, r)  == IF HasOwner(r.attrs) THEN Set(c, [r EXCEPT !.pc = "own_lstat"])
                                     ELSE ToSize(c, r)
ToMode(c, r) == IF r.attrs.mode # None THEN Set(c, [r EXCEPT !.pc = "mode"])
                                       ELSE ToOwn(c, r)

-----------------------------------------------------------------------------

(* A request on its way to the server. *)
Sent(a) == [Idle EXCEPT !.pc = "fhandle", !.attrs = a, !.before = file,
                        !.since = clock]

SETATTR(c, a) ==
    /\ ~Active(c)
    /\ OwnersApart /\ HasOwner(a) =>
            \A d \in Calls : Active(d) => ~HasOwner(rq[d].attrs)
    /\ rq' = [rq EXCEPT ![c] = Sent(a)]
    /\ UNCHANGED <<file, clock, asked>>

fhandle_to_filename(c) ==
    /\ At(c, "fhandle")
    /\ UNCHANGED <<file, clock, asked>>
    /\ ToMode(c, rq[c]) \/ Send(c, rq[c], FALSE)

Refused(c) == UNCHANGED <<file, clock, asked>> /\ Send(c, rq[c], FALSE)

setattr_mode(c) ==
    /\ At(c, "mode")
    /\ \/ /\ file' = [file EXCEPT !.mode = rq[c].attrs.mode]
          /\ ToOwn(c, rq[c])
          /\ UNCHANGED <<clock, asked>>
       \/ Refused(c)

setattr_own_lstatNoFill(c) ==   \* mutant: what is left out stays undefined
    LET a == rq[c].attrs
    IN  /\ At(c, "own_lstat")
        /\ UNCHANGED <<file, clock, asked>>
        /\ Set(c, [rq[c] EXCEPT !.pc = "own", !.uid = a.uid, !.gid = a.gid,
                                !._mtime = Down(file.mtime, StatUnit),
                                !._atime = Down(file.atime, StatUnit)])

setattr_own_lstatCrossed(c) ==  \* mutant: uid from stats.gid
    LET a == rq[c].attrs
    IN  /\ At(c, "own_lstat")
        /\ UNCHANGED <<file, clock, asked>>
        /\ Set(c, [rq[c] EXCEPT
                     !.pc = "own",
                     !.uid = IF a.uid # None THEN a.uid ELSE file.gid,
                     !.gid = IF a.gid # None THEN a.gid ELSE file.gid,
                     !._mtime = Down(file.mtime, StatUnit),
                     !._atime = Down(file.atime, StatUnit)])

setattr_own_lstat(c) ==
    LET a == rq[c].attrs
    IN  /\ At(c, "own_lstat")
        /\ UNCHANGED <<file, clock, asked>>
        /\ \/ Set(c, [rq[c] EXCEPT
                        !.pc = "own",
                        !.uid = IF a.uid # None THEN a.uid ELSE file.uid,
                        !.gid = IF a.gid # None THEN a.gid ELSE file.gid,
                        !._mtime = Down(file.mtime, StatUnit),
                        !._atime = Down(file.atime, StatUnit)])
           \/ Send(c, rq[c], FALSE)

setattr_own(c) ==
    LET a == rq[c].attrs
    IN  /\ At(c, "own")
        /\ \/ /\ \E m \in MayClear(file.mode) :
                    file' = [file EXCEPT !.uid = rq[c].uid, !.gid = rq[c].gid,
                                         !.mode = m]
              /\ asked' = [uid |-> IF a.uid # None THEN a.uid ELSE asked.uid,
                           gid |-> IF a.gid # None THEN a.gid ELSE asked.gid]
              /\ ToSize(c, [rq[c] EXCEPT !.uid = None, !.gid = None])
              /\ UNCHANGED clock
           \/ Refused(c)

(* truncate changes the mtime. *)
setattr_size(c) ==
    /\ At(c, "size")
    /\ \/ /\ clock' = Tick
          /\ \E m \in MayClear(file.mode) :
                file' = [file EXCEPT !.size = rq[c].attrs.size, !.mtime = Tick,
                                     !.mode = m]
          /\ ToTime(c, rq[c])
          /\ UNCHANGED asked
       \/ Refused(c)

setattr_timeCrossed(c) ==       \* mutant: utimes(file, mtime, atime)
    /\ At(c, "time")
    /\ file' = [file EXCEPT !.mtime = rq[c]._atime, !.atime = rq[c]._mtime]
    /\ Send(c, rq[c], TRUE)
    /\ UNCHANGED <<clock, asked>>

setattr_time(c) ==
    /\ At(c, "time")
    /\ \/ /\ file' = [file EXCEPT !.mtime = rq[c]._mtime, !.atime = rq[c]._atime]
          /\ Send(c, rq[c], TRUE)
          /\ UNCHANGED <<clock, asked>>
       \/ Refused(c)

(* utimes or the log throws: the process ends and starts again.  What was  *)
(* not answered, or was but did not get through, is sent again or given    *)
(* up.                                                                     *)
Die(c) ==
    /\ At(c, "throw")
    /\ \E again \in SUBSET {d \in Calls : Active(d)} :
            rq' = [d \in Calls |-> IF d \in again THEN Sent(rq[d].attrs) ELSE Idle]
    /\ UNCHANGED <<file, clock, asked>>

Receive(c) == /\ At(c, "sent")
              /\ rq' = [rq EXCEPT ![c] = Idle]
              /\ UNCHANGED <<file, clock, asked>>

(* WRITE and READ (module FdCache), or a program on the server's host. *)
Write == /\ clock' = Tick
         /\ file' = [file EXCEPT !.mtime = Tick, !.size = 1]
         /\ rq' = [d \in Calls |-> Others(rq[d])]
         /\ UNCHANGED asked
Read  == /\ file' = [file EXCEPT !.atime = clock]
         /\ rq' = [d \in Calls |-> Others(rq[d])]
         /\ UNCHANGED <<clock, asked>>

-----------------------------------------------------------------------------

Init ==
    /\ file = [mode |-> 0, uid |-> 0, gid |-> 1, size |-> 1,
                mtime |-> Start, atime |-> Start \div 2]
    /\ clock = Start
    /\ rq = [c \in Calls |-> Idle]
    /\ asked = [uid |-> 0, gid |-> 1]

Handler(c) ==
    \/ fhandle_to_filename(c) \/ setattr_mode(c) \/ setattr_own_lstat(c)
    \/ setattr_own(c) \/ setattr_size(c) \/ setattr_time(c)

Next ==
    \/ \E c \in Calls : \/ \E a \in Requests : SETATTR(c, a)
                        \/ Handler(c) \/ Die(c) \/ Receive(c)
    \/ Write \/ Read

Spec == Init /\ [][Next]_savars

(* Every access completes, and every reply gets through or is lost with    *)
(* the process.                                                            *)
FairSpec ==
    Spec /\ \A c \in Calls : WF_savars(Handler(c) \/ Die(c) \/ Receive(c))

-----------------------------------------------------------------------------

File == [mode : Modes, uid : Nat, gid : Nat, size : Nat, mtime : Times, atime : Times]
Locals == [pc : {"idle", "fhandle", "mode", "own_lstat", "own", "size", "time",
                 "throw", "sent"},
           attrs : Requests \cup {None}, before : File \cup {None},
           since : Times, ok : BOOLEAN,
           _mtime : Times \cup {None}, _atime : Times \cup {None},
           uid : Nat \cup {None}, gid : Nat \cup {None}]

(* The attributes, the clock and the locals of the requests have their     *)
(* types; in particular no call is given an undefined owner or time.       *)
TypeOK ==
    /\ file \in File /\ clock \in Times /\ asked \in [uid : Nat, gid : Nat]
    /\ rq \in [Calls -> Locals]
    /\ \A c \in Calls :
        /\ Active(c) => rq[c].attrs # None
        /\ At(c, "own") => rq[c].uid # None /\ rq[c].gid # None
        /\ At(c, "time") => rq[c]._mtime # None /\ rq[c]._atime # None

(* What a request for a is to make of the file b, if it begins at time t:  *)
(* it is f now.  That is what is asked for and nothing else, but for       *)
(* set-id bits, and for what the conversions leave of the times.           *)
Wanted(new, old) == IF new = None THEN old ELSE new
NewMode(a, b) == IF HasOwner(a) \/ a.size # None THEN MayClear(Wanted(a.mode, b.mode))
                                               ELSE {Wanted(a.mode, b.mode)}
NewTime(how, asks, time, t, now, kept) ==
    CASE how = "SET_TO_CLIENT_TIME" -> time = Down(asks, Second)
      [] how = "SET_TO_SERVER_TIME" -> \E s \in t..now : time = Down(s, Milli)
      [] OTHER -> kept
Carried(f, now, a, b, t) ==
    /\ f.mode \in NewMode(a, b) /\ f.size = Wanted(a.size, b.size)
    /\ f.uid = Wanted(a.uid, b.uid) /\ f.gid = Wanted(a.gid, b.gid)
    /\ NewTime(a.how_m_time, a.mtime, f.mtime, t, now,
               IF SetsTimes(a) THEN f.mtime = Down(b.mtime, StatUnit)
               ELSE IF a.size = None THEN f.mtime = b.mtime
               ELSE f.mtime \in After(t)..now)
    /\ NewTime(a.how_a_time, a.atime, f.atime, t, now,
               f.atime = IF SetsTimes(a) THEN Down(b.atime, StatUnit) ELSE b.atime)

(* The request without all that comes after its first k parts. *)
Parts(a, k) ==
    LET upTo(i, new) == IF i <= k THEN new ELSE None
        time(how) == IF 4 <= k THEN how ELSE "DONT_CHANGE"
    IN  [a EXCEPT !.mode = upTo(1, @), !.uid = upTo(2, @), !.gid = upTo(2, @),
                  !.size = upTo(3, @),
                  !.how_m_time = time(@), !.how_a_time = time(@)]

(* A SETATTR during which nobody else changes the file does what it was    *)
(* asked, if the reply is OK, and nothing else: the owner's other half is  *)
(* the one the file had.  What the calls and the conversions take away is  *)
(* taken away: set-id bits by the change of owner or size, a client's time *)
(* to the whole second (not the millisecond that fsinfo.js:34 offers), the *)
(* server's to the millisecond.  Of two times of which one is set, the     *)
(* other is the one that lstat showed before the truncation, to the grain  *)
(* of fs.Stats; if none is set both are left. If the reply is an error,    *)
(* some of its parts are done, in the order mode, owner, size, and none    *)
(* after the first that failed.                                            *)
ReplyExact ==
    \A c \in Calls :
        LET r == rq[c]
        IN  At(c, "sent") /\ r.before # None =>
                IF r.ok THEN Carried(file, clock, r.attrs, r.before, r.since)
                ELSE \E k \in 0..3 :
                        Carried(file, clock, Parts(r.attrs, k), r.before, r.since)

(* The owner of the file is whom clients asked for last, uid and gid each, *)
(* though chown sets both and most requests name one.  It holds while one  *)
(* client at a time changes the owner, whatever else overlaps, fails, or   *)
(* is sent again: of two that overlap one may be lost.                     *)
OwnerKept == OwnersApart => file.uid = asked.uid /\ file.gid = asked.gid

(* A request that sets one time only, and has no lstat to take the other   *)
(* from: utimes is given an undefined one.  Or one whose time is null.     *)
EndsServer(a) ==
    \/ /\ ~HasOwner(a) /\ SetsTimes(a)
       /\ "DONT_CHANGE" \in {a.how_m_time, a.how_a_time}
    \/ a.how_m_time = "SET_TO_CLIENT_TIME" /\ a.mtime = None
    \/ a.how_a_time = "SET_TO_CLIENT_TIME" /\ a.atime = None

(* Every request is answered, unless a request comes that ends the server: *)
(* its client sends it again and again.                                    *)
AnsweredUnlessEnded ==
    \A c \in Calls :
        Active(c) ~> \/ ~Active(c)
                     \/ \E d \in Calls : Active(d) /\ EndsServer(rq[d].attrs)
=============================================================================
