--------------------------- MODULE SetattrProofs ----------------------------
(***************************************************************************)
(* Theorems about Setattr, for every set of requests, of slots and any     *)
(* clock: no call is given an undefined owner or time, the owner of the    *)
(* file is whom clients asked for last, and a request that has the file to *)
(* itself does what it replies, and nothing else.                          *)
(***************************************************************************)
EXTENDS Setattr, TLAPS

-----------------------------------------------------------------------------
(* The inductive invariant. *)

(* Of the requests in flight, at most one names an owner. *)
OneOwner ==
    OwnersApart => \A c, d \in Calls :
        c # d /\ Active(c) /\ Active(d) =>
            ~HasOwner(rq[c].attrs) \/ ~HasOwner(rq[d].attrs)

(* A part of the chain is only done for a request that asks for it. *)
Due(pc, attrs) == /\ pc = "mode" => attrs.mode # None
                  /\ pc \in {"own_lstat", "own"} => HasOwner(attrs)
                  /\ pc = "size" => attrs.size # None
AllDue == \A c \in Calls : Due(rq[c].pc, rq[c].attrs)

(* What a request is about to give to chown: what it names, and what was   *)
(* asked for last where it names nothing.                                  *)
ChownKnows ==
    \A c \in Calls : OwnersApart /\ At(c, "own") =>
        LET a == rq[c].attrs
        IN  /\ rq[c].uid = IF a.uid # None THEN a.uid ELSE asked.uid
            /\ rq[c].gid = IF a.gid # None THEN a.gid ELSE asked.gid

IInv == TypeOK /\ OneOwner /\ AllDue /\ ChownKnows /\ OwnerKept

-----------------------------------------------------------------------------
(* What a step of one request may make of the others, and of itself. *)

(* The same locals, but for the history that Others forgets. *)
Like(s, r) ==
    /\ s.pc = r.pc /\ s.attrs = r.attrs /\ s.uid = r.uid /\ s.gid = r.gid
    /\ s._mtime = r._mtime /\ s._atime = r._atime

(* The locals s are good for a request that carries on with the same       *)
(* attributes at the access pc.                                            *)
Carries(s, attrs, pcs) ==
    /\ s \in Locals /\ s.attrs = attrs /\ s.pc \in pcs
    /\ s.pc = "time" => s._mtime # None /\ s._atime # None
    /\ Due(s.pc, attrs)

(* What the conversions make of a time or a mode. *)
LEMMA DownGood ==
    ASSUME NEW t \in Times, NEW unit \in {Milli, Second, StatUnit}
    PROVE  Down(t, unit) \in Times /\ Down(t, unit) # None
<1>1. t \in Nat /\ unit \in Nat \ {0} /\ MaxTime \in Nat
  BY SetattrAssumption DEF Times
<1>2. t % unit \in Nat /\ t % unit <= t
  BY <1>1
<1>3. Down(t, unit) \in Times /\ Down(t, unit) \in Nat
  BY <1>1, <1>2 DEF Down, Times
<1>4. QED
  BY <1>3, SetattrAssumption

LEMMA MayClearGood ==
    ASSUME NEW mode \in Modes, NEW m \in MayClear(mode)
    PROVE  m \in Modes /\ MayClear(m) \subseteq MayClear(mode)
BY DEF Modes, MayClear

LEMMA OthersLike ==
    ASSUME NEW r \in Locals
    PROVE  Others(r) \in Locals /\ Like(Others(r), r)
BY DEF Others, Locals, Like

LEMMA SetGood ==
    ASSUME TypeOK, NEW c \in Calls, NEW s \in Locals, Set(c, s)
    PROVE  /\ rq' \in [Calls -> Locals] /\ rq'[c] = s
           /\ \A d \in Calls \ {c} : Like(rq'[d], rq[d])
<1>1. \A d \in Calls : rq[d] \in Locals
  BY DEF TypeOK
<1>2. \A d \in Calls : Others(rq[d]) \in Locals /\ Like(Others(rq[d]), rq[d])
  BY <1>1, OthersLike
<1>3. QED
  BY <1>2 DEF Set

LEMMA SendGood ==
    ASSUME TypeOK, NEW c \in Calls, NEW r \in Locals, NEW ok \in BOOLEAN, Send(c, r, ok)
    PROVE  \E s : Set(c, s) /\ Carries(s, r.attrs, {"sent"})
<1> DEFINE s == [Idle EXCEPT !.pc = "sent", !.attrs = r.attrs,
                             !.before = r.before, !.since = r.since, !.ok = ok]
<1>1. s \in Locals /\ s.attrs = r.attrs /\ s.pc = "sent"
  BY SetattrAssumption DEF Idle, Locals, Times
<1>2. QED
  BY <1>1 DEF Send, Carries, Due

LEMMA ToTimeGood ==
    ASSUME TypeOK, NEW c \in Calls, NEW r \in Locals, r.attrs # None, ToTime(c, r)
    PROVE  \E s : Set(c, s) /\ Carries(s, r.attrs, {"sent", "time", "throw"})
<1>1. CASE ~SetsTimes(r.attrs)
  BY <1>1, SendGood DEF ToTime, Carries
<1>2. CASE SetsTimes(r.attrs)
  <2> DEFINE t == Timed(r)
             s == [t EXCEPT !.pc = IF OneTimeMissing(t) THEN "throw" ELSE "time"]
  <2>1. r.attrs \in Attributes /\ clock \in Times
    BY SetattrAssumption DEF Locals, TypeOK
  <2>2. t \in Locals /\ t.attrs = r.attrs
    <3>1. \A how \in Hows, time \in Times \cup {None}, saved \in Times \cup {None} :
            GetTime(how, time, saved) \in Times \cup {None}
      BY <2>1, DownGood, SetattrAssumption DEF GetTime, Hows
    <3>2. /\ r.attrs.how_m_time \in Hows /\ r.attrs.mtime \in Times \cup {None}
          /\ r.attrs.how_a_time \in Hows /\ r.attrs.atime \in Times \cup {None}
      BY <2>1 DEF Attributes
    <3>3. QED
      BY <3>1, <3>2 DEF Timed, Locals
  <2>3. s \in Locals /\ s.attrs = r.attrs /\ s.pc \in {"throw", "time"}
        /\ s._mtime = t._mtime /\ s._atime = t._atime
    BY <2>2 DEF Locals
  <2>4. s.pc = "time" => s._mtime # None /\ s._atime # None
    <3>1. s.pc = "time" => ~OneTimeMissing(t)
      BY <2>2 DEF Locals
    <3>2. QED
      BY <1>2, <2>2, <2>3, <3>1 DEF OneTimeMissing
  <2>5. Set(c, s)
    BY <1>2 DEF ToTime
  <2>6. QED
    BY <2>3, <2>4, <2>5 DEF Carries, Due
<1>3. QED
  BY <1>1, <1>2

LEMMA ToSizeGood ==
    ASSUME TypeOK, NEW c \in Calls, NEW r \in Locals, r.attrs # None, ToSize(c, r)
    PROVE  \E s : Set(c, s) /\ Carries(s, r.attrs, {"sent", "time", "throw", "size"})
<1>1. CASE r.attrs.size # None
  <2> DEFINE s == [r EXCEPT !.pc = "size"]
  <2>1. s \in Locals /\ s.attrs = r.attrs /\ s.pc = "size"
    BY DEF Locals
  <2>2. QED
    BY <1>1, <2>1 DEF ToSize, Carries, Due
<1>2. CASE ~(r.attrs.size # None)
  BY <1>2, ToTimeGood DEF ToSize, Carries
<1>3. QED
  BY <1>1, <1>2

LEMMA ToOwnGood ==
    ASSUME TypeOK, NEW c \in Calls, NEW r \in Locals, r.attrs # None, ToOwn(c, r)
    PROVE  \E s : Set(c, s) /\ Carries(s, r.attrs,
                        {"sent", "time", "throw", "size", "own_lstat"})
<1>1. CASE HasOwner(r.attrs)
  <2> DEFINE s == [r EXCEPT !.pc = "own_lstat"]
  <2>1. s \in Locals /\ s.attrs = r.attrs /\ s.pc = "own_lstat"
    BY DEF Locals
  <2>2. QED
    BY <1>1, <2>1 DEF ToOwn, Carries, Due
<1>2. CASE ~HasOwner(r.attrs)
  BY <1>2, ToSizeGood DEF ToOwn, Carries
<1>3. QED
  BY <1>1, <1>2

LEMMA ToModeGood ==
    ASSUME TypeOK, NEW c \in Calls, NEW r \in Locals, r.attrs # None, ToMode(c, r)
    PROVE  \E s : Set(c, s) /\ Carries(s, r.attrs,
                        {"sent", "time", "throw", "size", "own_lstat", "mode"})
<1>1. CASE r.attrs.mode # None
  <2> DEFINE s == [r EXCEPT !.pc = "mode"]
  <2>1. s \in Locals /\ s.attrs = r.attrs /\ s.pc = "mode"
    BY DEF Locals
  <2>2. QED
    BY <1>1, <2>1 DEF ToMode, Carries, Due
<1>2. CASE ~(r.attrs.mode # None)
  BY <1>2, ToOwnGood DEF ToMode, Carries
<1>3. QED
  BY <1>1, <1>2

-----------------------------------------------------------------------------
(* Each step keeps the invariant. *)

(* A request that goes on, to any access but chown. *)
LEMMA GoesOn ==
    ASSUME IInv, NEW c \in Calls, Active(c), NEW s, Set(c, s),
           Carries(s, rq[c].attrs, {"mode", "own_lstat", "size", "time", "throw", "sent"}),
           file' \in File, clock' \in Times, asked' \in [uid : Nat, gid : Nat],
           OwnerKept',
           asked' = asked \/ (OwnersApart => HasOwner(rq[c].attrs))
    PROVE  IInv'
<1>1. /\ rq' \in [Calls -> Locals] /\ rq'[c] = s
      /\ \A d \in Calls \ {c} : Like(rq'[d], rq[d])
  BY SetGood DEF IInv, Carries
<1>2. TypeOK'
  <2>1. \A d \in Calls :
          /\ rq'[d].pc # "idle" => rq'[d].attrs # None
          /\ rq'[d].pc = "own" => rq'[d].uid # None /\ rq'[d].gid # None
          /\ rq'[d].pc = "time" => rq'[d]._mtime # None /\ rq'[d]._atime # None
    BY <1>1 DEF IInv, TypeOK, Active, At, Carries, Like
  <2>2. QED
    BY <1>1, <2>1 DEF TypeOK, Active, At
<1>3. OneOwner'
  BY <1>1 DEF IInv, OneOwner, Active, Carries, Like
<1>4. AllDue'
  BY <1>1 DEF IInv, AllDue, Carries, Like
<1>5. ChownKnows'
  <2>1. SUFFICES ASSUME NEW d \in Calls, OwnersApart, At(d, "own")'
                 PROVE  LET a == rq'[d].attrs
                        IN  /\ rq'[d].uid = IF a.uid # None THEN a.uid ELSE asked'.uid
                            /\ rq'[d].gid = IF a.gid # None THEN a.gid ELSE asked'.gid
    BY DEF ChownKnows
  <2>2. d # c
    BY <1>1, <2>1 DEF At, Carries
  <2>3. Like(rq'[d], rq[d])
    BY <1>1, <2>2
  <2>4. asked' = asked
    BY <2>1, <2>2, <2>3 DEF IInv, AllDue, Due, OneOwner, Active, At, Like
  <2>5. QED
    BY <2>1, <2>3, <2>4 DEF IInv, ChownKnows, At, Like
<1>6. QED
  BY <1>2, <1>3, <1>4, <1>5 DEF IInv

LEMMA ActiveLocals ==
    ASSUME IInv, NEW c \in Calls, Active(c)
    PROVE  TypeOK /\ rq[c] \in Locals /\ rq[c].attrs # None
BY DEF IInv, TypeOK, Active

(* An error reply, or one that leaves the file alone. *)
LEMMA SendKeeps ==
    ASSUME IInv, NEW c \in Calls, Active(c), NEW ok \in BOOLEAN, Send(c, rq[c], ok),
           UNCHANGED <<file, clock, asked>>
    PROVE  IInv'
<1>1. PICK s : Set(c, s) /\ Carries(s, rq[c].attrs, {"sent"})
  BY ActiveLocals, SendGood
<1>2. QED
  BY <1>1, GoesOn DEF IInv, TypeOK, OwnerKept, Carries

LEMMA FhandleKeeps ==
    ASSUME IInv, NEW c \in Calls, fhandle_to_filename(c)
    PROVE  IInv'
<1>1. Active(c)
  BY DEF fhandle_to_filename, Active, At
<1>2. CASE ToMode(c, rq[c])
  <2>1. PICK s : Set(c, s) /\ Carries(s, rq[c].attrs,
                    {"sent", "time", "throw", "size", "own_lstat", "mode"})
    BY <1>1, <1>2, ActiveLocals, ToModeGood
  <2>2. QED
    BY <1>1, <2>1, GoesOn DEF fhandle_to_filename, IInv, TypeOK, OwnerKept, Carries
<1>3. QED
  BY <1>1, <1>2, SendKeeps DEF fhandle_to_filename

LEMMA ModeKeeps ==
    ASSUME IInv, NEW c \in Calls, setattr_mode(c)
    PROVE  IInv'
<1>1. Active(c)
  BY DEF setattr_mode, Active, At
<1>2. CASE Refused(c)
  BY <1>1, <1>2, SendKeeps DEF Refused
<1>3. CASE ~Refused(c)
  <2>1. /\ file' = [file EXCEPT !.mode = rq[c].attrs.mode]
        /\ ToOwn(c, rq[c]) /\ UNCHANGED <<clock, asked>>
    BY <1>3 DEF setattr_mode
  <2>2. PICK s : Set(c, s) /\ Carries(s, rq[c].attrs,
                    {"sent", "time", "throw", "size", "own_lstat"})
    BY <1>1, <2>1, ActiveLocals, ToOwnGood
  <2>3. file' \in File /\ OwnerKept'
    <3>1. rq[c].attrs \in Attributes /\ rq[c].attrs.mode # None
      BY SetattrAssumption, ActiveLocals, <1>1
         DEF setattr_mode, At, IInv, AllDue, Due, Locals
    <3>2. QED
      BY <2>1, <3>1 DEF IInv, TypeOK, File, Attributes, OwnerKept
  <2>4. QED
    BY <1>1, <2>1, <2>2, <2>3, GoesOn DEF IInv, TypeOK, Carries
<1>4. QED
  BY <1>2, <1>3

LEMMA OwnLstatKeeps ==
    ASSUME IInv, NEW c \in Calls, setattr_own_lstat(c)
    PROVE  IInv'
<1> DEFINE a == rq[c].attrs
<1>1. Active(c) /\ UNCHANGED <<file, clock, asked>>
  BY DEF setattr_own_lstat, Active, At
<1>2. CASE Send(c, rq[c], FALSE)
  BY <1>1, <1>2, SendKeeps
<1>3. CASE ~Send(c, rq[c], FALSE)
  <2> DEFINE s == [rq[c] EXCEPT
                     !.pc = "own",
                     !.uid = IF a.uid # None THEN a.uid ELSE file.uid,
                     !.gid = IF a.gid # None THEN a.gid ELSE file.gid,
                     !._mtime = Down(file.mtime, StatUnit),
                     !._atime = Down(file.atime, StatUnit)]
  <2>1. Set(c, s)
    BY <1>3 DEF setattr_own_lstat
  <2>2. rq[c] \in Locals /\ a # None /\ a \in Attributes /\ file \in File
    BY <1>1, ActiveLocals, SetattrAssumption DEF Locals, TypeOK
  <2>3. /\ s \in Locals /\ s.pc = "own" /\ s.attrs = a
        /\ s.uid = IF a.uid # None THEN a.uid ELSE file.uid
        /\ s.gid = IF a.gid # None THEN a.gid ELSE file.gid
    <3>1. /\ Down(file.mtime, StatUnit) \in Times
          /\ Down(file.atime, StatUnit) \in Times
      BY <2>2, DownGood DEF File
    <3>2. QED
      BY <2>2, <3>1 DEF Locals, File, Attributes
  <2>4. s.uid # None /\ s.gid # None
    BY <2>2, <2>3, SetattrAssumption DEF File
  <2>5. /\ rq' \in [Calls -> Locals] /\ rq'[c] = s
        /\ \A d \in Calls \ {c} : Like(rq'[d], rq[d])
    BY <2>1, <2>3, SetGood DEF IInv
  <2> HIDE DEF s
  <2>6. HasOwner(a)
    BY DEF setattr_own_lstat, At, IInv, AllDue, Due
  <2>7. TypeOK'
    <3>1. \A d \in Calls :
            /\ rq'[d].pc # "idle" => rq'[d].attrs # None
            /\ rq'[d].pc = "own" => rq'[d].uid # None /\ rq'[d].gid # None
            /\ rq'[d].pc = "time" => rq'[d]._mtime # None /\ rq'[d]._atime # None
      BY <2>2, <2>3, <2>4, <2>5 DEF IInv, TypeOK, Active, At, Like
    <3>2. QED
      BY <1>1, <2>5, <3>1 DEF IInv, TypeOK, Active, At
  <2>8. OneOwner' /\ AllDue'
    BY <1>1, <2>3, <2>5, <2>6 DEF IInv, OneOwner, AllDue, Due, Active, Like
  <2>9. ChownKnows' /\ OwnerKept'
    BY <1>1, <2>3, <2>5 DEF IInv, ChownKnows, OwnerKept, At, Like
  <2>10. QED
    BY <2>7, <2>8, <2>9 DEF IInv
<1>4. QED
  BY <1>2, <1>3

(* chown: the file gets the owner that was asked for last. *)
LEMMA OwnKeeps ==
    ASSUME IInv, NEW c \in Calls, setattr_own(c)
    PROVE  IInv'
<1> DEFINE a == rq[c].attrs
<1>1. Active(c) /\ At(c, "own")
  BY DEF setattr_own, Active, At
<1>2. CASE Refused(c)
  BY <1>1, <1>2, SendKeeps DEF Refused
<1>3. CASE ~Refused(c)
  <2> DEFINE r == [rq[c] EXCEPT !.uid = None, !.gid = None]
  <2>1. /\ \E m \in MayClear(file.mode) :
            file' = [file EXCEPT !.uid = rq[c].uid, !.gid = rq[c].gid, !.mode = m]
        /\ asked' = [uid |-> IF a.uid # None THEN a.uid ELSE asked.uid,
                     gid |-> IF a.gid # None THEN a.gid ELSE asked.gid]
        /\ ToSize(c, r) /\ UNCHANGED clock
    BY <1>3 DEF setattr_own
  <2>2. /\ rq[c] \in Locals /\ a # None /\ a \in Attributes /\ HasOwner(a)
        /\ rq[c].uid \in Nat /\ rq[c].gid \in Nat
    <3>1. TypeOK /\ rq[c] \in Locals /\ a # None
      BY <1>1, ActiveLocals
    <3>2. QED
      BY <1>1, <3>1, SetattrAssumption DEF IInv, AllDue, Due, At, Locals, TypeOK
  <2>3. r \in Locals /\ r.attrs = a
    BY <2>2 DEF Locals
  <2>4. PICK s : Set(c, s) /\ Carries(s, a, {"sent", "time", "throw", "size"})
    BY <2>1, <2>2, <2>3, ToSizeGood DEF IInv
  <2>5. asked' \in [uid : Nat, gid : Nat] /\ clock' \in Times
    BY <2>1, <2>2 DEF IInv, TypeOK, Attributes
  <2>6. file' \in File /\ file'.uid = rq[c].uid /\ file'.gid = rq[c].gid
    <3>1. PICK m \in MayClear(file.mode) :
            file' = [file EXCEPT !.uid = rq[c].uid, !.gid = rq[c].gid, !.mode = m]
      BY <2>1
    <3>2. m \in Modes
      BY MayClearGood DEF IInv, TypeOK, File
    <3>3. QED
      BY <2>2, <3>1, <3>2 DEF IInv, TypeOK, File
  <2>7. OwnerKept'
    BY <1>1, <2>1, <2>6 DEF IInv, TypeOK, File, ChownKnows, OwnerKept
  <2>8. QED
    BY <1>1, <2>2, <2>4, <2>5, <2>6, <2>7, GoesOn DEF Carries
<1>4. QED
  BY <1>2, <1>3

LEMMA SizeKeeps ==
    ASSUME IInv, NEW c \in Calls, setattr_size(c)
    PROVE  IInv'
<1>1. Active(c) /\ At(c, "size")
  BY DEF setattr_size, Active, At
<1>2. CASE Refused(c)
  BY <1>1, <1>2, SendKeeps DEF Refused
<1>3. CASE ~Refused(c)
  <2>1. /\ clock' = Tick
        /\ \E m \in MayClear(file.mode) :
            file' = [file EXCEPT !.size = rq[c].attrs.size, !.mtime = Tick, !.mode = m]
        /\ ToTime(c, rq[c]) /\ UNCHANGED asked
    BY <1>3 DEF setattr_size
  <2>2. PICK s : Set(c, s) /\ Carries(s, rq[c].attrs, {"sent", "time", "throw"})
    BY <1>1, <2>1, ActiveLocals, ToTimeGood
  <2>3. Tick \in Times
    BY SetattrAssumption DEF IInv, TypeOK, Tick, After, Times
  <2>4. file' \in File /\ OwnerKept'
    <3>1. rq[c].attrs \in Attributes /\ rq[c].attrs.size # None
      BY SetattrAssumption, ActiveLocals, <1>1 DEF At, IInv, AllDue, Due, Locals
    <3>2. PICK m \in MayClear(file.mode) :
            file' = [file EXCEPT !.size = rq[c].attrs.size, !.mtime = Tick, !.mode = m]
      BY <2>1
    <3>3. m \in Modes
      BY MayClearGood DEF IInv, TypeOK, File
    <3>4. QED
      BY <2>1, <2>3, <3>1, <3>2, <3>3 DEF IInv, TypeOK, File, Attributes, OwnerKept
  <2>5. QED
    BY <1>1, <2>1, <2>2, <2>3, <2>4, GoesOn DEF IInv, TypeOK, Carries
<1>4. QED
  BY <1>2, <1>3

LEMMA TimeKeeps ==
    ASSUME IInv, NEW c \in Calls, setattr_time(c)
    PROVE  IInv'
<1>1. Active(c) /\ At(c, "time")
  BY DEF setattr_time, Active, At
<1>2. CASE Refused(c)
  BY <1>1, <1>2, SendKeeps DEF Refused
<1>3. CASE ~Refused(c)
  <2>1. /\ file' = [file EXCEPT !.mtime = rq[c]._mtime, !.atime = rq[c]._atime]
        /\ Send(c, rq[c], TRUE) /\ UNCHANGED <<clock, asked>>
    BY <1>3 DEF setattr_time
  <2>2. PICK s : Set(c, s) /\ Carries(s, rq[c].attrs, {"sent"})
    BY <1>1, <2>1, ActiveLocals, SendGood
  <2>3. file' \in File /\ OwnerKept'
    <3>1. rq[c]._mtime \in Times /\ rq[c]._atime \in Times
      BY <1>1, ActiveLocals DEF TypeOK, Locals
    <3>2. QED
      BY <2>1, <3>1 DEF IInv, TypeOK, File, OwnerKept
  <2>4. QED
    BY <1>1, <2>1, <2>2, <2>3, GoesOn DEF IInv, TypeOK, Carries
<1>4. QED
  BY <1>2, <1>3

(* Steps that leave the owner alone and after which every request is as it *)
(* was before, has just been sent, or is over.                             *)
LEMMA KeptOrSent ==
    ASSUME IInv, rq' \in [Calls -> Locals], file' \in File, clock' \in Times,
           UNCHANGED asked, OwnerKept', OneOwner',
           \A d \in Calls : \/ Like(rq'[d], rq[d])
                            \/ rq'[d].pc = "fhandle" /\ rq'[d].attrs # None
                            \/ rq'[d].pc = "idle"
    PROVE  IInv'
<1>1. TypeOK'
  <2>1. \A d \in Calls :
          /\ rq'[d].pc # "idle" => rq'[d].attrs # None
          /\ rq'[d].pc = "own" => rq'[d].uid # None /\ rq'[d].gid # None
          /\ rq'[d].pc = "time" => rq'[d]._mtime # None /\ rq'[d]._atime # None
    BY DEF IInv, TypeOK, Active, At, Like
  <2>2. QED
    BY <2>1 DEF IInv, TypeOK, Active, At
<1>2. AllDue'
  BY DEF IInv, AllDue, Due, Like
<1>3. ChownKnows'
  BY DEF IInv, ChownKnows, At, Like
<1>4. QED
  BY <1>1, <1>2, <1>3 DEF IInv

LEMMA SentGood ==
    ASSUME TypeOK, NEW a \in Requests
    PROVE  Sent(a) \in Locals /\ Sent(a).pc = "fhandle" /\ Sent(a).attrs = a /\ a # None
<1>1. a # None
  BY SetattrAssumption
<1>2. QED
  BY <1>1, SetattrAssumption DEF TypeOK, Sent, Idle, Locals, Times

LEMMA IdleGood == Idle \in Locals /\ Idle.pc = "idle"
BY SetattrAssumption DEF Idle, Locals, Times

LEMMA SETATTRKeeps ==
    ASSUME IInv, NEW c \in Calls, NEW a \in Requests, SETATTR(c, a)
    PROVE  IInv'
<1>1. Sent(a) \in Locals /\ Sent(a).pc = "fhandle" /\ Sent(a).attrs = a /\ a # None
  BY SentGood DEF IInv
<1>2. /\ rq' \in [Calls -> Locals] /\ rq'[c] = Sent(a)
      /\ \A d \in Calls \ {c} : rq'[d] = rq[d]
      /\ UNCHANGED <<file, clock, asked>>
  BY <1>1 DEF SETATTR, IInv, TypeOK
<1>3. OneOwner'
  BY <1>1, <1>2 DEF SETATTR, IInv, OneOwner, Active
<1>4. QED
  BY <1>1, <1>2, <1>3, KeptOrSent DEF IInv, TypeOK, OwnerKept, Like

(* The process starts again: who asks again is one of those that asked.    *)
LEMMA DieKeeps ==
    ASSUME IInv, NEW c \in Calls, Die(c)
    PROVE  IInv'
<1>1. PICK again \in SUBSET {d \in Calls : Active(d)} :
        rq' = [d \in Calls |-> IF d \in again THEN Sent(rq[d].attrs) ELSE Idle]
  BY DEF Die
<1>2. \A d \in Calls : rq'[d] = IF d \in again THEN Sent(rq[d].attrs) ELSE Idle
  BY <1>1
<1>3. \A d \in again : Active(d) /\ rq[d].attrs \in Requests
  BY <1>1 DEF IInv, TypeOK, Locals
<1>4. \A d \in again : Sent(rq[d].attrs) \in Locals /\ rq'[d].pc = "fhandle"
                       /\ rq'[d].attrs = rq[d].attrs /\ rq[d].attrs # None
  BY <1>1, <1>2, <1>3, SentGood DEF IInv
<1>5. \A d \in Calls \ again : rq'[d].pc = "idle"
  BY <1>2, IdleGood
<1>6. rq' \in [Calls -> Locals]
  BY <1>1, <1>4, IdleGood
<1>7. OneOwner'
  BY <1>1, <1>3, <1>4, <1>5 DEF IInv, OneOwner, Active
<1>8. UNCHANGED <<file, clock, asked>>
  BY DEF Die
<1>9. QED
  BY <1>4, <1>5, <1>6, <1>7, <1>8, KeptOrSent DEF IInv, TypeOK, OwnerKept

LEMMA ReceiveKeeps ==
    ASSUME IInv, NEW c \in Calls, Receive(c)
    PROVE  IInv'
<1>1. /\ rq' \in [Calls -> Locals] /\ rq'[c].pc = "idle"
      /\ \A d \in Calls \ {c} : rq'[d] = rq[d]
      /\ UNCHANGED <<file, clock, asked>>
  BY IdleGood DEF Receive, IInv, TypeOK
<1>2. OneOwner'
  BY <1>1 DEF IInv, OneOwner, Active
<1>3. QED
  BY <1>1, <1>2, KeptOrSent DEF IInv, TypeOK, OwnerKept, Like

LEMMA OthersKeep ==
    ASSUME IInv, Write \/ Read
    PROVE  IInv'
<1>1. Tick \in Times
  BY SetattrAssumption DEF IInv, TypeOK, Tick, After, Times
<1>2. CASE Write
  <2>0. file' \in File /\ clock' \in Times /\ UNCHANGED asked /\ OwnerKept'
    BY <1>1, <1>2 DEF Write, IInv, TypeOK, File, OwnerKept
  <2>1. rq' \in [Calls -> Locals] /\ \A d \in Calls : Like(rq'[d], rq[d])
    BY <1>2, OthersLike DEF Write, IInv, TypeOK
  <2>2. OneOwner'
    BY <2>1 DEF IInv, OneOwner, Active, Like
  <2>3. QED
    BY <2>0, <2>1, <2>2, KeptOrSent
<1>3. CASE Read
  <2>0. file' \in File /\ clock' \in Times /\ UNCHANGED asked /\ OwnerKept'
    BY <1>3 DEF Read, IInv, TypeOK, File, OwnerKept
  <2>1. rq' \in [Calls -> Locals] /\ \A d \in Calls : Like(rq'[d], rq[d])
    BY <1>3, OthersLike DEF Read, IInv, TypeOK
  <2>2. OneOwner'
    BY <2>1 DEF IInv, OneOwner, Active, Like
  <2>3. QED
    BY <2>0, <2>1, <2>2, KeptOrSent
<1>4. QED
  BY <1>2, <1>3

-----------------------------------------------------------------------------
LEMMA InitGood == Init => IInv
<1> SUFFICES ASSUME Init PROVE IInv
  OBVIOUS
<1>1. rq \in [Calls -> Locals] /\ \A c \in Calls : rq[c].pc = "idle"
  BY IdleGood DEF Init
<1>2. file \in File /\ clock \in Times /\ asked \in [uid : Nat, gid : Nat]
  <2>1. Start \in Times /\ Start \div 2 \in Times /\ 0 \in Modes
    BY SetattrAssumption DEF Times, Modes
  <2>2. QED
    BY <2>1 DEF Init, File
<1>3. TypeOK
  BY <1>1, <1>2 DEF TypeOK, Active, At
<1>4. OneOwner /\ AllDue /\ ChownKnows
  BY <1>1 DEF OneOwner, AllDue, Due, ChownKnows, Active, At
<1>5. OwnerKept
  BY DEF Init, OwnerKept
<1>6. QED
  BY <1>3, <1>4, <1>5 DEF IInv

LEMMA NextKeeps == IInv /\ [Next]_savars => IInv'
<1> SUFFICES ASSUME IInv, [Next]_savars PROVE IInv'
  OBVIOUS
<1>1. ASSUME NEW c \in Calls, NEW a \in Requests, SETATTR(c, a) PROVE IInv'
  BY <1>1, SETATTRKeeps
<1>2. ASSUME NEW c \in Calls, Handler(c) PROVE IInv'
  BY <1>2, FhandleKeeps, ModeKeeps, OwnLstatKeeps, OwnKeeps, SizeKeeps, TimeKeeps
     DEF Handler
<1>3. ASSUME NEW c \in Calls, Die(c) \/ Receive(c) PROVE IInv'
  BY <1>3, DieKeeps, ReceiveKeeps
<1>4. CASE Write \/ Read
  BY <1>4, OthersKeep
<1>5. CASE UNCHANGED savars
  BY <1>5 DEF savars, IInv, TypeOK, OneOwner, AllDue, ChownKnows, OwnerKept,
              Active, At
<1>6. QED
  BY <1>1, <1>2, <1>3, <1>4, <1>5 DEF Next

LEMMA InvariantHolds == Spec => []IInv
BY InitGood, NextKeeps, PTL DEF Spec

(* The types; above all, chown is never given an undefined owner, nor      *)
(* utimes an undefined time: a request that would do so ends there.        *)
THEOREM TypesHold == Spec => []TypeOK
<1>1. IInv => TypeOK
  BY DEF IInv
<1>2. QED
  BY <1>1, InvariantHolds, PTL

(* The owner is whom clients asked for last, with any number of requests   *)
(* of any kind, failures and restarts, while one at a time names an owner. *)
THEOREM OwnerIsKept == Spec => []OwnerKept
<1>1. IInv => OwnerKept
  BY DEF IInv
<1>2. QED
  BY <1>1, InvariantHolds, PTL

-----------------------------------------------------------------------------
(* ReplyExact.  How far a request that is alone with the file has come: Made *)
(* says that of the request for a, which found the file b at time t, the   *)
(* first k parts have been done by now and nothing else has, f being the   *)
(* file.                                                                   *)
ModeBy(a, b, k) ==
    LET m == IF 1 <= k THEN Wanted(a.mode, b.mode) ELSE b.mode
    IN  IF (2 <= k /\ HasOwner(a)) \/ (3 <= k /\ a.size # None)
        THEN MayClear(m) ELSE {m}
Made(f, now, a, b, t, k) ==
    /\ f.mode \in ModeBy(a, b, k)
    /\ f.uid  = IF 2 <= k THEN Wanted(a.uid, b.uid) ELSE b.uid
    /\ f.gid  = IF 2 <= k THEN Wanted(a.gid, b.gid) ELSE b.gid
    /\ f.size = IF 3 <= k THEN Wanted(a.size, b.size) ELSE b.size
    /\ IF 3 <= k /\ a.size # None THEN f.mtime \in After(t)..now
                                  ELSE f.mtime = b.mtime
    /\ f.atime = b.atime

(* The times that a request has in hand before it fills in the rest: those *)
(* the file had when it began, as lstat shows them, if it has come past    *)
(* the owner's lstat.                                                      *)
Saved(r) == IF HasOwner(r.attrs)
            THEN /\ r._mtime = Down(r.before.mtime, StatUnit)
                 /\ r._atime = Down(r.before.atime, StatUnit)
            ELSE r._mtime = None /\ r._atime = None

(* What a request that is alone with the file f holds, and has done to it. *)
Alone(f, now, r) ==
    LET a == r.attrs  b == r.before  t == r.since
    IN  /\ t <= now
        /\ r.pc \in {"fhandle", "mode"} => Made(f, now, a, b, t, 0)
        /\ r.pc \in {"own_lstat", "own"} => Made(f, now, a, b, t, 1)
        /\ r.pc = "size" => Made(f, now, a, b, t, 2)
        /\ r.pc = "time" => Made(f, now, a, b, t, 3)
        /\ r.pc \in {"fhandle", "mode", "own_lstat"} =>
                r._mtime = None /\ r._atime = None
        /\ r.pc = "own" => /\ r.uid = Wanted(a.uid, b.uid)
                           /\ r.gid = Wanted(a.gid, b.gid)
        /\ r.pc \in {"own", "size"} => Saved(r)
        /\ r.pc = "time" =>
            /\ SetsTimes(a)
            /\ NewTime(a.how_m_time, a.mtime, r._mtime, t, now,
                       HasOwner(a) /\ r._mtime = Down(b.mtime, StatUnit))
            /\ NewTime(a.how_a_time, a.atime, r._atime, t, now,
                       HasOwner(a) /\ r._atime = Down(b.atime, StatUnit))
        /\ r.pc = "sent" =>
            IF r.ok THEN Carried(f, now, a, b, t)
                    ELSE \E k \in 0..3 : Made(f, now, a, b, t, k)

Fit(f, now, r) == r.before # None => Alone(f, now, r)
Progress == \A c \in Calls : Active(c) => Fit(file, clock, rq[c])

-----------------------------------------------------------------------------
(* How the mode goes from part to part. *)
LEMMA ModeSteps ==
    ASSUME NEW a \in Attributes, NEW b \in File
    PROVE  /\ ModeBy(a, b, 0) = {b.mode}
           /\ a.mode # None => ModeBy(a, b, 1) = {a.mode}
           /\ a.mode = None => ModeBy(a, b, 1) = {b.mode}
           /\ HasOwner(a) => \A m \in ModeBy(a, b, 1) : MayClear(m) = ModeBy(a, b, 2)
           /\ ~HasOwner(a) => ModeBy(a, b, 2) = ModeBy(a, b, 1)
           /\ a.size # None =>
                \A m \in ModeBy(a, b, 2) : MayClear(m) \subseteq ModeBy(a, b, 3)
           /\ a.size = None => ModeBy(a, b, 3) = ModeBy(a, b, 2)
           /\ NewMode(a, b) = ModeBy(a, b, 3)
<1>1. Wanted(a.mode, b.mode) \in Modes
  BY DEF Wanted, Attributes, File
<1>2. \A m \in MayClear(Wanted(a.mode, b.mode)) :
        MayClear(m) \subseteq MayClear(Wanted(a.mode, b.mode))
  BY <1>1, MayClearGood
<1>3. /\ ModeBy(a, b, 0) = {b.mode}
      /\ ModeBy(a, b, 1) = {Wanted(a.mode, b.mode)}
      /\ ModeBy(a, b, 2) = IF HasOwner(a) THEN MayClear(Wanted(a.mode, b.mode))
                                          ELSE {Wanted(a.mode, b.mode)}
      /\ ModeBy(a, b, 3) = IF HasOwner(a) \/ a.size # None
                           THEN MayClear(Wanted(a.mode, b.mode))
                           ELSE {Wanted(a.mode, b.mode)}
  BY DEF ModeBy
<1>4. NewMode(a, b) = ModeBy(a, b, 3)
  BY <1>3 DEF NewMode
<1>5. ASSUME a.size # None, NEW m \in ModeBy(a, b, 2)
      PROVE  MayClear(m) \subseteq ModeBy(a, b, 3)
  BY <1>2, <1>3, <1>5
<1>6. QED
  BY <1>3, <1>4, <1>5 DEF Wanted

(* What a request holds has the types that ModeSteps asks for. *)
LEMMA BeforeGood ==
    ASSUME NEW r \in Locals, r.attrs # None, r.before # None
    PROVE  r.attrs \in Attributes /\ r.before \in File
BY SetattrAssumption DEF Locals

(* Time goes by, nothing else: what has been done stays done. *)
LEMMA LaterFits ==
    ASSUME NEW r \in Locals, NEW f, NEW now \in Times, NEW then \in Times,
           now <= then, Fit(f, now, r)
    PROVE  Fit(f, then, r)
<1>1. r.since \in Nat /\ now \in Nat /\ then \in Nat /\ After(r.since) \in Nat
  BY SetattrAssumption DEF Locals, Times, After
<1>2. \A lo \in Nat : \A x : x \in lo..now => x \in lo..then
  BY <1>1
<1>3. \A a, b, k : Made(f, now, a, b, r.since, k) => Made(f, then, a, b, r.since, k)
  BY <1>1, <1>2 DEF Made
<1>4. \A a, b : Carried(f, now, a, b, r.since) => Carried(f, then, a, b, r.since)
  <2>1. \A how, asks, time : \A kept, later \in BOOLEAN : (kept => later) =>
            (NewTime(how, asks, time, r.since, now, kept)
                => NewTime(how, asks, time, r.since, then, later))
    BY <1>1, <1>2 DEF NewTime
  <2>2. QED
    <3>1. SUFFICES ASSUME NEW a, NEW b, Carried(f, now, a, b, r.since)
                   PROVE  Carried(f, then, a, b, r.since)
      OBVIOUS
    <3>2. NewTime(a.how_m_time, a.mtime, f.mtime, r.since, then,
                  IF SetsTimes(a) THEN f.mtime = Down(b.mtime, StatUnit)
                  ELSE IF a.size = None THEN f.mtime = b.mtime
                  ELSE f.mtime \in After(r.since)..then)
      <4>1. f.mtime \in After(r.since)..now => f.mtime \in After(r.since)..then
        BY <1>1, <1>2
      <4>2. CASE SetsTimes(a)
        BY <2>1, <3>1, <4>2 DEF Carried
      <4>3. CASE ~SetsTimes(a) /\ a.size = None
        BY <2>1, <3>1, <4>3 DEF Carried
      <4>4. CASE ~SetsTimes(a) /\ a.size # None
        <5>1. NewTime(a.how_m_time, a.mtime, f.mtime, r.since, now,
                      f.mtime \in After(r.since)..now)
          BY <3>1, <4>4 DEF Carried
        <5>2. NewTime(a.how_m_time, a.mtime, f.mtime, r.since, then,
                      f.mtime \in After(r.since)..then)
          BY <1>1, <1>2, <4>1, <5>1 DEF NewTime
        <5>3. QED
          BY <4>4, <5>2
      <4>5. QED
        BY <4>2, <4>3, <4>4
    <3>3. NewTime(a.how_a_time, a.atime, f.atime, r.since, then,
                  f.atime = IF SetsTimes(a) THEN Down(b.atime, StatUnit) ELSE b.atime)
      BY <2>1, <3>1 DEF Carried
    <3>4. QED
      BY <3>1, <3>2, <3>3 DEF Carried
<1>5. r.since <= now => r.since <= then
  BY <1>1
<1>6. r.pc = "sent" => (Fit(f, now, r) => Fit(f, then, r))
  BY <1>3, <1>4, <1>5 DEF Fit, Alone
<1>7. r.pc # "sent" => (Fit(f, now, r) => Fit(f, then, r))
  BY <1>1, <1>2, <1>3, <1>5 DEF Fit, Alone, NewTime
<1>8. QED
  BY <1>6, <1>7

(* A step of request c: the others are alone no more if the file changes.  *)
LEMMA SetFits ==
    ASSUME IInv, IInv', Progress, NEW c \in Calls, NEW s, Set(c, s),
           clock <= clock', Fit(file', clock', s)
    PROVE  Progress'
<1> SUFFICES ASSUME NEW d \in Calls, d # c, rq'[d].pc # "idle", rq'[d].before # None
             PROVE  Alone(file', clock', rq'[d])
  BY DEF Progress, Active, Fit, Set
<1>1. rq'[d] = rq[d] /\ file' = file
  BY DEF Set, Others, IInv, TypeOK, Locals
<1>2. Fit(file, clock, rq[d]) /\ rq[d] \in Locals
  BY <1>1 DEF Progress, Active, IInv, TypeOK
<1>3. Fit(file, clock', rq[d])
  BY <1>2, LaterFits DEF IInv, TypeOK
<1>4. QED
  BY <1>1, <1>3 DEF Fit

(* From access to access.  The file may just have been changed: now it is  *)
(* file', and the clock stands at clock'.                                  *)
Upto(r, k) ==
    r.before # None =>
        r.since <= clock /\ Made(file', clock', r.attrs, r.before, r.since, k)

LEMMA DoneFits ==
    ASSUME NEW c \in Calls, NEW r \in Locals, Send(c, r, TRUE),
           clock \in Nat, clock' \in Nat, clock <= clock',
           r.before # None =>
                /\ r.since <= clock
                /\ Carried(file', clock', r.attrs, r.before, r.since)
    PROVE  \E s : Set(c, s) /\ Fit(file', clock', s)
<1> DEFINE s == [Idle EXCEPT !.pc = "sent", !.attrs = r.attrs,
                             !.before = r.before, !.since = r.since, !.ok = TRUE]
<1>1. /\ s.pc = "sent" /\ s.attrs = r.attrs /\ s.before = r.before
      /\ s.since = r.since /\ s.ok
  BY DEF Idle
<1>2. Set(c, s)
  BY DEF Send
<1>3. r.since \in Nat
  BY SetattrAssumption DEF Locals, Times
<1> HIDE DEF s
<1>4. Fit(file', clock', s)
  BY <1>1, <1>3 DEF Fit, Alone
<1>5. QED
  BY <1>2, <1>4

LEMMA ToTimeFits ==
    ASSUME TypeOK, TypeOK', NEW c \in Calls, NEW r \in Locals, r.attrs # None,
           ToTime(c, r), clock <= clock', Upto(r, 3), r.before # None => Saved(r)
    PROVE  \E s : Set(c, s) /\ Fit(file', clock', s)
<1>1. /\ clock \in Nat /\ clock' \in Nat /\ r.since \in Nat
      /\ r.attrs \in Attributes
  BY SetattrAssumption DEF TypeOK, Locals, Times
<1>2. CASE ~SetsTimes(r.attrs)
  <2>1. r.before # None => Carried(file', clock', r.attrs, r.before, r.since)
    <3>1. SUFFICES ASSUME r.before # None
                   PROVE  Carried(file', clock', r.attrs, r.before, r.since)
      OBVIOUS
    <3>2. NewMode(r.attrs, r.before) = ModeBy(r.attrs, r.before, 3)
      BY <3>1, BeforeGood, ModeSteps
    <3>3. QED
      BY <1>1, <1>2, <3>1, <3>2 DEF Upto, Made, Carried, NewTime, SetsTimes
  <2>2. Send(c, r, TRUE)
    BY <1>2 DEF ToTime
  <2>3. QED
    BY <1>1, <2>1, <2>2, DoneFits DEF Upto
<1>3. CASE SetsTimes(r.attrs)
  <2> DEFINE t == Timed(r)
             s == [t EXCEPT !.pc = IF OneTimeMissing(t) THEN "throw" ELSE "time"]
  <2>1. Set(c, s)
    BY <1>3 DEF ToTime
  <2>2. /\ t.attrs = r.attrs /\ t.before = r.before /\ t.since = r.since
        /\ t._mtime = GetTime(r.attrs.how_m_time, r.attrs.mtime, r._mtime)
        /\ t._atime = GetTime(r.attrs.how_a_time, r.attrs.atime, r._atime)
        /\ t \in [pc : {r.pc}, attrs : {r.attrs}, before : {r.before},
                  since : {r.since}, ok : {r.ok}, uid : {r.uid}, gid : {r.gid},
                  _mtime : {t._mtime}, _atime : {t._atime}]
    BY DEF Timed, Locals
  <2> HIDE DEF t
  <2>3. /\ s.attrs = r.attrs /\ s.before = r.before /\ s.since = r.since
        /\ s._mtime = t._mtime /\ s._atime = t._atime
        /\ s.pc = IF OneTimeMissing(t) THEN "throw" ELSE "time"
    BY <2>2
  <2> HIDE DEF s
  <2>4. ASSUME r.before # None, s.pc = "time"
        PROVE  Alone(file', clock', s)
    <3>1. t._mtime # None /\ t._atime # None
      BY <1>3, <2>2, <2>3, <2>4 DEF OneTimeMissing
    <3>2. r.since <= clock /\ Made(file', clock', s.attrs, s.before, s.since, 3)
      BY <2>3, <2>4 DEF Upto
    <3>3. Saved(r)
      BY <2>4
    <3>4. clock \in r.since..clock'
      BY <1>1, <2>3, <3>2
    <3>5. NewTime(s.attrs.how_m_time, s.attrs.mtime, s._mtime, s.since, clock',
                  HasOwner(s.attrs) /\ s._mtime = Down(s.before.mtime, StatUnit))
      BY <2>2, <2>3, <3>1, <3>3, <3>4 DEF NewTime, GetTime, Saved
    <3>6. NewTime(s.attrs.how_a_time, s.attrs.atime, s._atime, s.since, clock',
                  HasOwner(s.attrs) /\ s._atime = Down(s.before.atime, StatUnit))
      BY <2>2, <2>3, <3>1, <3>3, <3>4 DEF NewTime, GetTime, Saved
    <3>7. QED
      BY <1>1, <1>3, <2>3, <2>4, <3>2, <3>5, <3>6 DEF Alone
  <2>5. ASSUME r.before # None, s.pc = "throw"
        PROVE  Alone(file', clock', s)
    BY <1>1, <2>3, <2>5 DEF Alone, Upto
  <2>6. QED
    BY <2>1, <2>3, <2>4, <2>5 DEF Fit
<1>4. QED
  BY <1>2, <1>3

LEMMA ToSizeFits ==
    ASSUME TypeOK, TypeOK', NEW c \in Calls, NEW r \in Locals, r.attrs # None,
           ToSize(c, r), clock <= clock', Upto(r, 2), r.before # None => Saved(r)
    PROVE  \E s : Set(c, s) /\ Fit(file', clock', s)
<1>1. clock \in Nat /\ clock' \in Nat /\ r.since \in Nat
  BY SetattrAssumption DEF TypeOK, Locals, Times
<1>2. CASE r.attrs.size # None
  <2> DEFINE s == [r EXCEPT !.pc = "size"]
  <2>1. /\ s.pc = "size" /\ s.attrs = r.attrs /\ s.before = r.before
        /\ s.since = r.since /\ s._mtime = r._mtime /\ s._atime = r._atime
    BY DEF Locals
  <2>2. Set(c, s)
    BY <1>2 DEF ToSize
  <2> HIDE DEF s
  <2>3. Fit(file', clock', s)
    BY <1>1, <2>1 DEF Fit, Alone, Upto, Saved
  <2>4. QED
    BY <2>2, <2>3
<1>3. CASE ~(r.attrs.size # None)
  <2>1. Upto(r, 3)
    <3>1. SUFFICES ASSUME r.before # None
                   PROVE  r.since <= clock /\ Made(file', clock', r.attrs, r.before, r.since, 3)
      BY DEF Upto
    <3>2. ModeBy(r.attrs, r.before, 3) = ModeBy(r.attrs, r.before, 2)
      BY <1>3, <3>1, BeforeGood, ModeSteps
    <3>3. QED
      BY <1>3, <3>1, <3>2 DEF Upto, Made, Wanted, HasOwner
  <2>2. QED
    BY <1>3, <2>1, ToTimeFits DEF ToSize
<1>4. QED
  BY <1>2, <1>3

LEMMA ToOwnFits ==
    ASSUME TypeOK, TypeOK', NEW c \in Calls, NEW r \in Locals, r.attrs # None,
           ToOwn(c, r), clock <= clock', Upto(r, 1),
           r.before # None => r._mtime = None /\ r._atime = None
    PROVE  \E s : Set(c, s) /\ Fit(file', clock', s)
<1>1. clock \in Nat /\ clock' \in Nat /\ r.since \in Nat
  BY SetattrAssumption DEF TypeOK, Locals, Times
<1>2. CASE HasOwner(r.attrs)
  <2> DEFINE s == [r EXCEPT !.pc = "own_lstat"]
  <2>1. /\ s.pc = "own_lstat" /\ s.attrs = r.attrs /\ s.before = r.before
        /\ s.since = r.since /\ s._mtime = r._mtime /\ s._atime = r._atime
    BY DEF Locals
  <2>2. Set(c, s)
    BY <1>2 DEF ToOwn
  <2> HIDE DEF s
  <2>3. Fit(file', clock', s)
    BY <1>1, <2>1 DEF Fit, Alone, Upto
  <2>4. QED
    BY <2>2, <2>3
<1>3. CASE ~HasOwner(r.attrs)
  <2>1. Upto(r, 2)
    <3>1. SUFFICES ASSUME r.before # None
                   PROVE  r.since <= clock /\ Made(file', clock', r.attrs, r.before, r.since, 2)
      BY DEF Upto
    <3>2. ModeBy(r.attrs, r.before, 2) = ModeBy(r.attrs, r.before, 1)
      BY <1>3, <3>1, BeforeGood, ModeSteps
    <3>3. QED
      BY <1>3, <3>1, <3>2 DEF Upto, Made, Wanted, HasOwner
  <2>2. r.before # None => Saved(r)
    BY <1>3 DEF Saved
  <2>3. QED
    BY <1>3, <2>1, <2>2, ToSizeFits DEF ToOwn
<1>4. QED
  BY <1>2, <1>3

LEMMA ToModeFits ==
    ASSUME TypeOK, TypeOK', NEW c \in Calls, NEW r \in Locals, r.attrs # None,
           ToMode(c, r), clock <= clock', Upto(r, 0),
           r.before # None => r._mtime = None /\ r._atime = None
    PROVE  \E s : Set(c, s) /\ Fit(file', clock', s)
<1>1. clock \in Nat /\ clock' \in Nat /\ r.since \in Nat
  BY SetattrAssumption DEF TypeOK, Locals, Times
<1>2. CASE r.attrs.mode # None
  <2> DEFINE s == [r EXCEPT !.pc = "mode"]
  <2>1. /\ s.pc = "mode" /\ s.attrs = r.attrs /\ s.before = r.before
        /\ s.since = r.since /\ s._mtime = r._mtime /\ s._atime = r._atime
    BY DEF Locals
  <2>2. Set(c, s)
    BY <1>2 DEF ToMode
  <2> HIDE DEF s
  <2>3. Fit(file', clock', s)
    BY <1>1, <2>1 DEF Fit, Alone, Upto
  <2>4. QED
    BY <2>2, <2>3
<1>3. CASE ~(r.attrs.mode # None)
  <2>1. Upto(r, 1)
    <3>1. SUFFICES ASSUME r.before # None
                   PROVE  r.since <= clock /\ Made(file', clock', r.attrs, r.before, r.since, 1)
      BY DEF Upto
    <3>2. ModeBy(r.attrs, r.before, 1) = ModeBy(r.attrs, r.before, 0)
      BY <1>3, <3>1, BeforeGood, ModeSteps
    <3>3. QED
      BY <1>3, <3>1, <3>2 DEF Upto, Made, Wanted, HasOwner
  <2>2. QED
    BY <1>3, <2>1, ToOwnFits DEF ToMode
<1>4. QED
  BY <1>2, <1>3

-----------------------------------------------------------------------------
(* Each step keeps Progress. *)

(* An error reply: so far, the first k parts have been done. *)
LEMMA RefusedFits ==
    ASSUME IInv, IInv', Progress, NEW c \in Calls, Active(c),
           Send(c, rq[c], FALSE), UNCHANGED <<file, clock, asked>>,
           Upto(rq[c], 0) \/ Upto(rq[c], 1) \/ Upto(rq[c], 2) \/ Upto(rq[c], 3)
    PROVE  Progress'
<1> DEFINE r == rq[c]
<1>1. r \in Locals /\ clock \in Nat /\ clock' = clock
  BY ActiveLocals, SetattrAssumption DEF IInv, TypeOK, Times
<1>2. r.before # None =>
        /\ r.since <= clock
        /\ \E k \in 0..3 : Made(file', clock', r.attrs, r.before, r.since, k)
  <2>1. 0 \in 0..3 /\ 1 \in 0..3 /\ 2 \in 0..3 /\ 3 \in 0..3
    OBVIOUS
  <2>2. QED
    BY <2>1, Zenon DEF Upto
<1> DEFINE s == [Idle EXCEPT !.pc = "sent", !.attrs = r.attrs,
                             !.before = r.before, !.since = r.since, !.ok = FALSE]
<1>3. /\ s.pc = "sent" /\ s.attrs = r.attrs /\ s.before = r.before
      /\ s.since = r.since /\ ~s.ok
  BY DEF Idle
<1>4. Set(c, s)
  BY DEF Send
<1> HIDE DEF s
<1>5. r.since \in Nat
  BY <1>1, SetattrAssumption DEF Locals, Times
<1> HIDE DEF r
<1>6. Fit(file', clock', s)
  BY <1>1, <1>2, <1>3, <1>5 DEF Fit, Alone
<1>7. QED
  BY <1>1, <1>4, <1>6, SetFits

LEMMA FhandleFits ==
    ASSUME IInv, IInv', Progress, NEW c \in Calls, fhandle_to_filename(c)
    PROVE  Progress'
<1> DEFINE r == rq[c]
<1>1. /\ r \in Locals /\ r.attrs # None /\ r.pc = "fhandle" /\ TypeOK /\ TypeOK'
      /\ clock \in Nat /\ r.since \in Nat
  BY ActiveLocals, SetattrAssumption
     DEF fhandle_to_filename, Active, At, IInv, TypeOK, Locals, Times
<1>2. file' = file /\ clock' = clock
  BY DEF fhandle_to_filename
<1>3. Fit(file, clock, r)
  BY <1>1 DEF Progress, Active
<1>4. /\ Upto(r, 0)
      /\ r.before # None => r._mtime = None /\ r._atime = None
  BY <1>1, <1>2, <1>3 DEF Upto, Fit, Alone
<1>5. CASE ToMode(c, r)
  <2>1. PICK s : Set(c, s) /\ Fit(file', clock', s)
    BY <1>1, <1>2, <1>4, <1>5, ToModeFits
  <2>2. QED
    BY <1>1, <1>2, <2>1, SetFits
<1>6. CASE Send(c, r, FALSE)
  <2>1. Active(c) /\ UNCHANGED <<file, clock, asked>>
    BY <1>1 DEF fhandle_to_filename, Active
  <2>2. QED
    BY <1>4, <1>6, <2>1, RefusedFits
<1>7. QED
  BY <1>5, <1>6 DEF fhandle_to_filename

LEMMA ModeFits ==
    ASSUME IInv, IInv', Progress, NEW c \in Calls, setattr_mode(c)
    PROVE  Progress'
<1> DEFINE r == rq[c]
<1>1. /\ r \in Locals /\ r.attrs # None /\ r.pc = "mode" /\ TypeOK /\ TypeOK'
      /\ clock \in Nat /\ r.since \in Nat /\ Active(c)
  BY ActiveLocals, SetattrAssumption
     DEF setattr_mode, Active, At, IInv, TypeOK, Locals, Times
<1>2. Fit(file, clock, r)
  BY <1>1 DEF Progress, Active
<1>3. r.before # None => /\ r._mtime = None /\ r._atime = None /\ r.since <= clock
                         /\ Made(file, clock, r.attrs, r.before, r.since, 0)
  BY <1>1, <1>2 DEF Fit, Alone
<1>4. CASE Refused(c)
  <2>1. Upto(r, 0)
    BY <1>3, <1>4 DEF Upto, Refused
  <2>2. QED
    BY <1>1, <1>4, <2>1, RefusedFits DEF Refused
<1>5. CASE /\ file' = [file EXCEPT !.mode = r.attrs.mode]
           /\ ToOwn(c, r) /\ UNCHANGED <<clock, asked>>
  <2>1. r.attrs.mode # None
    BY <1>1 DEF IInv, AllDue, Due
  <2>2. Upto(r, 1)
    <3>1. SUFFICES ASSUME r.before # None
                   PROVE  Made(file', clock', r.attrs, r.before, r.since, 1)
      BY <1>3, <1>5 DEF Upto
    <3>2. ModeBy(r.attrs, r.before, 1) = {r.attrs.mode}
      BY <1>1, <2>1, <3>1, BeforeGood, ModeSteps
    <3>3. QED
      BY <1>1, <1>3, <1>5, <3>1, <3>2 DEF Made, TypeOK, File
  <2>3. PICK s : Set(c, s) /\ Fit(file', clock', s)
    BY <1>1, <1>3, <1>5, <2>2, ToOwnFits
  <2>4. QED
    BY <1>1, <1>5, <2>3, SetFits
<1>6. QED
  BY <1>4, <1>5 DEF setattr_mode

(* What lstat finds is what the file had at the start, but for its mode. *)
LEMMA OwnLstatFits ==
    ASSUME IInv, IInv', Progress, NEW c \in Calls, setattr_own_lstat(c)
    PROVE  Progress'
<1> DEFINE r == rq[c]
           a == r.attrs
<1>1. /\ r \in Locals /\ a # None /\ r.pc = "own_lstat"
      /\ clock \in Nat /\ r.since \in Nat /\ Active(c)
      /\ UNCHANGED <<file, clock, asked>>
  BY ActiveLocals, SetattrAssumption
     DEF setattr_own_lstat, Active, At, IInv, TypeOK, Locals, Times
<1>2. Fit(file, clock, r)
  BY <1>1 DEF Progress
<1>3. r.before # None => /\ r.since <= clock
                         /\ Made(file, clock, a, r.before, r.since, 1)
  BY <1>1, <1>2 DEF Fit, Alone
<1>4. CASE Send(c, r, FALSE)
  <2>1. Upto(r, 1)
    BY <1>1, <1>3 DEF Upto
  <2>2. QED
    BY <1>1, <1>4, <2>1, RefusedFits
<1>5. CASE ~Send(c, r, FALSE)
  <2> DEFINE s == [r EXCEPT
                     !.pc = "own",
                     !.uid = IF a.uid # None THEN a.uid ELSE file.uid,
                     !.gid = IF a.gid # None THEN a.gid ELSE file.gid,
                     !._mtime = Down(file.mtime, StatUnit),
                     !._atime = Down(file.atime, StatUnit)]
  <2>1. Set(c, s)
    BY <1>5 DEF setattr_own_lstat
  <2>2. /\ s.pc = "own" /\ s.attrs = a /\ s.before = r.before /\ s.since = r.since
        /\ s.uid = IF a.uid # None THEN a.uid ELSE file.uid
        /\ s.gid = IF a.gid # None THEN a.gid ELSE file.gid
        /\ s._mtime = Down(file.mtime, StatUnit)
        /\ s._atime = Down(file.atime, StatUnit)
    BY <1>1 DEF Locals
  <2>3. HasOwner(a)
    BY <1>1 DEF IInv, AllDue, Due
  <2> HIDE DEF s
  <2>4. ASSUME r.before # None PROVE Alone(file, clock, s)
    <3>1. Made(file, clock, s.attrs, s.before, s.since, 1) /\ s.since <= clock
      BY <1>3, <2>2, <2>4
    <3>2. /\ s.uid = Wanted(s.attrs.uid, s.before.uid)
          /\ s.gid = Wanted(s.attrs.gid, s.before.gid)
          /\ s._mtime = Down(s.before.mtime, StatUnit)
          /\ s._atime = Down(s.before.atime, StatUnit)
      BY <2>2, <3>1 DEF Made, Wanted
    <3>3. Saved(s)
      BY <2>2, <2>3, <3>2 DEF Saved
    <3>4. QED
      BY <2>2, <3>1, <3>2, <3>3 DEF Alone
  <2>5. Fit(file', clock', s)
    BY <1>1, <2>2, <2>4 DEF Fit
  <2>6. QED
    BY <1>1, <2>1, <2>5, SetFits
<1>6. QED
  BY <1>4, <1>5

LEMMA OwnFits ==
    ASSUME IInv, IInv', Progress, NEW c \in Calls, setattr_own(c)
    PROVE  Progress'
<1> DEFINE r == rq[c]
           s == [r EXCEPT !.uid = None, !.gid = None]
<1>1. /\ r \in Locals /\ r.attrs # None /\ r.pc = "own" /\ TypeOK /\ TypeOK'
      /\ clock \in Nat /\ r.since \in Nat /\ Active(c)
  <2>1. r.pc = "own" /\ Active(c)
    BY DEF setattr_own, Active, At
  <2>2. QED
    BY <2>1, ActiveLocals, SetattrAssumption DEF IInv, TypeOK, Locals, Times
<1>2. Fit(file, clock, r)
  BY <1>1 DEF Progress
<1>3. r.before # None => /\ Saved(r) /\ r.since <= clock
                         /\ r.uid = Wanted(r.attrs.uid, r.before.uid)
                         /\ r.gid = Wanted(r.attrs.gid, r.before.gid)
                         /\ Made(file, clock, r.attrs, r.before, r.since, 1)
  BY <1>1, <1>2 DEF Fit, Alone
<1>4. CASE Refused(c)
  <2>1. Upto(r, 1)
    BY <1>3, <1>4 DEF Upto, Refused
  <2>2. QED
    BY <1>1, <1>4, <2>1, RefusedFits DEF Refused
<1>5. CASE /\ \E m \in MayClear(file.mode) :
                file' = [file EXCEPT !.uid = r.uid, !.gid = r.gid, !.mode = m]
           /\ ToSize(c, s) /\ UNCHANGED clock
  <2>1. /\ s \in Locals /\ s.attrs = r.attrs /\ s.before = r.before
        /\ s.since = r.since /\ s._mtime = r._mtime /\ s._atime = r._atime
    BY <1>1 DEF Locals
  <2> HIDE DEF s
  <2>2. r.before # None => Made(file', clock', r.attrs, r.before, r.since, 2)
    <3>1. SUFFICES ASSUME r.before # None
                   PROVE  Made(file', clock', r.attrs, r.before, r.since, 2)
      OBVIOUS
    <3>2. PICK m \in MayClear(file.mode) :
            file' = [file EXCEPT !.uid = r.uid, !.gid = r.gid, !.mode = m]
      BY <1>5
    <3>3. HasOwner(r.attrs)
      BY <1>1 DEF IInv, AllDue, Due
    <3>4. m \in ModeBy(r.attrs, r.before, 2)
      BY <1>1, <1>3, <3>1, <3>2, <3>3, BeforeGood, ModeSteps DEF Made
    <3>5. /\ file'.mode = m /\ file'.uid = r.uid /\ file'.gid = r.gid
          /\ file'.size = file.size /\ file'.mtime = file.mtime
          /\ file'.atime = file.atime
      BY <1>1, <3>2 DEF TypeOK, File
    <3>6. QED
      BY <1>3, <1>5, <3>1, <3>4, <3>5 DEF Made
  <2>3. Upto(s, 2) /\ (s.before # None => Saved(s))
    BY <1>3, <2>1, <2>2 DEF Upto, Saved
  <2>4. PICK u : Set(c, u) /\ Fit(file', clock', u)
    BY <1>1, <1>5, <2>1, <2>3, ToSizeFits
  <2>5. QED
    BY <1>1, <1>5, <2>4, SetFits
<1>6. QED
  BY <1>4, <1>5 DEF setattr_own

LEMMA TickLater ==
    ASSUME TypeOK, NEW t \in Times, t <= clock
    PROVE  /\ Tick \in Times /\ clock <= Tick /\ Tick \in After(t)..Tick
BY SetattrAssumption DEF TypeOK, Tick, After, Times

LEMMA SizeFits ==
    ASSUME IInv, IInv', Progress, NEW c \in Calls, setattr_size(c)
    PROVE  Progress'
<1> DEFINE r == rq[c]
<1>1. /\ r \in Locals /\ r.attrs # None /\ r.pc = "size" /\ TypeOK /\ TypeOK'
      /\ clock \in Times /\ r.since \in Times /\ Active(c)
  BY ActiveLocals DEF setattr_size, Active, At, IInv, TypeOK, Locals
<1>2. Fit(file, clock, r)
  BY <1>1 DEF Progress
<1>3. r.before # None => /\ Saved(r) /\ r.since <= clock
                         /\ Made(file, clock, r.attrs, r.before, r.since, 2)
  BY <1>1, <1>2 DEF Fit, Alone
<1>4. CASE Refused(c)
  <2>1. Upto(r, 2)
    BY <1>3, <1>4 DEF Upto, Refused
  <2>2. QED
    BY <1>1, <1>4, <2>1, RefusedFits DEF Refused
<1>5. CASE /\ clock' = Tick
           /\ \E m \in MayClear(file.mode) :
                file' = [file EXCEPT !.size = r.attrs.size, !.mtime = Tick, !.mode = m]
           /\ ToTime(c, r)
  <2>1. r.attrs.size # None
    BY <1>1 DEF IInv, AllDue, Due
  <2>2. clock <= clock'
    BY <1>1, <1>5, SetattrAssumption DEF Tick, After, Times
  <2>3. Upto(r, 3)
    <3>1. SUFFICES ASSUME r.before # None
                   PROVE  Made(file', clock', r.attrs, r.before, r.since, 3)
      BY <1>3 DEF Upto
    <3>2. Tick \in After(r.since)..Tick
      BY <1>1, <1>3, <3>1, TickLater
    <3>3. PICK m \in MayClear(file.mode) :
            file' = [file EXCEPT !.size = r.attrs.size, !.mtime = Tick, !.mode = m]
      BY <1>5
    <3>4. m \in ModeBy(r.attrs, r.before, 3)
      BY <1>1, <1>3, <2>1, <3>1, <3>3, BeforeGood, ModeSteps DEF Made
    <3>5. /\ file'.mode = m /\ file'.uid = file.uid /\ file'.gid = file.gid
          /\ file'.size = r.attrs.size /\ file'.mtime = clock'
          /\ file'.atime = file.atime
      BY <1>1, <1>5, <3>3 DEF TypeOK, File
    <3>6. QED
      BY <1>3, <1>5, <2>1, <3>1, <3>2, <3>4, <3>5 DEF Made, Wanted
  <2>4. PICK s : Set(c, s) /\ Fit(file', clock', s)
    BY <1>1, <1>3, <1>5, <2>2, <2>3, ToTimeFits
  <2>5. QED
    BY <2>2, <2>4, SetFits
<1>6. QED
  BY <1>4, <1>5 DEF setattr_size

(* utimes: the times in hand become the file's.  One that the client leaves *)
(* out is the one it had at the start, which is what it is to have, unless  *)
(* the file has been truncated since.                                      *)
LEMMA TimeFits ==
    ASSUME IInv, IInv', Progress, NEW c \in Calls, setattr_time(c)
    PROVE  Progress'
<1> DEFINE r == rq[c]
<1>1. /\ r \in Locals /\ r.attrs # None /\ r.pc = "time" /\ TypeOK
      /\ clock \in Nat /\ r.since \in Nat /\ Active(c) /\ r.attrs \in Attributes
  BY ActiveLocals, SetattrAssumption
     DEF setattr_time, Active, At, IInv, TypeOK, Locals, Times
<1>2. Fit(file, clock, r)
  BY <1>1 DEF Progress
<1>3. ASSUME r.before # None
      PROVE  /\ r.since <= clock /\ SetsTimes(r.attrs)
             /\ Made(file, clock, r.attrs, r.before, r.since, 3)
             /\ NewTime(r.attrs.how_m_time, r.attrs.mtime, r._mtime, r.since, clock,
                        /\ HasOwner(r.attrs)
                        /\ r._mtime = Down(r.before.mtime, StatUnit))
             /\ NewTime(r.attrs.how_a_time, r.attrs.atime, r._atime, r.since, clock,
                        /\ HasOwner(r.attrs)
                        /\ r._atime = Down(r.before.atime, StatUnit))
  BY <1>1, <1>2, <1>3 DEF Fit, Alone
<1>4. CASE Refused(c)
  <2>1. Upto(r, 3)
    BY <1>3, <1>4 DEF Upto, Refused
  <2>2. QED
    BY <1>1, <1>4, <2>1, RefusedFits DEF Refused
<1>5. CASE /\ file' = [file EXCEPT !.mtime = r._mtime, !.atime = r._atime]
           /\ Send(c, r, TRUE) /\ UNCHANGED <<clock, asked>>
  <2>1. /\ file'.mode = file.mode /\ file'.uid = file.uid /\ file'.gid = file.gid
        /\ file'.size = file.size
        /\ file'.mtime = r._mtime /\ file'.atime = r._atime
    BY <1>1, <1>5 DEF TypeOK, File
  <2>2. ASSUME r.before # None
        PROVE  Carried(file', clock', r.attrs, r.before, r.since)
    <3>1. r.attrs.how_m_time \in Hows /\ r.attrs.how_a_time \in Hows
      BY <1>1 DEF Attributes
    <3>2. NewTime(r.attrs.how_m_time, r.attrs.mtime, file'.mtime, r.since, clock',
                  file'.mtime = Down(r.before.mtime, StatUnit))
      BY <1>3, <1>5, <2>1, <2>2, <3>1 DEF NewTime, Hows
    <3>3. NewTime(r.attrs.how_a_time, r.attrs.atime, file'.atime, r.since, clock',
                  file'.atime = Down(r.before.atime, StatUnit))
      BY <1>3, <1>5, <2>1, <2>2, <3>1 DEF NewTime, Hows
    <3>4. NewMode(r.attrs, r.before) = ModeBy(r.attrs, r.before, 3)
      BY <1>1, <2>2, BeforeGood, ModeSteps
    <3>5. QED
      BY <1>3, <2>1, <2>2, <3>2, <3>3, <3>4 DEF Carried, Made, NewTime
  <2>3. PICK s : Set(c, s) /\ Fit(file', clock', s)
    <3>1. clock' = clock /\ Send(c, r, TRUE)
      BY <1>5
    <3>2. clock' \in Nat /\ clock <= clock'
      BY <1>1, <3>1
    <3>3. r.before # None =>
            /\ r.since <= clock
            /\ Carried(file', clock', r.attrs, r.before, r.since)
      BY <1>3, <2>2
    <3>4. QED
      BY <1>1, <3>1, <3>2, <3>3, DoneFits
  <2>4. QED
    BY <1>1, <1>5, <2>3, SetFits
<1>6. QED
  BY <1>4, <1>5 DEF setattr_time

(* A request on its way has done nothing yet. *)
LEMMA SentFits ==
    ASSUME TypeOK, NEW a
    PROVE  Fit(file, clock, Sent(a))
<1>1. /\ Sent(a).pc = "fhandle" /\ Sent(a).attrs = a /\ Sent(a).before = file
      /\ Sent(a).since = clock /\ Sent(a)._mtime = None /\ Sent(a)._atime = None
  BY DEF Sent, Idle
<1>2. clock \in Nat
  BY SetattrAssumption DEF TypeOK, Times
<1>3. QED
  BY <1>1, <1>2 DEF Fit, Alone, Made, ModeBy

LEMMA SETATTRFits ==
    ASSUME IInv, Progress, NEW c \in Calls, NEW a \in Requests, SETATTR(c, a)
    PROVE  Progress'
<1>1. /\ \A d \in Calls : rq'[d] = IF d = c THEN Sent(a) ELSE rq[d]
      /\ file' = file /\ clock' = clock
  BY DEF SETATTR, IInv, TypeOK
<1>2. QED
  BY <1>1, SentFits DEF Progress, Active, IInv

LEMMA DieFits ==
    ASSUME IInv, NEW c \in Calls, Die(c)
    PROVE  Progress'
<1>1. /\ \A d \in Calls : rq'[d] = Sent(rq[d].attrs) \/ rq'[d] = Idle
      /\ file' = file /\ clock' = clock
  BY DEF Die
<1>2. QED
  BY <1>1, SentFits DEF Progress, Active, Idle, IInv

LEMMA ReceiveFits ==
    ASSUME IInv, Progress, NEW c \in Calls, Receive(c)
    PROVE  Progress'
<1>1. /\ \A d \in Calls : rq'[d] = IF d = c THEN Idle ELSE rq[d]
      /\ file' = file /\ clock' = clock
  BY DEF Receive, IInv, TypeOK
<1>2. QED
  BY <1>1 DEF Progress, Active, Idle

(* A WRITE or a READ, or a program on the host: nobody is alone any more,  *)
(* or only time has passed.                                                *)
LEMMA OthersFit ==
    ASSUME IInv, Progress, Write \/ Read
    PROVE  Progress'
<1>1. /\ clock \in Times /\ clock' \in Times /\ clock <= clock'
      /\ rq' = [d \in Calls |-> Others(rq[d])]
  BY SetattrAssumption DEF IInv, TypeOK, Write, Read, Tick, After, Times
<1> SUFFICES ASSUME NEW d \in Calls, rq'[d].pc # "idle", rq'[d].before # None
             PROVE  Alone(file', clock', rq'[d])
  BY DEF Progress, Active, Fit
<1>2. rq'[d] = rq[d] /\ file' = file /\ rq[d] \in Locals
  BY <1>1 DEF Others, IInv, TypeOK, Locals
<1>3. Fit(file, clock', rq[d])
  BY <1>1, <1>2, LaterFits DEF Progress, Active
<1>4. QED
  BY <1>2, <1>3 DEF Fit

LEMMA NextFits == IInv /\ Progress /\ [Next]_savars => Progress'
<1> SUFFICES ASSUME IInv, Progress, [Next]_savars PROVE Progress'
  OBVIOUS
<1>1. IInv'
  BY NextKeeps
<1>2. ASSUME NEW c \in Calls, NEW a \in Requests, SETATTR(c, a) PROVE Progress'
  BY <1>2, SETATTRFits
<1>3. ASSUME NEW c \in Calls, Handler(c) PROVE Progress'
  BY <1>1, <1>3, FhandleFits, ModeFits, OwnLstatFits, OwnFits, SizeFits, TimeFits
     DEF Handler
<1>4. ASSUME NEW c \in Calls, Die(c) \/ Receive(c) PROVE Progress'
  BY <1>4, DieFits, ReceiveFits
<1>5. CASE Write \/ Read
  BY <1>5, OthersFit
<1>6. CASE UNCHANGED savars
  BY <1>6 DEF savars, Progress, Active
<1>7. QED
  BY <1>2, <1>3, <1>4, <1>5, <1>6 DEF Next

(* Made says of the file what Carried says of the request's first parts. *)
LEMMA MadeParts ==
    ASSUME NEW a \in Attributes, NEW b \in File, NEW t, NEW k \in 0..3,
           Made(file, clock, a, b, t, k)
    PROVE  Carried(file, clock, Parts(a, k), b, t)
<1>1. /\ Parts(a, k).how_m_time = "DONT_CHANGE"
      /\ Parts(a, k).how_a_time = "DONT_CHANGE"
      /\ Parts(a, k).mode = IF 1 <= k THEN a.mode ELSE None
      /\ Parts(a, k).uid = IF 2 <= k THEN a.uid ELSE None
      /\ Parts(a, k).gid = IF 2 <= k THEN a.gid ELSE None
      /\ Parts(a, k).size = IF 3 <= k THEN a.size ELSE None
  BY DEF Parts, Attributes
<1>2. NewMode(Parts(a, k), b) = ModeBy(a, b, k)
  BY <1>1 DEF NewMode, ModeBy, Wanted, HasOwner
<1>3. ~SetsTimes(Parts(a, k))
  BY <1>1 DEF SetsTimes
<1>4. QED
  BY <1>1, <1>2, <1>3 DEF Made, Carried, NewTime, Wanted

LEMMA ExactByProgress == IInv /\ Progress => ReplyExact
<1> SUFFICES ASSUME IInv, Progress, NEW c \in Calls, At(c, "sent"),
                    rq[c].before # None
             PROVE  IF rq[c].ok
                    THEN Carried(file, clock, rq[c].attrs, rq[c].before, rq[c].since)
                    ELSE \E k \in 0..3 : Carried(file, clock, Parts(rq[c].attrs, k),
                                                 rq[c].before, rq[c].since)
  BY DEF ReplyExact
<1> DEFINE r == rq[c]
<1>1. r.attrs \in Attributes /\ r.before \in File
  BY ActiveLocals, BeforeGood DEF Active, At
<1>2. IF r.ok THEN Carried(file, clock, r.attrs, r.before, r.since)
              ELSE \E k \in 0..3 : Made(file, clock, r.attrs, r.before, r.since, k)
  BY DEF Progress, Fit, Alone, Active, At
<1>3. CASE r.ok
  BY <1>2, <1>3
<1>4. CASE ~r.ok
  <2>1. PICK k \in 0..3 : Made(file, clock, r.attrs, r.before, r.since, k)
    BY <1>2, <1>4
  <2>2. Carried(file, clock, Parts(r.attrs, k), r.before, r.since)
    BY <1>1, <2>1, MadeParts
  <2>3. QED
    BY <1>4, <2>2
<1>5. QED
  BY <1>3, <1>4

(* A SETATTR that is alone with the file does what it was asked, up to the *)
(* set-id bits and the grain of the times, and nothing else if the reply   *)
(* is OK, and a first part of it if it is not: for requests of any kind,   *)
(* any number of them, refused and repeated.                               *)
THEOREM RepliesAreExact == Spec => []ReplyExact
<1>1. Init => Progress
  BY DEF Init, Progress, Active, Idle
<1>2. Spec => [](IInv /\ Progress)
  BY <1>1, NextFits, InvariantHolds, PTL DEF Spec
<1>3. QED
  BY <1>2, ExactByProgress, PTL
=============================================================================
