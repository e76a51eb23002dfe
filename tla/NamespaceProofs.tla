-------------------------- MODULE NamespaceProofs ---------------------------
(***************************************************************************)
(* Theorems about Namespace, for any requests, uuids, names, depth of the  *)
(* tree and number of inodes.  For any overlap and any failure: its types, *)
(* and that exclusive creates make their file.  For clients that use       *)
(* different files: that the database is called the way the theorems about *)
(* FHDB ask for; and, if its reads do not fail, that a handle stays with   *)
(* its file, dies with its name, and that the replies are true.            *)
(***************************************************************************)
EXTENDS Namespace, FileSystemProofs

Store == INSTANCE FHDBProofs WITH
            Renames <- TRUE, Overlap <- "disjoint", Faults <- Faults \ {"fs"}

-----------------------------------------------------------------------------
(* The handlers by what they hold.                                         *)

AllPaths == SeqOf(Names, MaxDepth + 1)

(* They wait for the path of the first, or of the second handle ...        *)
OnePcs == {"lookup_dir", "create_lookup_dir", "mkdir_lookup_dir",
           "rmdir_lookup_dir", "remove_lookup_dir", "symlink_lookup_dir"}
TwoPcs == {"rename_get_from_dir", "link_lookup_file"}
FirstPcs  == OnePcs \cup TwoPcs
SecondPcs == {"rename_get_to_dir", "link_lookup_dir"}
(* ... for an access to one path, or two ...                               *)
MidPcs == {"mount", "stat_dir", "stat_file", "create", "do_create_w",
           "do_create_wx", "mkdir_stat_dir", "mkdir", "rmdir_stat_dir",
           "rmdir", "remove_stat_dir", "remove", "symlink"}
PairPcs == {"rename", "link", "link_stat"}
(* ... for the handle of a path, or hold it ...                            *)
LookPcs == {"mount_lookup", "lookup", "create_lookup", "mkdir_lookup",
            "symlink_lookup"}
StatPcs == {"create_stat", "mkdir_stat_newdir", "symlink_stat"}
(* ... or wait for the end of a del, or of an mv ("rename_mv").            *)
DelOfPcs == {"rmdir_del", "remove_del"}

Resolving == FirstPcs \cup SecondPcs

(* What a request holds at its handler, and what its slot of the database  *)
(* does meanwhile.                                                         *)
Locals(r) ==
    /\ r.pc \in FirstPcs => r.h \in Handles /\ r.p = None
    /\ r.pc \notin FirstPcs => r.h = None /\ r.n = None
    /\ r.pc \in FirstPcs \ {"link_lookup_file"} => r.n \in Names
    /\ r.pc = "link_lookup_file" => r.n = None
    /\ r.pc \in TwoPcs \cup SecondPcs => r.h2 \in Handles /\ r.n2 \in Names
    /\ r.pc \notin TwoPcs \cup SecondPcs => r.h2 = None
    /\ r.pc \in SecondPcs \cup MidPcs \cup PairPcs => r.p \in AllPaths
    /\ r.pc \in LookPcs \cup StatPcs \cup DelOfPcs \cup {"rename_mv"} =>
            r.p \in Paths
    /\ r.pc = "idle" => r.p = None
    /\ r.pc \in PairPcs => r.q \in AllPaths
    /\ r.pc = "rename_mv" => r.q \in Paths
    /\ r.pc \notin PairPcs \cup {"rename_mv"} => r.q = None
    /\ r.pc \in StatPcs => r.obj \in Handles
    /\ r.pc \notin StatPcs => r.obj = None

Slot(r, s) ==
    /\ r.pc \in Resolving =>
            /\ s.pc \in {"fhandle_get", "done"}
            /\ s.pc = "fhandle_get" =>
                    s.p = None /\ s.h = IF r.pc \in FirstPcs THEN r.h ELSE r.h2
            /\ s.pc = "done" /\ s.ok => s.p \in Paths
            /\ s.q = None
    /\ r.pc \in LookPcs =>
            /\ s.pc \in {"lookup_get", "lookup_lstat", "lookup_write", "done"}
            /\ s.p = r.p /\ s.q = None
            /\ s.pc = "done" /\ s.ok => s.h \in Handles
    /\ r.pc \in DelOfPcs => /\ s.pc \in {"del_get", "del_write", "done"}
                            /\ s.p = r.p /\ s.q = None
    /\ r.pc = "rename_mv" => /\ s.pc \in Store!MvPcs \cup {"done"}
                             /\ s.p = r.p /\ s.q = r.q
    /\ r.pc \in {"idle"} \cup MidPcs \cup PairPcs \cup StatPcs => s.pc = "idle"

Slots == \A c \in Calls : Locals(rq[c]) /\ Slot(rq[c], call[c])

Saids  == [c : Calls, ok : BOOLEAN] \cup {None}
HistOK == /\ given \in [Handles -> [p : Paths, i : Inodes \cup {None}] \cup {None}]
          /\ displaced \subseteq Handles /\ dropped \subseteq Handles

NInv == TreeOK /\ Store!TypeOK /\ rq \in [Calls -> RqState] /\ said \in Saids
        /\ Slots /\ HistOK

-----------------------------------------------------------------------------
(* The two instances of FHDB differ in what their callers let overlap, not *)
(* in what their steps do.                                                 *)

LEMMA StoreAssumptions ==
    /\ None \notin Paths \cup Handles
    /\ TRUE \in BOOLEAN
    /\ "disjoint" \in {"any", "sources", "disjoint"}
    /\ Faults \ {"fs"} \subseteq Store!FaultKinds
<1>1. None \notin Paths
  BY PathsLong, FileSystemAssumption
<1>2. QED
  BY <1>1, NamespaceAssumption DEF Store!FaultKinds

LEMMA SameTypes == DB!TypeOK <=> Store!TypeOK
BY DEF DB!TypeOK, Store!TypeOK, DB!CallState, Store!CallState, DB!Pcs,
       Store!Pcs, DB!Busy, Store!Busy, DB!IsMv, Store!IsMv, DB!MvPcs,
       Store!MvPcs, DB!DelPcs, Store!DelPcs

LEMMA SameIdle == DB!Idle = Store!Idle
BY DEF DB!Idle, Store!Idle

(* The handlers' names.                                                    *)
LEMMA PcClasses ==
    /\ {"idle"} \cup DbPcs \cup FsPcs
        = {"idle", "rename_mv"} \cup Resolving \cup MidPcs \cup PairPcs \cup LookPcs
            \cup StatPcs \cup DelOfPcs
    /\ DbPcs = {"rename_mv"} \cup Resolving \cup LookPcs \cup DelOfPcs
BY DEF DbPcs, FsPcs, Resolving, FirstPcs, OnePcs, TwoPcs, SecondPcs, MidPcs,
       PairPcs, LookPcs, StatPcs, DelOfPcs

LEMMA Types == NInv => TypeOK
<1> SUFFICES ASSUME NInv PROVE TypeOK
  OBVIOUS
<1>1. ASSUME NEW c \in Calls
      PROVE  (call[c].pc # "idle") <=> (rq[c].pc \in DbPcs)
  <2>1. rq[c] \in RqState /\ Slot(rq[c], call[c])
    BY DEF NInv, Slots
  <2>2. rq[c].pc \in {"idle"} \cup DbPcs \cup FsPcs
    BY <2>1 DEF RqState
  <2>3. \/ rq[c].pc \in {"rename_mv"} \cup Resolving \cup LookPcs \cup DelOfPcs
        \/ rq[c].pc \in {"idle"} \cup MidPcs \cup PairPcs \cup StatPcs
    BY <2>2, PcClasses
  <2>4. ~(/\ rq[c].pc \in {"rename_mv"} \cup Resolving \cup LookPcs \cup DelOfPcs
          /\ rq[c].pc \in {"idle"} \cup MidPcs \cup PairPcs \cup StatPcs)
    BY DEF Resolving, FirstPcs, OnePcs, TwoPcs, SecondPcs, MidPcs,
           PairPcs, LookPcs, StatPcs, DelOfPcs
  <2>5. rq[c].pc \in {"idle"} \cup MidPcs \cup PairPcs \cup StatPcs => call[c].pc = "idle"
    BY <2>1 DEF Slot
  <2>6. rq[c].pc \in {"rename_mv"} \cup Resolving \cup LookPcs \cup DelOfPcs
            => call[c].pc # "idle"
    BY <2>1 DEF Slot, Store!MvPcs
  <2>7. QED
    BY <2>3, <2>4, <2>5, <2>6, PcClasses
<1>2. \A h \in Handles : given[h] # None => given[h].p \in Paths
  BY DEF NInv, HistOK
<1>3. QED
  BY <1>1, <1>2, SameTypes DEF NInv, TypeOK, TreeOK, HistOK, Saids

-----------------------------------------------------------------------------
(* What Locals and Slot come to at each kind of handler.                   *)

LEMMA AtIdle ==
    ASSUME NEW r, NEW s, r.pc = "idle"
    PROVE  Locals(r) /\ Slot(r, s) <=>
            /\ r.h = None /\ r.n = None /\ r.h2 = None /\ r.p = None
            /\ r.q = None /\ r.obj = None /\ s.pc = "idle"
BY DEF Locals, Slot, Resolving, FirstPcs, OnePcs, TwoPcs, SecondPcs, MidPcs,
       PairPcs, LookPcs, StatPcs, DelOfPcs

LEMMA AtMid ==
    ASSUME NEW r, NEW s, r.pc \in MidPcs
    PROVE  Locals(r) /\ Slot(r, s) <=>
            /\ r.h = None /\ r.n = None /\ r.h2 = None /\ r.q = None
            /\ r.obj = None /\ r.p \in AllPaths /\ s.pc = "idle"
BY DEF Locals, Slot, Resolving, FirstPcs, OnePcs, TwoPcs, SecondPcs, MidPcs,
       PairPcs, LookPcs, StatPcs, DelOfPcs

LEMMA AtPair ==
    ASSUME NEW r, NEW s, r.pc \in PairPcs
    PROVE  Locals(r) /\ Slot(r, s) <=>
            /\ r.h = None /\ r.n = None /\ r.h2 = None /\ r.obj = None
            /\ r.p \in AllPaths /\ r.q \in AllPaths /\ s.pc = "idle"
BY DEF Locals, Slot, Resolving, FirstPcs, OnePcs, TwoPcs, SecondPcs, MidPcs,
       PairPcs, LookPcs, StatPcs, DelOfPcs

LEMMA AtLook ==
    ASSUME NEW r, NEW s, r.pc \in LookPcs
    PROVE  Locals(r) /\ Slot(r, s) <=>
            /\ r.h = None /\ r.n = None /\ r.h2 = None /\ r.q = None
            /\ r.obj = None /\ r.p \in Paths
            /\ s.pc \in {"lookup_get", "lookup_lstat", "lookup_write", "done"}
            /\ s.p = r.p /\ s.q = None
            /\ s.pc = "done" /\ s.ok => s.h \in Handles
BY DEF Locals, Slot, Resolving, FirstPcs, OnePcs, TwoPcs, SecondPcs, MidPcs,
       PairPcs, LookPcs, StatPcs, DelOfPcs

LEMMA AtStat ==
    ASSUME NEW r, NEW s, r.pc \in StatPcs
    PROVE  Locals(r) /\ Slot(r, s) <=>
            /\ r.h = None /\ r.n = None /\ r.h2 = None /\ r.q = None
            /\ r.obj \in Handles /\ r.p \in Paths /\ s.pc = "idle"
BY DEF Locals, Slot, Resolving, FirstPcs, OnePcs, TwoPcs, SecondPcs, MidPcs,
       PairPcs, LookPcs, StatPcs, DelOfPcs

LEMMA AtDel ==
    ASSUME NEW r, NEW s, r.pc \in DelOfPcs
    PROVE  Locals(r) /\ Slot(r, s) <=>
            /\ r.h = None /\ r.n = None /\ r.h2 = None /\ r.q = None
            /\ r.obj = None /\ r.p \in Paths
            /\ s.pc \in {"del_get", "del_write", "done"} /\ s.p = r.p /\ s.q = None
BY DEF Locals, Slot, Resolving, FirstPcs, OnePcs, TwoPcs, SecondPcs, MidPcs,
       PairPcs, LookPcs, StatPcs, DelOfPcs

LEMMA AtMv ==
    ASSUME NEW r, NEW s, r.pc = "rename_mv"
    PROVE  Locals(r) /\ Slot(r, s) <=>
            /\ r.h = None /\ r.n = None /\ r.h2 = None /\ r.obj = None
            /\ r.p \in Paths /\ r.q \in Paths
            /\ s.pc \in Store!MvPcs \cup {"done"} /\ s.p = r.p /\ s.q = r.q
BY DEF Locals, Slot, Resolving, FirstPcs, OnePcs, TwoPcs, SecondPcs, MidPcs,
       PairPcs, LookPcs, StatPcs, DelOfPcs

LEMMA AtOne ==
    ASSUME NEW r, NEW s, r.pc \in OnePcs
    PROVE  Locals(r) /\ Slot(r, s) <=>
            /\ r.h \in Handles /\ r.n \in Names /\ r.h2 = None /\ r.p = None
            /\ r.q = None /\ r.obj = None
            /\ s.pc \in {"fhandle_get", "done"}
            /\ s.pc = "fhandle_get" => s.p = None /\ s.h = r.h
            /\ s.pc = "done" /\ s.ok => s.p \in Paths
            /\ s.q = None
BY DEF Locals, Slot, Resolving, FirstPcs, OnePcs, TwoPcs, SecondPcs, MidPcs,
       PairPcs, LookPcs, StatPcs, DelOfPcs

LEMMA AtTwo ==
    ASSUME NEW r, NEW s, r.pc \in TwoPcs
    PROVE  Locals(r) /\ Slot(r, s) <=>
            /\ r.h \in Handles /\ r.h2 \in Handles /\ r.n2 \in Names
            /\ IF r.pc = "link_lookup_file" THEN r.n = None ELSE r.n \in Names
            /\ r.p = None /\ r.q = None /\ r.obj = None
            /\ s.pc \in {"fhandle_get", "done"}
            /\ s.pc = "fhandle_get" => s.p = None /\ s.h = r.h
            /\ s.pc = "done" /\ s.ok => s.p \in Paths
            /\ s.q = None
BY DEF Locals, Slot, Resolving, FirstPcs, OnePcs, TwoPcs, SecondPcs, MidPcs,
       PairPcs, LookPcs, StatPcs, DelOfPcs

LEMMA AtSecond ==
    ASSUME NEW r, NEW s, r.pc \in SecondPcs
    PROVE  Locals(r) /\ Slot(r, s) <=>
            /\ r.h = None /\ r.n = None /\ r.h2 \in Handles /\ r.n2 \in Names
            /\ r.p \in AllPaths /\ r.q = None /\ r.obj = None
            /\ s.pc \in {"fhandle_get", "done"}
            /\ s.pc = "fhandle_get" => s.p = None /\ s.h = r.h2
            /\ s.pc = "done" /\ s.ok => s.p \in Paths
            /\ s.q = None
BY DEF Locals, Slot, Resolving, FirstPcs, OnePcs, TwoPcs, SecondPcs, MidPcs,
       PairPcs, LookPcs, StatPcs, DelOfPcs

-----------------------------------------------------------------------------
(* A step of one request keeps the types if it keeps those of what it      *)
(* changes.                                                                *)

LEMMA OneRequest ==
    ASSUME NInv, NEW c \in Calls, NEW r \in RqState, NEW s \in Store!CallState,
           rq' = [rq EXCEPT ![c] = r], call' = [call EXCEPT ![c] = s],
           Locals(r), Slot(r, s), Store!LocalOK(s),
           UNCHANGED <<fh, fn, issued, retired, torn>>,
           TreeOK', said' \in Saids, HistOK'
    PROVE  NInv'
<1>1. Store!TypeOK /\ call \in [Calls -> Store!CallState] /\ rq \in [Calls -> RqState]
  BY DEF NInv, Store!TypeOK
<1>2. /\ call' \in [Calls -> Store!CallState] /\ call'[c] = s
      /\ \A d \in Calls : d # c => call'[d] = call[d]
  BY <1>1
<1>3. Store!TypeOK'
  <2>1. /\ fh' \in [Paths -> Handles \cup {None}]
        /\ fn' \in [Handles -> Paths \cup {None}]
        /\ issued' \subseteq Handles /\ retired' \subseteq Handles
        /\ torn' \subseteq Handles
    BY <1>1 DEF Store!TypeOK
  <2>2. QED
    BY <1>1, <1>2, <2>1, StoreAssumptions, Store!TypeOneCall
<1>4. /\ rq' \in [Calls -> RqState] /\ rq'[c] = r
      /\ \A d \in Calls : d # c => rq'[d] = rq[d]
  BY <1>1
<1>5. ASSUME NEW d \in Calls
      PROVE  Locals(rq[d])' /\ Slot(rq[d], call[d])'
  <2>1. CASE d = c
    <3>1. rq'[d] = r /\ call'[d] = s
      BY <1>2, <1>4, <2>1
    <3>2. QED
      BY <3>1 DEF Locals, Slot
  <2>2. CASE d # c
    <3>1. rq'[d] = rq[d] /\ call'[d] = call[d]
      BY <1>2, <1>4, <2>2
    <3>2. Locals(rq[d]) /\ Slot(rq[d], call[d])
      BY DEF NInv, Slots
    <3>3. QED
      BY <3>1, <3>2 DEF Locals, Slot
  <2>3. QED
    BY <2>1, <2>2
<1>6. QED
  BY <1>3, <1>4, <1>5 DEF NInv, Slots

LEMMA RequestFacts ==
    ASSUME NInv, NEW c \in Calls
    PROVE  /\ rq[c] \in RqState /\ call[c] \in Store!CallState
           /\ Locals(rq[c]) /\ Slot(rq[c], call[c]) /\ Store!LocalOK(call[c])
           /\ call = [call EXCEPT ![c] = call[c]]
<1>1. Store!LocalOK(call[c])
  BY StoreAssumptions, Store!TypeSplit DEF NInv
<1>2. QED
  BY <1>1 DEF NInv, Slots, Store!TypeOK

LEMMA SameTree == NInv /\ UNCHANGED fsvars => TreeOK'
BY DEF NInv, fsvars, TreeOK, TreeTypeOK, Exists, Is

LEMMA SameHist == NInv /\ UNCHANGED hist => HistOK'
BY DEF NInv, hist, HistOK

LEMMA NoCall ==
    /\ Idle \in RqState /\ Locals(Idle)
    /\ Store!Idle \in Store!CallState /\ Store!LocalOK(Store!Idle)
    /\ \A s : s.pc = "idle" => Slot(Idle, s)
<1>1. Idle \in RqState /\ Idle.pc = "idle"
  BY DEF Idle, RqState
<1>2. Store!Idle \in Store!CallState /\ Store!LocalOK(Store!Idle)
  BY DEF Store!Idle, Store!CallState, Store!Pcs, Store!LocalOK, Store!IsMv,
         Store!MvPcs
<1>3. /\ Idle.h = None /\ Idle.n = None /\ Idle.h2 = None /\ Idle.p = None
      /\ Idle.q = None /\ Idle.obj = None
  BY DEF Idle
<1>4. QED
  BY <1>1, <1>2, <1>3, AtIdle DEF Store!Idle

LEMMA DbKept ==
    ASSUME NInv, NEW c \in Calls, NEW r \in RqState,
           rq' = [rq EXCEPT ![c] = r], UNCHANGED dbvars,
           Locals(r), Slot(r, call[c]),
           TreeOK', said' \in Saids, HistOK'
    PROVE  NInv'
<1>1. /\ call[c] \in Store!CallState /\ Store!LocalOK(call[c])
      /\ call' = [call EXCEPT ![c] = call[c]]
      /\ UNCHANGED <<fh, fn, issued, retired, torn>>
  BY RequestFacts DEF dbvars
<1>2. QED
  BY <1>1, OneRequest

(* A request that is answered while no call of its is under way, or when   *)
(* its call returns.                                                       *)
Replies(c) == Reply(c, TRUE) \/ Error(c)

LEMMA Answers ==
    ASSUME NInv, NEW c \in Calls, Replies(c),
           \/ UNCHANGED dbvars /\ call[c].pc = "idle"
           \/ DB!Return(c),
           TreeOK', HistOK'
    PROVE  NInv'
<1>1. rq' = [rq EXCEPT ![c] = Idle] /\ said' \in Saids
  <2>1. /\ [c |-> c, ok |-> TRUE] \in [c : Calls, ok : BOOLEAN]
        /\ [c |-> c, ok |-> FALSE] \in [c : Calls, ok : BOOLEAN]
    OBVIOUS
  <2>2. CASE Reply(c, TRUE)
    BY <2>1, <2>2 DEF Reply, Saids
  <2>3. CASE Error(c)
    BY <2>1, <2>3 DEF Error, Reply, Saids
  <2>4. QED
    BY <2>2, <2>3 DEF Replies
<1>2. Idle \in RqState /\ Locals(Idle)
  BY NoCall
<1>3. CASE UNCHANGED dbvars /\ call[c].pc = "idle"
  BY <1>1, <1>2, <1>3, NoCall, DbKept
<1>4. CASE DB!Return(c)
  <2>1. call' = [call EXCEPT ![c] = Store!Idle] /\ UNCHANGED <<fh, fn, issued, retired, torn>>
    BY <1>4, SameIdle DEF DB!Return
  <2>2. Slot(Idle, Store!Idle)
    BY NoCall DEF Store!Idle
  <2>3. QED
    BY <1>1, <1>2, <2>1, <2>2, NoCall, OneRequest
<1>5. QED
  BY <1>3, <1>4

-----------------------------------------------------------------------------
(* The handlers, by what they are made of.                                 *)

LEMMA RqStateOf ==
    ASSUME NEW r \in RqState
    PROVE  /\ r.p \in AllPaths \cup {None} /\ r.q \in AllPaths \cup {None}
           /\ \A pc \in {"idle"} \cup DbPcs \cup FsPcs : [r EXCEPT !.pc = pc] \in RqState
BY DEF RqState, AllPaths

LEMMA GotoMid ==
    ASSUME NInv, NEW c \in Calls, rq[c].pc \in MidPcs, NEW pc \in MidPcs,
           Goto(c, pc), UNCHANGED <<fsvars, dbvars, hist>>
    PROVE  NInv'
<1> DEFINE r == [rq[c] EXCEPT !.pc = pc]
<1>1. rq[c] \in RqState /\ Locals(rq[c]) /\ Slot(rq[c], call[c])
  BY RequestFacts
<1>2. pc \in {"idle"} \cup DbPcs \cup FsPcs
  BY PcClasses
<1>3. r \in RqState
  BY <1>1, <1>2, RqStateOf
<1>4. /\ r.pc = pc /\ r.h = rq[c].h /\ r.n = rq[c].n /\ r.h2 = rq[c].h2
      /\ r.p = rq[c].p /\ r.q = rq[c].q /\ r.obj = rq[c].obj
  BY <1>1 DEF RqState
<1>5. rq' = [rq EXCEPT ![c] = r] /\ said' \in Saids /\ UNCHANGED dbvars
  BY DEF Goto, Set, Saids
<1> HIDE DEF r
<1>6. Locals(r) /\ Slot(r, call[c])
  BY <1>1, <1>4, AtMid
<1>7. TreeOK' /\ HistOK'
  BY SameTree, SameHist
<1>8. QED
  BY <1>3, <1>5, <1>6, <1>7, DbKept

LEMMA Check_ ==
    ASSUME NInv, NEW c \in Calls, NEW at \in MidPcs, At(c, at), NEW pc \in MidPcs,
           Goto(c, pc) \/ Error(c), UNCHANGED <<fsvars, dbvars, hist>>
    PROVE  NInv'
<1>1. rq[c].pc \in MidPcs
  BY DEF At
<1>2. CASE Goto(c, pc)
  BY <1>1, <1>2, GotoMid
<1>3. CASE Error(c)
  <2>1. call[c].pc = "idle"
    BY <1>1, RequestFacts, AtMid
  <2>2. TreeOK' /\ HistOK'
    BY SameTree, SameHist
  <2>3. QED
    BY <1>3, <2>1, <2>2, Answers DEF Replies
<1>4. QED
  BY <1>2, <1>3

(* An access that fails. *)
LEMMA RefusedStep ==
    ASSUME NInv, NEW c \in Calls, rq[c].pc \in MidPcs \cup PairPcs \cup StatPcs,
           Replies(c), UNCHANGED <<fsvars, dbvars, hist>>
    PROVE  NInv'
<1>1. call[c].pc = "idle"
  BY RequestFacts, AtMid, AtPair, AtStat
<1>2. TreeOK' /\ HistOK'
  BY SameTree, SameHist
<1>3. QED
  BY <1>1, <1>2, Answers

(* The path of a handle and a name make a file name.                       *)
LEMMA ResolveDirStep ==
    ASSUME NInv, NEW c \in Calls, NEW at \in OnePcs, NEW pc \in MidPcs,
           ResolveDir(c, at, pc)
    PROVE  NInv'
<1>1. /\ rq[c] \in RqState /\ Locals(rq[c]) /\ Slot(rq[c], call[c])
      /\ rq[c].pc \in OnePcs /\ call[c].pc = "done" /\ DB!Return(c)
      /\ UNCHANGED <<fsvars, hist>>
  BY RequestFacts DEF ResolveDir, Called, At
<1>2. TreeOK' /\ HistOK'
  BY <1>1, SameTree, SameHist
<1>3. CASE call[c].ok
  <2> DEFINE r == [rq[c] EXCEPT !.pc = pc, !.h = None, !.n = None,
                                !.p = Append(call[c].p, rq[c].n)]
  <2>1. call[c].p \in Paths /\ rq[c].n \in Names
        /\ rq[c].h2 = None /\ rq[c].q = None /\ rq[c].obj = None
    BY <1>1, <1>3, AtOne
  <2>2. Append(call[c].p, rq[c].n) \in AllPaths
    BY <2>1, AppendLong DEF AllPaths
  <2>3. pc \in {"idle"} \cup DbPcs \cup FsPcs
    BY PcClasses
  <2>4. r \in RqState
    BY <1>1, <2>2, <2>3 DEF RqState, AllPaths
  <2>5. /\ r.pc = pc /\ r.h = None /\ r.n = None /\ r.h2 = None /\ r.q = None
        /\ r.obj = None /\ r.p \in AllPaths
    BY <1>1, <2>1, <2>2 DEF RqState
  <2>6. rq' = [rq EXCEPT ![c] = r] /\ said' \in Saids
    BY <1>3 DEF ResolveDir, Set, Saids
  <2>7. /\ call' = [call EXCEPT ![c] = Store!Idle]
        /\ UNCHANGED <<fh, fn, issued, retired, torn>>
    BY <1>1, SameIdle DEF DB!Return
  <2> HIDE DEF r
  <2>8. Locals(r) /\ Slot(r, Store!Idle)
    BY <2>5, AtMid DEF Store!Idle
  <2>9. QED
    BY <1>2, <2>4, <2>6, <2>7, <2>8, NoCall, OneRequest
<1>4. CASE ~call[c].ok
  <2>1. Error(c)
    BY <1>4 DEF ResolveDir
  <2>2. QED
    BY <1>1, <1>2, <2>1, Answers DEF Replies
<1>5. QED
  BY <1>3, <1>4

(* The handle of a name just made is held for the reply.                   *)
LEMMA TakeObjStep ==
    ASSUME NInv, NEW c \in Calls, NEW at \in LookPcs, NEW pc \in StatPcs,
           TakeObj(c, at, pc)
    PROVE  NInv'
<1>1. /\ rq[c] \in RqState /\ Locals(rq[c]) /\ Slot(rq[c], call[c])
      /\ rq[c].pc \in LookPcs /\ call[c].pc = "done" /\ DB!Return(c)
      /\ UNCHANGED <<fsvars, hist>>
  BY RequestFacts DEF TakeObj, Called, At
<1>2. TreeOK' /\ HistOK'
  BY <1>1, SameTree, SameHist
<1>3. CASE call[c].ok
  <2> DEFINE r == [rq[c] EXCEPT !.pc = pc, !.obj = call[c].h]
  <2>1. call[c].h \in Handles /\ rq[c].p \in Paths /\ rq[c].h = None
        /\ rq[c].n = None /\ rq[c].h2 = None /\ rq[c].q = None
    BY <1>1, <1>3, AtLook
  <2>3. pc \in {"idle"} \cup DbPcs \cup FsPcs
    BY PcClasses
  <2>4. r \in RqState
    BY <1>1, <2>1, <2>3 DEF RqState
  <2>5. /\ r.pc = pc /\ r.h = None /\ r.n = None /\ r.h2 = None /\ r.q = None
        /\ r.obj \in Handles /\ r.p \in Paths
    BY <1>1, <2>1 DEF RqState
  <2>6. rq' = [rq EXCEPT ![c] = r] /\ said' \in Saids
    BY <1>3 DEF TakeObj, Set, Saids
  <2>7. /\ call' = [call EXCEPT ![c] = Store!Idle]
        /\ UNCHANGED <<fh, fn, issued, retired, torn>>
    BY <1>1, SameIdle DEF DB!Return
  <2> HIDE DEF r
  <2>8. Locals(r) /\ Slot(r, Store!Idle)
    BY <2>5, AtStat DEF Store!Idle
  <2>9. QED
    BY <1>2, <2>4, <2>6, <2>7, <2>8, NoCall, OneRequest
<1>4. CASE ~call[c].ok
  <2>1. Error(c)
    BY <1>4 DEF TakeObj
  <2>2. QED
    BY <1>1, <1>2, <2>1, Answers DEF Replies
<1>5. QED
  BY <1>3, <1>4

(* A handle is replied.                                                    *)
LEMMA Gives ==
    ASSUME NInv, NEW h \in Handles, NEW p \in Paths, Give(h, p),
           UNCHANGED <<displaced, dropped>>
    PROVE  HistOK'
<1>1. tree[p] \in Inodes \cup {None}
  BY DEF NInv, TreeOK, TreeTypeOK
<1>2. [p |-> p, i |-> tree[p]] \in [p : Paths, i : Inodes \cup {None}]
  BY <1>1
<1>3. given' \in [Handles -> [p : Paths, i : Inodes \cup {None}] \cup {None}]
  BY <1>2 DEF NInv, HistOK, Give
<1>4. QED
  BY <1>3 DEF NInv, HistOK

LEMMA SendObjStep ==
    ASSUME NInv, NEW c \in Calls, rq[c].pc \in StatPcs,
           \/ ReplyWith(c, rq[c].obj, rq[c].p)
           \/ Error(c) /\ UNCHANGED hist,
           UNCHANGED <<fsvars, dbvars>>
    PROVE  NInv'
<1>1. call[c].pc = "idle" /\ rq[c].obj \in Handles /\ rq[c].p \in Paths
  BY RequestFacts, AtStat
<1>2. TreeOK' /\ HistOK' /\ Replies(c)
  BY <1>1, SameTree, SameHist, Gives DEF ReplyWith, Replies
<1>3. QED
  BY <1>1, <1>2, Answers

LEMMA SendFoundStep ==
    ASSUME NInv, NEW c \in Calls, NEW at \in LookPcs, SendFound(c, at)
    PROVE  NInv'
<1>1. /\ rq[c].pc \in LookPcs /\ call[c].pc = "done" /\ DB!Return(c)
      /\ UNCHANGED fsvars
  BY DEF SendFound, Called, At
<1>2. (call[c].ok => call[c].h \in Handles) /\ rq[c].p \in Paths
  BY <1>1, RequestFacts, AtLook
<1>3. TreeOK' /\ HistOK' /\ Replies(c)
  BY <1>1, <1>2, SameTree, SameHist, Gives DEF SendFound, ReplyWith, Replies
<1>4. QED
  BY <1>1, <1>3, Answers

(* A name is made, or found; its handle is looked up next.                 *)
LEMMA ThenLookupStep ==
    ASSUME NInv, NEW c \in Calls, rq[c].pc \in MidPcs, rq[c].p \in Paths,
           NEW pc \in LookPcs, ThenLookup(c, pc), TreeOK', UNCHANGED hist
    PROVE  NInv'
<1> DEFINE r == [rq[c] EXCEPT !.pc = pc]
           s == [Store!Idle EXCEPT !.pc = "lookup_get", !.p = rq[c].p]
<1>1. rq[c] \in RqState /\ Locals(rq[c]) /\ Slot(rq[c], call[c])
  BY RequestFacts
<1>2. pc \in {"idle"} \cup DbPcs \cup FsPcs
  BY PcClasses
<1>3. r \in RqState
  BY <1>1, <1>2, RqStateOf
<1>4. /\ r.pc = pc /\ r.h = rq[c].h /\ r.n = rq[c].n /\ r.h2 = rq[c].h2
      /\ r.p = rq[c].p /\ r.q = rq[c].q /\ r.obj = rq[c].obj
  BY <1>1 DEF RqState
<1>5. rq' = [rq EXCEPT ![c] = r] /\ said' \in Saids
  BY DEF ThenLookup, Goto, Set, Saids
<1>6. /\ call' = [call EXCEPT ![c] = s]
      /\ UNCHANGED <<fh, fn, issued, retired, torn>>
  BY SameIdle DEF ThenLookup, DB!StartLookup, DB!Begin
<1>7. s \in Store!CallState /\ Store!LocalOK(s) /\ s.pc = "lookup_get" /\ s.p = rq[c].p
      /\ s.q = None
  BY DEF Store!Idle, Store!CallState, Store!Pcs, Store!LocalOK, Store!IsMv,
         Store!MvPcs
<1> HIDE DEF r, s
<1>8. Locals(r) /\ Slot(r, s)
  BY <1>1, <1>4, <1>7, AtMid, AtLook
<1>9. HistOK'
  BY SameHist
<1>10. QED
  BY <1>3, <1>5, <1>6, <1>7, <1>8, <1>9, OneRequest

LEMMA Displaces ==
    ASSUME NInv
    PROVE  /\ \A p \in Paths : HandlesNaming(p) \subseteq Handles
           /\ \A p \in Paths : HandlesBelow(p) \subseteq Handles
           /\ \A p \in Paths : HandlesOf(p) \subseteq Handles
<1>1. \A p \in Paths : fh[p] \in Handles \cup {None}
  BY DEF NInv, Store!TypeOK
<1>2. QED
  BY <1>1 DEF HandlesNaming, HandlesBelow, HandlesOf

(* A name is taken away; its handle is deleted next.                       *)
LEMMA ThenDelStep ==
    ASSUME NInv, NEW c \in Calls, rq[c].pc \in MidPcs, rq[c].p \in Paths,
           NEW pc \in DelOfPcs, ThenDel(c, pc), TreeOK'
    PROVE  NInv'
<1> DEFINE r == [rq[c] EXCEPT !.pc = pc]
           s == [Store!Idle EXCEPT !.pc = "del_get", !.p = rq[c].p]
<1>1. rq[c] \in RqState /\ Locals(rq[c]) /\ Slot(rq[c], call[c])
  BY RequestFacts
<1>2. pc \in {"idle"} \cup DbPcs \cup FsPcs
  BY PcClasses
<1>3. r \in RqState
  BY <1>1, <1>2, RqStateOf
<1>4. /\ r.pc = pc /\ r.h = rq[c].h /\ r.n = rq[c].n /\ r.h2 = rq[c].h2
      /\ r.p = rq[c].p /\ r.q = rq[c].q /\ r.obj = rq[c].obj
  BY <1>1 DEF RqState
<1>5. rq' = [rq EXCEPT ![c] = r] /\ said' \in Saids
  BY DEF ThenDel, Goto, Set, Saids
<1>6. /\ call' = [call EXCEPT ![c] = s]
      /\ UNCHANGED <<fh, fn, issued, retired, torn>>
  BY SameIdle DEF ThenDel, DB!StartDel, DB!Begin
<1>7. s \in Store!CallState /\ Store!LocalOK(s) /\ s.pc = "del_get" /\ s.p = rq[c].p
      /\ s.q = None
  BY DEF Store!Idle, Store!CallState, Store!Pcs, Store!LocalOK, Store!IsMv,
         Store!MvPcs, Store!DelPcs
<1> HIDE DEF r, s
<1>8. Locals(r) /\ Slot(r, s)
  BY <1>1, <1>4, <1>7, AtMid, AtDel
<1>9. HistOK'
  BY Displaces DEF ThenDel, NInv, HistOK
<1>10. QED
  BY <1>3, <1>5, <1>6, <1>7, <1>8, <1>9, OneRequest

(* The tree is renamed; the entry is moved next.                           *)
LEMMA RenameStep ==
    ASSUME NInv, NEW c \in Calls, rename(c)
    PROVE  NInv'
<1> DEFINE p == rq[c].p
           q == rq[c].q
<1>1. rq[c] \in RqState /\ Locals(rq[c]) /\ Slot(rq[c], call[c])
      /\ rq[c].pc \in PairPcs
  BY RequestFacts DEF rename, At, PairPcs
<1>2. CASE Refused(c, RenameOk(p, q))
  BY <1>1, <1>2, RefusedStep DEF Refused, Replies
<1>3. CASE /\ RenameOk(p, q) /\ Rename(p, q)
           /\ Goto(c, "rename_mv") /\ DB!StartMv(c, p, q)
           /\ displaced' = displaced \cup HandlesNaming(q) \cup HandlesBelow(p)
           /\ UNCHANGED <<given, dropped>>
  <2> DEFINE r == [rq[c] EXCEPT !.pc = "rename_mv"]
             s == [Store!Idle EXCEPT !.pc = "mv_get", !.p = p, !.q = q]
  <2>1. TreeOK' /\ p \in Paths /\ q \in Paths
    BY <1>3, TreeRename DEF NInv
  <2>2. "rename_mv" \in {"idle"} \cup DbPcs \cup FsPcs
    BY PcClasses
  <2>3. r \in RqState
    BY <1>1, <2>2, RqStateOf
  <2>4. /\ r.pc = "rename_mv" /\ r.h = rq[c].h /\ r.n = rq[c].n /\ r.h2 = rq[c].h2
        /\ r.p = rq[c].p /\ r.q = rq[c].q /\ r.obj = rq[c].obj
    BY <1>1 DEF RqState
  <2>5. rq' = [rq EXCEPT ![c] = r] /\ said' \in Saids
    BY <1>3 DEF Goto, Set, Saids
  <2>6. /\ call' = [call EXCEPT ![c] = s]
        /\ UNCHANGED <<fh, fn, issued, retired, torn>>
    BY <1>3, SameIdle DEF DB!StartMv, DB!Begin
  <2>7. /\ s \in Store!CallState /\ Store!LocalOK(s) /\ s.pc \in Store!MvPcs
        /\ s.p = p /\ s.q = q
    BY <2>1 DEF Store!Idle, Store!CallState, Store!Pcs, Store!LocalOK,
                Store!IsMv, Store!MvPcs, Store!DelPcs
  <2> HIDE DEF r, s
  <2>8. Locals(r) /\ Slot(r, s)
    BY <1>1, <2>1, <2>4, <2>7, AtPair, AtMv
  <2>9. HistOK'
    BY <1>3, <2>1, Displaces DEF NInv, HistOK
  <2>10. QED
    BY <2>1, <2>3, <2>5, <2>6, <2>7, <2>8, <2>9, OneRequest
<1>4. QED
  BY <1>2, <1>3 DEF rename

LEMMA FinishStep ==
    ASSUME NInv, NEW c \in Calls, NEW at \in DelOfPcs \cup {"rename_mv"}, Finish(c, at)
    PROVE  NInv'
<1>1. /\ rq[c].pc \in DelOfPcs \cup {"rename_mv"} /\ DB!Return(c)
      /\ UNCHANGED fsvars /\ Replies(c)
  BY DEF Finish, Called, At, Replies
<1>2. rq[c].p \in Paths
  BY <1>1, RequestFacts, AtDel, AtMv
<1>3. HistOK'
  BY <1>2, Displaces DEF Finish, NInv, HistOK, hist
<1>4. QED
  BY <1>1, <1>3, SameTree, Answers

(* The second handle is resolved once the first one is.                    *)
LEMMA FirstOfTwo ==
    ASSUME NInv, NEW c \in Calls, rq[c].pc \in TwoPcs, NEW pc \in SecondPcs,
           NEW p \in AllPaths,
           Set(c, [rq[c] EXCEPT !.pc = pc, !.h = None, !.n = None, !.p = p]),
           DB!StartFhandle(c, rq[c].h2), UNCHANGED <<fsvars, hist>>
    PROVE  NInv'
<1> DEFINE r == [rq[c] EXCEPT !.pc = pc, !.h = None, !.n = None, !.p = p]
           s == [Store!Idle EXCEPT !.pc = "fhandle_get", !.h = rq[c].h2]
<1>1. /\ rq[c] \in RqState /\ rq[c].h2 \in Handles /\ rq[c].n2 \in Names
      /\ rq[c].q = None /\ rq[c].obj = None
  BY RequestFacts, AtTwo
<1>2. pc \in {"idle"} \cup DbPcs \cup FsPcs
  BY PcClasses DEF Resolving
<1>3. r \in RqState
  BY <1>1, <1>2 DEF RqState, AllPaths
<1>4. /\ r.pc = pc /\ r.h = None /\ r.n = None /\ r.h2 = rq[c].h2
      /\ r.n2 = rq[c].n2 /\ r.p = p /\ r.q = None /\ r.obj = None
  BY <1>1 DEF RqState
<1>5. rq' = [rq EXCEPT ![c] = r] /\ said' \in Saids
  BY DEF Set, Saids
<1>6. /\ call' = [call EXCEPT ![c] = s]
      /\ UNCHANGED <<fh, fn, issued, retired, torn>>
  BY SameIdle DEF DB!StartFhandle, DB!Begin
<1>7. s \in Store!CallState /\ Store!LocalOK(s) /\ s.pc = "fhandle_get" /\ s.h = rq[c].h2
      /\ s.p = None /\ s.q = None
  BY <1>1 DEF Store!Idle, Store!CallState, Store!Pcs, Store!LocalOK,
              Store!IsMv, Store!MvPcs
<1> HIDE DEF r, s
<1>8. Locals(r) /\ Slot(r, s)
  BY <1>1, <1>4, <1>7, AtSecond
<1>9. TreeOK' /\ HistOK'
  BY SameTree, SameHist
<1>10. QED
  BY <1>3, <1>5, <1>6, <1>7, <1>8, <1>9, OneRequest

LEMMA SecondOfTwo ==
    ASSUME NInv, NEW c \in Calls, rq[c].pc \in SecondPcs, NEW pc \in PairPcs,
           call[c].pc = "done", call[c].ok,
           Set(c, [rq[c] EXCEPT !.pc = pc, !.h2 = None, !.n2 = None,
                                !.q = Append(call[c].p, rq[c].n2)]),
           DB!Return(c), UNCHANGED <<fsvars, hist>>
    PROVE  NInv'
<1> DEFINE q == Append(call[c].p, rq[c].n2)
           r == [rq[c] EXCEPT !.pc = pc, !.h2 = None, !.n2 = None, !.q = q]
<1>1. /\ rq[c] \in RqState /\ call[c].p \in Paths /\ rq[c].n2 \in Names
      /\ rq[c].h = None /\ rq[c].n = None /\ rq[c].p \in AllPaths
      /\ rq[c].obj = None
  BY RequestFacts, AtSecond
<1>2. pc \in {"idle"} \cup DbPcs \cup FsPcs
  BY PcClasses
<1>3. q \in AllPaths
  BY <1>1, AppendLong DEF AllPaths
<1>4. rq' = [rq EXCEPT ![c] = r] /\ said' \in Saids
  BY DEF Set, Saids
<1> HIDE DEF q
<1>5. r \in RqState
  BY <1>1, <1>2, <1>3 DEF RqState, AllPaths
<1>6. /\ r.pc = pc /\ r.h = None /\ r.n = None /\ r.h2 = None
      /\ r.p = rq[c].p /\ r.q = q /\ r.obj = None
  BY <1>1 DEF RqState
<1>7. /\ call' = [call EXCEPT ![c] = Store!Idle]
      /\ UNCHANGED <<fh, fn, issued, retired, torn>>
  BY SameIdle DEF DB!Return
<1> HIDE DEF r
<1>8. Locals(r) /\ Slot(r, Store!Idle)
  BY <1>1, <1>3, <1>6, AtPair DEF Store!Idle
<1>9. TreeOK' /\ HistOK'
  BY SameTree, SameHist
<1>10. QED
  BY <1>4, <1>5, <1>7, <1>8, <1>9, NoCall, OneRequest

LEMMA RenameFromStep ==
    ASSUME NInv, NEW c \in Calls, rename_get_from_dir(c)
    PROVE  NInv'
<1>1. /\ rq[c].pc = "rename_get_from_dir" /\ call[c].pc = "done"
      /\ UNCHANGED <<fsvars, hist>>
  BY DEF rename_get_from_dir, Called, At
<1>2. rq[c].pc \in TwoPcs
  BY <1>1 DEF TwoPcs
<1>3. CASE call[c].ok
  <2>1. call[c].p \in Paths /\ rq[c].n \in Names
    BY <1>1, <1>2, <1>3, RequestFacts, AtTwo
  <2>2. Append(call[c].p, rq[c].n) \in AllPaths
    BY <2>1, AppendLong DEF AllPaths
  <2>3. /\ Set(c, [rq[c] EXCEPT !.pc = "rename_get_to_dir", !.h = None,
                               !.n = None, !.p = Append(call[c].p, rq[c].n)])
        /\ DB!StartFhandle(c, rq[c].h2)
    BY <1>3 DEF rename_get_from_dir
  <2>4. "rename_get_to_dir" \in SecondPcs
    BY DEF SecondPcs
  <2>5. QED
    BY <1>1, <1>2, <2>2, <2>3, <2>4, FirstOfTwo
<1>4. CASE ~call[c].ok
  <2>1. Error(c) /\ DB!Return(c)
    BY <1>4 DEF rename_get_from_dir
  <2>2. QED
    BY <1>1, <2>1, SameTree, SameHist, Answers DEF Replies
<1>5. QED
  BY <1>3, <1>4

LEMMA LinkFileStep ==
    ASSUME NInv, NEW c \in Calls, link_lookup_file(c)
    PROVE  NInv'
<1>1. /\ rq[c].pc = "link_lookup_file" /\ call[c].pc = "done"
      /\ UNCHANGED <<fsvars, hist>> /\ rq[c] \in RqState
  BY RequestFacts DEF link_lookup_file, Called, At
<1>2. rq[c].pc \in TwoPcs
  BY <1>1 DEF TwoPcs
<1>3. CASE call[c].ok
  <2>1. call[c].p \in Paths /\ rq[c].n = None
    BY <1>1, <1>2, <1>3, RequestFacts, AtTwo
  <2>2. call[c].p \in AllPaths
    BY <2>1, PathsLong DEF AllPaths
  <2>3. /\ Set(c, [rq[c] EXCEPT !.pc = "link_lookup_dir", !.h = None,
                               !.p = call[c].p])
        /\ DB!StartFhandle(c, rq[c].h2)
    BY <1>3 DEF link_lookup_file
  <2>4. "link_lookup_dir" \in SecondPcs
    BY DEF SecondPcs
  <2>5. [rq[c] EXCEPT !.pc = "link_lookup_dir", !.h = None, !.p = call[c].p]
         = [rq[c] EXCEPT !.pc = "link_lookup_dir", !.h = None, !.n = None,
                         !.p = call[c].p]
    BY <1>1, <2>1 DEF RqState
  <2>6. Set(c, [rq[c] EXCEPT !.pc = "link_lookup_dir", !.h = None, !.n = None,
                             !.p = call[c].p])
    BY <2>3, <2>5
  <2>7. QED
    BY <1>1, <1>2, <2>2, <2>3, <2>4, <2>6, FirstOfTwo
<1>4. CASE ~call[c].ok
  <2>1. Error(c) /\ DB!Return(c)
    BY <1>4 DEF link_lookup_file
  <2>2. QED
    BY <1>1, <2>1, SameTree, SameHist, Answers DEF Replies
<1>5. QED
  BY <1>3, <1>4

LEMMA RenameToStep ==
    ASSUME NInv, NEW c \in Calls, rename_get_to_dir(c)
    PROVE  NInv'
<1>1. /\ rq[c].pc = "rename_get_to_dir" /\ call[c].pc = "done" /\ DB!Return(c)
      /\ UNCHANGED <<fsvars, hist>>
  BY DEF rename_get_to_dir, Called, At
<1>2. rq[c].pc \in SecondPcs /\ "rename" \in PairPcs
  BY <1>1 DEF SecondPcs, PairPcs
<1>3. CASE call[c].ok
  BY <1>1, <1>2, <1>3, SecondOfTwo DEF rename_get_to_dir
<1>4. CASE ~call[c].ok
  BY <1>1, <1>4, SameTree, SameHist, Answers DEF rename_get_to_dir, Replies
<1>5. QED
  BY <1>3, <1>4

LEMMA LinkDirStep ==
    ASSUME NInv, NEW c \in Calls, link_lookup_dir(c)
    PROVE  NInv'
<1>1. /\ rq[c].pc = "link_lookup_dir" /\ call[c].pc = "done" /\ DB!Return(c)
      /\ UNCHANGED <<fsvars, hist>>
  BY DEF link_lookup_dir, Called, At
<1>2. rq[c].pc \in SecondPcs /\ "link" \in PairPcs
  BY <1>1 DEF SecondPcs, PairPcs
<1>3. CASE call[c].ok
  BY <1>1, <1>2, <1>3, SecondOfTwo DEF link_lookup_dir
<1>4. CASE ~call[c].ok
  BY <1>1, <1>4, SameTree, SameHist, Answers DEF link_lookup_dir, Replies
<1>5. QED
  BY <1>3, <1>4

LEMMA LinkStep ==
    ASSUME NInv, NEW c \in Calls, link(c)
    PROVE  NInv'
<1> DEFINE p == rq[c].p
           q == rq[c].q
<1>1. rq[c] \in RqState /\ Locals(rq[c]) /\ Slot(rq[c], call[c])
      /\ rq[c].pc \in PairPcs
  BY RequestFacts DEF link, At, PairPcs
<1>2. CASE Refused(c, LinkOk(p, q))
  BY <1>1, <1>2, RefusedStep DEF Refused, Replies
<1>3. CASE /\ LinkOk(p, q) /\ Link(p, q)
           /\ Goto(c, "link_stat") /\ UNCHANGED <<dbvars, hist>>
  <2> DEFINE r == [rq[c] EXCEPT !.pc = "link_stat"]
  <2>1. TreeOK' /\ HistOK'
    BY <1>3, TreeLink, SameHist DEF NInv
  <2>2. "link_stat" \in {"idle"} \cup DbPcs \cup FsPcs /\ "link_stat" \in PairPcs
    BY PcClasses DEF PairPcs
  <2>3. r \in RqState
    BY <1>1, <2>2, RqStateOf
  <2>4. /\ r.pc = "link_stat" /\ r.h = rq[c].h /\ r.n = rq[c].n /\ r.h2 = rq[c].h2
        /\ r.p = rq[c].p /\ r.q = rq[c].q /\ r.obj = rq[c].obj
    BY <1>1 DEF RqState
  <2>5. rq' = [rq EXCEPT ![c] = r] /\ said' \in Saids
    BY <1>3 DEF Goto, Set, Saids
  <2> HIDE DEF r
  <2>6. Locals(r) /\ Slot(r, call[c])
    BY <1>1, <2>2, <2>4, AtPair
  <2>7. QED
    BY <1>3, <2>1, <2>3, <2>5, <2>6, DbKept
<1>4. QED
  BY <1>2, <1>3 DEF link

LEMMA LinkStatStep ==
    ASSUME NInv, NEW c \in Calls, link_stat(c)
    PROVE  NInv'
<1>1. rq[c].pc \in PairPcs /\ Replies(c) /\ UNCHANGED <<fsvars, dbvars, hist>>
  BY DEF link_stat, At, PairPcs, Replies
<1>2. QED
  BY <1>1, RefusedStep

-----------------------------------------------------------------------------
(* Every handler.                                                          *)

LEMMA RefusedMid ==
    ASSUME NInv, NEW c \in Calls, rq[c].pc \in MidPcs, Error(c),
           UNCHANGED <<fsvars, dbvars, hist>>
    PROVE  NInv'
BY RefusedStep DEF Replies

LEMMA Handled ==
    ASSUME NInv, NEW c \in Calls, Handler(c)
    PROVE  NInv'
<1> DEFINE p == rq[c].p
<1>1. CASE mount(c)
  <2>1. rq[c].pc \in MidPcs /\ "mount_lookup" \in LookPcs
    BY <1>1 DEF mount, At, MidPcs, LookPcs
  <2>2. CASE Refused(c, StatOk(p))
    BY <2>1, <2>2, RefusedMid DEF Refused
  <2>3. CASE StatOk(p) /\ ThenLookup(c, "mount_lookup") /\ UNCHANGED <<fsvars, hist>>
    BY <2>1, <2>3, SameTree, ThenLookupStep DEF StatOk, Exists
  <2>4. QED
    BY <1>1, <2>2, <2>3 DEF mount
<1>2. CASE mount_lookup(c) \/ lookup(c)
  <2>1. "mount_lookup" \in LookPcs /\ "lookup" \in LookPcs
    BY DEF LookPcs
  <2>2. QED
    BY <1>2, <2>1, SendFoundStep DEF mount_lookup, lookup
<1>3. CASE \/ lookup_dir(c) \/ create_lookup_dir(c) \/ mkdir_lookup_dir(c)
           \/ symlink_lookup_dir(c) \/ rmdir_lookup_dir(c) \/ remove_lookup_dir(c)
  <2>1. /\ "lookup_dir" \in OnePcs /\ "create_lookup_dir" \in OnePcs
        /\ "mkdir_lookup_dir" \in OnePcs /\ "symlink_lookup_dir" \in OnePcs
        /\ "rmdir_lookup_dir" \in OnePcs /\ "remove_lookup_dir" \in OnePcs
    BY DEF OnePcs
  <2>2. /\ "stat_dir" \in MidPcs /\ "do_create_w" \in MidPcs /\ "create" \in MidPcs
        /\ "mkdir_stat_dir" \in MidPcs /\ "symlink" \in MidPcs
        /\ "rmdir_stat_dir" \in MidPcs /\ "remove_stat_dir" \in MidPcs
    BY DEF MidPcs
  <2>3. (IF rq[c].how = "UNCHECKED" THEN "do_create_w" ELSE "create") \in MidPcs
    BY <2>2
  <2>4. CASE create_lookup_dir(c)
    BY <2>1, <2>3, <2>4, ResolveDirStep DEF create_lookup_dir
  <2>5. QED
    BY <1>3, <2>1, <2>2, <2>4, ResolveDirStep
       DEF lookup_dir, mkdir_lookup_dir, symlink_lookup_dir, rmdir_lookup_dir,
           remove_lookup_dir
<1>4. CASE \/ stat_dir(c) \/ create(c) \/ mkdir_stat_dir(c) \/ rmdir_stat_dir(c)
           \/ remove_stat_dir(c)
  <2>1. /\ "stat_dir" \in MidPcs /\ "stat_file" \in MidPcs /\ "create" \in MidPcs
        /\ "do_create_w" \in MidPcs /\ "do_create_wx" \in MidPcs
        /\ "mkdir_stat_dir" \in MidPcs /\ "mkdir" \in MidPcs
        /\ "rmdir_stat_dir" \in MidPcs /\ "rmdir" \in MidPcs
        /\ "remove_stat_dir" \in MidPcs /\ "remove" \in MidPcs
    BY DEF MidPcs
  <2>2. (IF rq[c].how = "EXCLUSIVE" THEN "do_create_wx" ELSE "do_create_w") \in MidPcs
    BY <2>1
  <2>3. \E at \in MidPcs, pc \in MidPcs :
            At(c, at) /\ (Goto(c, pc) \/ Error(c)) /\ UNCHANGED <<fsvars, dbvars, hist>>
    BY <1>4, <2>1, <2>2
       DEF stat_dir, create, mkdir_stat_dir, rmdir_stat_dir, remove_stat_dir, Check
  <2>4. QED
    BY <2>3, Check_
<1>5. CASE stat_file(c)
  <2>1. rq[c].pc \in MidPcs /\ "lookup" \in LookPcs
    BY <1>5 DEF stat_file, At, MidPcs, LookPcs
  <2>2. CASE Refused(c, Exists(p))
    BY <2>1, <2>2, RefusedMid DEF Refused
  <2>3. CASE Exists(p) /\ ThenLookup(c, "lookup") /\ UNCHANGED <<fsvars, hist>>
    BY <2>1, <2>3, SameTree, ThenLookupStep DEF Exists
  <2>4. QED
    BY <1>5, <2>2, <2>3 DEF stat_file
<1>6. CASE do_create(c)
  <2>1. rq[c].pc \in MidPcs /\ "create_lookup" \in LookPcs /\ "file" \in Kinds
    BY <1>6 DEF do_create, At, MidPcs, LookPcs, Kinds
  <2>2. CASE Refused(c, OpenWOk(p)) \/ Refused(c, MakeOk(p))
    BY <2>1, <2>2, RefusedMid DEF Refused
  <2>3. CASE /\ OpenWOk(p) /\ OpenW(p) /\ ThenLookup(c, "create_lookup")
             /\ UNCHANGED hist
    BY <2>1, <2>3, TreeOpenW, ThenLookupStep DEF NInv
  <2>4. CASE /\ MakeOk(p) /\ Make(p, "file") /\ ThenLookup(c, "create_lookup")
             /\ UNCHANGED hist
    BY <2>1, <2>4, TreeMake, ThenLookupStep DEF NInv
  <2>5. QED
    BY <1>6, <2>2, <2>3, <2>4 DEF do_create
<1>7. CASE mkdir(c)
  <2>1. rq[c].pc \in MidPcs /\ "mkdir_lookup" \in LookPcs /\ "dir" \in Kinds
    BY <1>7 DEF mkdir, At, MidPcs, LookPcs, Kinds
  <2>2. CASE Refused(c, MakeOk(p))
    BY <2>1, <2>2, RefusedMid DEF Refused
  <2>3. CASE /\ MakeOk(p) /\ Make(p, "dir") /\ ThenLookup(c, "mkdir_lookup")
             /\ UNCHANGED hist
    BY <2>1, <2>3, TreeMake, ThenLookupStep DEF NInv
  <2>4. QED
    BY <1>7, <2>2, <2>3 DEF mkdir
<1>8. CASE symlink(c)
  <2>1. rq[c].pc \in MidPcs /\ "symlink_lookup" \in LookPcs /\ "symlink" \in Kinds
    BY <1>8 DEF symlink, At, MidPcs, LookPcs, Kinds
  <2>2. CASE Refused(c, MakeOk(p))
    BY <2>1, <2>2, RefusedMid DEF Refused
  <2>3. CASE /\ MakeOk(p) /\ Make(p, "symlink") /\ ThenLookup(c, "symlink_lookup")
             /\ UNCHANGED hist
    BY <2>1, <2>3, TreeMake, ThenLookupStep DEF NInv
  <2>4. QED
    BY <1>8, <2>2, <2>3 DEF symlink
<1>9. CASE create_lookup(c) \/ mkdir_lookup(c) \/ symlink_lookup(c)
  <2>1. /\ "create_lookup" \in LookPcs /\ "mkdir_lookup" \in LookPcs
        /\ "symlink_lookup" \in LookPcs /\ "create_stat" \in StatPcs
        /\ "mkdir_stat_newdir" \in StatPcs /\ "symlink_stat" \in StatPcs
    BY DEF LookPcs, StatPcs
  <2>2. QED
    BY <1>9, <2>1, TakeObjStep DEF create_lookup, mkdir_lookup, symlink_lookup
<1>10. CASE create_stat(c) \/ mkdir_stat_newdir(c) \/ symlink_stat(c)
  <2>1. rq[c].pc \in StatPcs
    BY <1>10 DEF create_stat, mkdir_stat_newdir, symlink_stat, SendObj, At, StatPcs
  <2>2. /\ \/ ReplyWith(c, rq[c].obj, rq[c].p)
           \/ Error(c) /\ UNCHANGED hist
        /\ UNCHANGED <<fsvars, dbvars>>
    BY <1>10 DEF create_stat, mkdir_stat_newdir, symlink_stat, SendObj
  <2>3. QED
    BY <2>1, <2>2, SendObjStep
<1>11. CASE rmdir(c)
  <2>1. rq[c].pc \in MidPcs /\ "rmdir_del" \in DelOfPcs
    BY <1>11 DEF rmdir, At, MidPcs, DelOfPcs
  <2>2. CASE Refused(c, RmdirOk(p) \/ Missing(p))
    BY <2>1, <2>2, RefusedMid DEF Refused
  <2>3. CASE RmdirOk(p) /\ Drop(p) /\ ThenDel(c, "rmdir_del")
    BY <2>1, <2>3, TreeDrop, ThenDelStep DEF NInv
  <2>4. CASE Missing(p) /\ UNCHANGED fsvars /\ ThenDel(c, "rmdir_del")
    BY <2>1, <2>4, SameTree, ThenDelStep DEF Missing
  <2>5. QED
    BY <1>11, <2>2, <2>3, <2>4 DEF rmdir
<1>12. CASE remove(c)
  <2>1. rq[c].pc \in MidPcs /\ "remove_del" \in DelOfPcs
    BY <1>12 DEF remove, At, MidPcs, DelOfPcs
  <2>2. CASE Refused(c, UnlinkOk(p))
    BY <2>1, <2>2, RefusedMid DEF Refused
  <2>3. CASE UnlinkOk(p) /\ Drop(p) /\ ThenDel(c, "remove_del")
    BY <2>1, <2>3, TreeDrop, ThenDelStep DEF NInv
  <2>4. QED
    BY <1>12, <2>2, <2>3 DEF remove
<1>13. CASE rmdir_del(c) \/ remove_del(c) \/ rename_mv(c)
  <2>1. "rmdir_del" \in DelOfPcs /\ "remove_del" \in DelOfPcs
    BY DEF DelOfPcs
  <2>2. QED
    BY <1>13, <2>1, FinishStep DEF rmdir_del, remove_del, rename_mv
<1>14. QED
  BY <1>1, <1>2, <1>3, <1>4, <1>5, <1>6, <1>7, <1>8, <1>9, <1>10, <1>11, <1>12,
     <1>13, RenameFromStep, RenameToStep, RenameStep, LinkFileStep, LinkDirStep,
     LinkStep, LinkStatStep
     DEF Handler

-----------------------------------------------------------------------------
(* The accesses of the database calls.                                     *)

DbAccess(c) ==
    \/ DB!FhandleGet(c) \/ DB!LookupGet(c) \/ DB!LookupWrite(c)
    \/ DB!MvGet(c) \/ DB!MvWrite(c) \/ DB!MvCleanup(c)
    \/ DB!DelGet(c) \/ DB!DelWrite(c)
    \/ \E found \in BOOLEAN : DB!LookupLstat(c, found)

LEMMA AccessIs ==
    ASSUME NEW c \in Calls, Access(c)
    PROVE  DbAccess(c) /\ said' = None /\ UNCHANGED <<fsvars, rq, hist>>
<1>1. TRUE \in BOOLEAN /\ FALSE \in BOOLEAN
  OBVIOUS
<1>2. QED
  BY <1>1 DEF Access, DbAccess

LEMMA SameAccess == ASSUME NEW c \in Calls, DbAccess(c) PROVE Store!Step(c)
<1> USE DEF DB!GetOk, Store!GetOk, DB!GetErr, Store!GetErr, DB!Answer,
            Store!Answer, DB!Fail, Store!Fail, DB!GoOn, Store!GoOn, DB!PutBoth,
            Store!PutBoth, DB!DelBoth, Store!DelBoth, DB!Fresh, Store!Fresh,
            DB!db, Store!db
<1>1. DB!FhandleGet(c) => Store!FhandleGet(c)
  BY DEF DB!FhandleGet, Store!FhandleGet
<1>2. DB!LookupGet(c) => Store!LookupGet(c)
  BY DEF DB!LookupGet, Store!LookupGet
<1>3. \A found \in BOOLEAN : DB!LookupLstat(c, found) => Store!LookupLstat(c, found)
  BY DEF DB!LookupLstat, Store!LookupLstat
<1>4. DB!LookupWrite(c) => Store!LookupWrite(c)
  BY DEF DB!LookupWrite, Store!LookupWrite
<1>5. DB!MvGet(c) => Store!MvGet(c)
  BY DEF DB!MvGet, Store!MvGet
<1>6. DB!MvWrite(c) => Store!MvWrite(c)
  BY DEF DB!MvWrite, Store!MvWrite
<1>7. DB!MvCleanup(c) => Store!MvCleanup(c)
  BY DEF DB!MvCleanup, Store!MvCleanup
<1>8. DB!DelGet(c) => Store!DelGet(c)
  BY DEF DB!DelGet, Store!DelGet
<1>9. DB!DelWrite(c) => Store!DelWrite(c)
  BY DEF DB!DelWrite, Store!DelWrite
<1>10. QED
  BY <1>1, <1>2, <1>3, <1>4, <1>5, <1>6, <1>7, <1>8, <1>9 DEF DbAccess, Store!Step

(* What an access does to the locals of its call.                          *)
InLookup == {"lookup_get", "lookup_lstat", "lookup_write"}
Moves(r, s) ==
    /\ s.q = r.q
    /\ r.pc = "fhandle_get" => s.pc = "done" /\ (s.ok => s.p \in Paths)
    /\ r.pc \in InLookup =>
            /\ s.pc \in {"lookup_lstat", "lookup_write", "done"}
            /\ s.p = r.p
            /\ s.pc = "done" /\ s.ok => s.h \in Handles
    /\ r.pc \in Store!DelPcs => s.pc \in {"del_write", "done"} /\ s.p = r.p
    /\ r.pc \in Store!MvPcs => s.pc \in Store!MvPcs \cup {"done"} /\ s.p = r.p

LEMMA AnswerMoves ==
    ASSUME NInv, NEW c \in Calls, NEW p, NEW h, DB!Answer(c, p, h)
    PROVE  /\ call'[c].pc = "done" /\ call'[c].ok /\ call'[c].p = p
           /\ call'[c].h = h /\ call'[c].q = call[c].q
           /\ \A d \in Calls : d # c => call'[d] = call[d]
<1>1. call \in [Calls -> Store!CallState]
  BY DEF NInv, Store!TypeOK
<1>2. QED
  BY <1>1 DEF DB!Answer, Store!CallState

LEMMA FailMoves ==
    ASSUME NInv, NEW c \in Calls, DB!Fail(c)
    PROVE  /\ call'[c].pc = "done" /\ ~call'[c].ok /\ call'[c].p = call[c].p
           /\ call'[c].h = call[c].h /\ call'[c].q = call[c].q
           /\ \A d \in Calls : d # c => call'[d] = call[d]
<1>1. call \in [Calls -> Store!CallState]
  BY DEF NInv, Store!TypeOK
<1>2. QED
  BY <1>1 DEF DB!Fail, Store!CallState

LEMMA GoOnMoves ==
    ASSUME NInv, NEW c \in Calls, NEW pc, NEW h, DB!GoOn(c, pc, h)
    PROVE  /\ call'[c].pc = pc /\ call'[c].p = call[c].p
           /\ call'[c].h = h /\ call'[c].q = call[c].q
           /\ \A d \in Calls : d # c => call'[d] = call[d]
<1>1. call \in [Calls -> Store!CallState]
  BY DEF NInv, Store!TypeOK
<1>2. QED
  BY <1>1 DEF DB!GoOn, Store!CallState

LEMMA AccessMoves ==
    ASSUME NInv, NEW c \in Calls, DbAccess(c)
    PROVE  /\ Moves(call[c], call'[c])
           /\ call[c].pc \in {"fhandle_get"} \cup InLookup \cup Store!DelPcs
                                \cup Store!MvPcs
           /\ \A d \in Calls : d # c => call'[d] = call[d]
<1> USE DEF Moves, InLookup, Store!DelPcs, Store!MvPcs
<1>1. CASE DB!FhandleGet(c)
  <2>1. CASE DB!GetOk(fn[call[c].h]) /\ DB!Answer(c, fn[call[c].h], call[c].h)
    <3>1. fn[call[c].h] \in Paths
      <4>1. call[c].h \in Handles
        BY <1>1 DEF NInv, Store!TypeOK, DB!FhandleGet
      <4>2. QED
        BY <2>1, <4>1 DEF NInv, Store!TypeOK, DB!GetOk
    <3>2. QED
      BY <1>1, <2>1, <3>1, AnswerMoves DEF DB!FhandleGet
  <2>2. CASE DB!Fail(c)
    BY <1>1, <2>2, FailMoves DEF DB!FhandleGet
  <2>3. QED
    BY <1>1, <2>1, <2>2 DEF DB!FhandleGet
<1>2. CASE DB!LookupGet(c)
  <2>1. CASE DB!GetOk(fh[call[c].p]) /\ DB!Answer(c, call[c].p, fh[call[c].p])
    <3>1. fh[call[c].p] \in Handles
      <4>1. call[c].p \in Paths
        BY <1>2 DEF NInv, Store!TypeOK, DB!LookupGet, Store!Busy
      <4>2. QED
        BY <2>1, <4>1 DEF NInv, Store!TypeOK, DB!GetOk
    <3>2. QED
      BY <1>2, <2>1, <3>1, AnswerMoves DEF DB!LookupGet
  <2>2. CASE DB!GoOn(c, "lookup_lstat", None)
    BY <1>2, <2>2, GoOnMoves DEF DB!LookupGet
  <2>3. QED
    BY <1>2, <2>1, <2>2 DEF DB!LookupGet
<1>3. ASSUME NEW found \in BOOLEAN, DB!LookupLstat(c, found)
      PROVE  /\ Moves(call[c], call'[c]) /\ call[c].pc = "lookup_lstat"
             /\ \A d \in Calls : d # c => call'[d] = call[d]
  <2>1. ASSUME NEW h \in Handles, DB!GoOn(c, "lookup_write", h)
        PROVE  /\ Moves(call[c], call'[c]) /\ call[c].pc = "lookup_lstat"
               /\ \A d \in Calls : d # c => call'[d] = call[d]
    BY <1>3, <2>1, GoOnMoves DEF DB!LookupLstat
  <2>2. CASE DB!Fail(c)
    BY <1>3, <2>2, FailMoves DEF DB!LookupLstat
  <2>3. QED
    BY <1>3, <2>1, <2>2 DEF DB!LookupLstat
<1>4. CASE DB!LookupWrite(c)
  <2>1. CASE DB!Answer(c, call[c].p, call[c].h)
    <3>1. call[c].h \in Handles
      BY <1>4 DEF NInv, Store!TypeOK, DB!LookupWrite
    <3>2. QED
      BY <1>4, <2>1, <3>1, AnswerMoves DEF DB!LookupWrite
  <2>2. CASE DB!Fail(c)
    BY <1>4, <2>2, FailMoves DEF DB!LookupWrite
  <2>3. QED
    BY <1>4, <2>1, <2>2 DEF DB!LookupWrite
<1>5. CASE DB!MvGet(c)
  <2>1. CASE DB!GoOn(c, "mv_write", fh[call[c].p])
    BY <1>5, <2>1, GoOnMoves DEF DB!MvGet
  <2>2. ASSUME NEW h \in Handles, DB!GoOn(c, "mv_write_new", h)
        PROVE  /\ Moves(call[c], call'[c]) /\ call[c].pc = "mv_get"
               /\ \A d \in Calls : d # c => call'[d] = call[d]
    BY <1>5, <2>2, GoOnMoves DEF DB!MvGet
  <2>3. QED
    BY <1>5, <2>1, <2>2 DEF DB!MvGet
<1>6. CASE DB!MvWrite(c)
  <2>1. CASE DB!GoOn(c, "mv_cleanup", call[c].h)
    BY <1>6, <2>1, GoOnMoves DEF DB!MvWrite
  <2>2. CASE DB!Answer(c, call[c].p, call[c].h)
    BY <1>6, <2>2, AnswerMoves DEF DB!MvWrite
  <2>3. CASE DB!Fail(c)
    BY <1>6, <2>3, FailMoves DEF DB!MvWrite
  <2>4. QED
    BY <1>6, <2>1, <2>2, <2>3 DEF DB!MvWrite
<1>7. CASE DB!MvCleanup(c)
  BY <1>7, AnswerMoves, FailMoves DEF DB!MvCleanup
<1>8. CASE DB!DelGet(c)
  BY <1>8, GoOnMoves, FailMoves DEF DB!DelGet
<1>9. CASE DB!DelWrite(c)
  BY <1>9, AnswerMoves, FailMoves DEF DB!DelWrite
<1>10. QED
  BY <1>1, <1>2, <1>3, <1>4, <1>5, <1>6, <1>7, <1>8, <1>9 DEF DbAccess

LEMMA MoveKeepsSlot ==
    ASSUME NEW r \in RqState, NEW s, NEW t, Slot(r, s), Moves(s, t),
           s.pc \in {"fhandle_get"} \cup InLookup \cup Store!DelPcs \cup Store!MvPcs
    PROVE  Slot(r, t)
<1>1. r.pc \in {"idle", "rename_mv"} \cup Resolving \cup MidPcs \cup PairPcs \cup LookPcs
                \cup StatPcs \cup DelOfPcs
  BY PcClasses DEF RqState
<1> USE DEF InLookup, Store!DelPcs, Store!MvPcs
<1>2. s.pc # "idle" /\ s.pc # "done"
  OBVIOUS
<1>3. CASE r.pc \in Resolving
  <2>1. t.pc = "done" /\ (t.ok => t.p \in Paths) /\ t.q = None
    BY <1>2, <1>3 DEF Slot, Moves
  <2>2. r.pc \notin LookPcs \cup DelOfPcs \cup {"rename_mv", "idle"} \cup MidPcs
                    \cup PairPcs \cup StatPcs
    BY <1>3 DEF Resolving, FirstPcs, OnePcs, TwoPcs, SecondPcs, MidPcs, PairPcs,
                LookPcs, StatPcs, DelOfPcs
  <2>3. QED
    BY <2>1, <2>2 DEF Slot
<1>4. CASE r.pc \in LookPcs
  <2>1. /\ t.pc \in {"lookup_lstat", "lookup_write", "done"} /\ t.p = r.p /\ t.q = None
        /\ t.pc = "done" /\ t.ok => t.h \in Handles
    BY <1>2, <1>4 DEF Slot, Moves
  <2>2. r.pc \notin Resolving \cup DelOfPcs \cup {"rename_mv", "idle"} \cup MidPcs
                    \cup PairPcs \cup StatPcs
    BY <1>4 DEF Resolving, FirstPcs, OnePcs, TwoPcs, SecondPcs, MidPcs, PairPcs,
                LookPcs, StatPcs, DelOfPcs
  <2>3. QED
    BY <2>1, <2>2 DEF Slot
<1>5. CASE r.pc \in DelOfPcs
  <2>1. t.pc \in {"del_write", "done"} /\ t.p = r.p /\ t.q = None
    BY <1>2, <1>5 DEF Slot, Moves
  <2>2. r.pc \notin Resolving \cup LookPcs \cup {"rename_mv", "idle"} \cup MidPcs
                    \cup PairPcs \cup StatPcs
    BY <1>5 DEF Resolving, FirstPcs, OnePcs, TwoPcs, SecondPcs, MidPcs, PairPcs,
                LookPcs, StatPcs, DelOfPcs
  <2>3. QED
    BY <2>1, <2>2 DEF Slot
<1>6. CASE r.pc = "rename_mv"
  <2>1. t.pc \in Store!MvPcs \cup {"done"} /\ t.p = r.p /\ t.q = r.q
    BY <1>2, <1>6 DEF Slot, Moves
  <2>2. r.pc \notin Resolving \cup LookPcs \cup DelOfPcs \cup {"idle"} \cup MidPcs
                    \cup PairPcs \cup StatPcs
    BY <1>6 DEF Resolving, FirstPcs, OnePcs, TwoPcs, SecondPcs, MidPcs, PairPcs,
                LookPcs, StatPcs, DelOfPcs
  <2>3. QED
    BY <2>1, <2>2 DEF Slot
<1>7. CASE r.pc \in {"idle"} \cup MidPcs \cup PairPcs \cup StatPcs
  BY <1>2, <1>7 DEF Slot
<1>8. QED
  BY <1>1, <1>3, <1>4, <1>5, <1>6, <1>7

LEMMA AccessKeeps ==
    ASSUME NInv, NEW c \in Calls, Access(c)
    PROVE  NInv'
<1>1. DbAccess(c) /\ said' = None /\ UNCHANGED <<fsvars, rq, hist>>
  BY AccessIs
<1>2. Store!TypeOK'
  BY <1>1, SameAccess, StoreAssumptions, Store!TypeStep DEF NInv
<1>3. /\ Slot(rq[c], call'[c])
      /\ \A d \in Calls : d # c => call'[d] = call[d]
  BY <1>1, AccessMoves, RequestFacts, MoveKeepsSlot
<1>4. ASSUME NEW d \in Calls
      PROVE  Locals(rq[d])' /\ Slot(rq[d], call[d])'
  <2>1. Locals(rq[d]) /\ Slot(rq[d], call'[d])
    BY <1>3 DEF NInv, Slots
  <2>2. rq' = rq
    BY <1>1
  <2>3. QED
    BY <2>1, <2>2 DEF Locals, Slot
<1>5. TreeOK' /\ HistOK' /\ said' \in Saids /\ rq' \in [Calls -> RqState]
  BY <1>1, SameTree, SameHist DEF NInv, Saids
<1>6. QED
  BY <1>2, <1>4, <1>5 DEF NInv, Slots

-----------------------------------------------------------------------------
(* Requests, restarts.                                                     *)

(* A request begins with a handle the client was given.                    *)
LEMMA Begins ==
    ASSUME NInv, NEW c \in Calls, NEW r \in RqState, r.pc \in FirstPcs,
           Locals(r), Set(c, r), DB!StartFhandle(c, r.h), UNCHANGED <<fsvars, hist>>
    PROVE  NInv'
<1> DEFINE s == [Store!Idle EXCEPT !.pc = "fhandle_get", !.h = r.h]
<1>1. r.h \in Handles
  BY DEF Locals
<1>2. rq' = [rq EXCEPT ![c] = r] /\ said' \in Saids
  BY DEF Set, Saids
<1>3. /\ call' = [call EXCEPT ![c] = s]
      /\ UNCHANGED <<fh, fn, issued, retired, torn>>
  BY SameIdle DEF DB!StartFhandle, DB!Begin
<1>4. s \in Store!CallState /\ Store!LocalOK(s) /\ s.pc = "fhandle_get" /\ s.h = r.h
      /\ s.p = None /\ s.q = None
  BY <1>1 DEF Store!Idle, Store!CallState, Store!Pcs, Store!LocalOK,
              Store!IsMv, Store!MvPcs
<1> HIDE DEF s
<1>5. Slot(r, s)
  <2>1. r.pc \notin LookPcs \cup DelOfPcs \cup {"rename_mv", "idle"} \cup MidPcs
                    \cup PairPcs \cup StatPcs
    BY DEF FirstPcs, OnePcs, TwoPcs, SecondPcs, MidPcs, PairPcs, LookPcs, StatPcs,
           DelOfPcs
  <2>2. QED
    BY <1>4, <2>1 DEF Slot
<1>6. TreeOK' /\ HistOK'
  BY SameTree, SameHist
<1>7. QED
  BY <1>2, <1>3, <1>4, <1>5, <1>6, OneRequest

(* A request on one handle: its locals are as its procedure sets them.     *)
LEMMA BeginsOn ==
    ASSUME NInv, NEW c \in Calls, NEW proc, NEW h \in Handles, NEW r \in RqState,
           r.h = h, r.pc \in FirstPcs, Locals(r), Begin(c, proc, r), DB!StartFhandle(c, h)
    PROVE  NInv'
BY Begins DEF Begin

LEMMA MntBegins ==
    ASSUME NInv, NEW c \in Calls, MNT(c)
    PROVE  NInv'
<1> DEFINE r == [Idle EXCEPT !.pc = "mount", !.p = Root]
<1>1. rq' = [rq EXCEPT ![c] = r] /\ said' \in Saids /\ UNCHANGED <<fsvars, hist>>
      /\ UNCHANGED dbvars /\ ~Active(c)
  BY DEF MNT, Begin, Set, Saids
<1>2. Root \in AllPaths
  BY RootPath, PathsLong DEF AllPaths
<1>3. "mount" \in {"idle"} \cup DbPcs \cup FsPcs /\ "mount" \in MidPcs
  BY PcClasses DEF MidPcs
<1>4. r \in RqState
  BY <1>2, <1>3 DEF Idle, RqState, AllPaths
<1>5. /\ r.pc = "mount" /\ r.h = None /\ r.n = None /\ r.h2 = None
      /\ r.p \in AllPaths /\ r.q = None /\ r.obj = None
  BY <1>2 DEF Idle
<1>6. call[c].pc = "idle"
  BY <1>1, RequestFacts, AtIdle DEF Active
<1> HIDE DEF r
<1>7. Locals(r) /\ Slot(r, call[c])
  BY <1>3, <1>5, <1>6, AtMid
<1>8. QED
  BY <1>1, <1>4, <1>7, SameTree, SameHist, DbKept

(* Every request but MNT begins with a handle that the client was given.   *)
Begun(c, r) == /\ r \in RqState /\ r.pc \in FirstPcs /\ Locals(r)
               /\ r.how = "EXCLUSIVE" => r.pc = "create_lookup_dir"
               /\ r.h \in Known /\ (r.pc \in TwoPcs => r.h2 \in Known)
               /\ \E proc : Begin(c, proc, r)
               /\ DB!StartFhandle(c, r.h)

LEMMA OneBegun ==
    ASSUME NEW c \in Calls, NEW i \in RqState, NEW h \in Known, NEW proc,
           i.pc \in OnePcs, i.n \in Names, i.h2 = None, i.p = None, i.q = None,
           i.obj = None, i.how = "EXCLUSIVE" => i.pc = "create_lookup_dir",
           BeginOn(c, proc, h, i)
    PROVE  \E r : Begun(c, r)
<1> DEFINE r == [i EXCEPT !.h = h]
<1>1. Begin(c, proc, r) /\ DB!StartFhandle(c, h) /\ h \in Handles
  BY DEF BeginOn, Known
<1>2. /\ r \in RqState /\ r.pc = i.pc /\ r.h = h /\ r.n = i.n /\ r.h2 = i.h2
      /\ r.p = i.p /\ r.q = i.q /\ r.obj = i.obj /\ r.how = i.how
  BY <1>1 DEF RqState
<1> HIDE DEF r
<1>3. Locals(r) /\ Slot(r, [pc |-> "done", ok |-> FALSE, p |-> None, q |-> None])
  BY <1>1, <1>2, AtOne
<1>4. r.pc \in FirstPcs /\ r.pc \notin TwoPcs
  BY <1>2 DEF FirstPcs, OnePcs, TwoPcs
<1>5. Begun(c, r)
  BY <1>1, <1>2, <1>3, <1>4 DEF Begun
<1>6. QED
  BY <1>5

LEMMA TwoBegun ==
    ASSUME NEW c \in Calls, NEW i \in RqState, NEW h \in Known, NEW proc,
           i.pc \in TwoPcs, i.h2 \in Known, i.n2 \in Names,
           IF i.pc = "link_lookup_file" THEN i.n = None ELSE i.n \in Names,
           i.p = None, i.q = None, i.obj = None, i.how = None,
           BeginOn(c, proc, h, i)
    PROVE  \E r : Begun(c, r)
<1> DEFINE r == [i EXCEPT !.h = h]
<1>1. Begin(c, proc, r) /\ DB!StartFhandle(c, h) /\ h \in Handles /\ i.h2 \in Handles
  BY DEF BeginOn, Known
<1>2. /\ r \in RqState /\ r.pc = i.pc /\ r.h = h /\ r.n = i.n /\ r.h2 = i.h2
      /\ r.n2 = i.n2 /\ r.p = i.p /\ r.q = i.q /\ r.obj = i.obj /\ r.how = i.how
  BY <1>1 DEF RqState
<1> HIDE DEF r
<1>3. Locals(r) /\ Slot(r, [pc |-> "done", ok |-> FALSE, p |-> None, q |-> None])
  BY <1>1, <1>2, AtTwo
<1>4. r.pc \in FirstPcs
  BY <1>2 DEF FirstPcs
<1>5. Begun(c, r)
  BY <1>1, <1>2, <1>3, <1>4, NamespaceAssumption DEF Begun
<1>6. QED
  BY <1>5

LEMMA RequestIs ==
    ASSUME NEW c \in Calls, Request(c)
    PROVE  MNT(c) \/ \E r : Begun(c, r)
<1> SUFFICES ASSUME ~MNT(c) PROVE \E r : Begun(c, r)
  OBVIOUS
<1>1. PICK h \in Known, n \in Names :
        \/ LOOKUP(c, h, n)
        \/ \E how \in Hows : CREATE(c, h, n, how)
        \/ MKDIR(c, h, n)
        \/ RMDIR(c, h, n)
        \/ REMOVE(c, h, n)
        \/ SYMLINK(c, h, n)
        \/ \E h2 \in Known : LINK(c, h, h2, n)
        \/ \E h2 \in Known, n2 \in Names : RENAME(c, h, n, h2, n2)
  BY DEF Request
<1>2. None \notin {"EXCLUSIVE", "UNCHECKED", "GUARDED"}
  BY NamespaceAssumption
<1>3. CASE LOOKUP(c, h, n)
  <2> DEFINE i == [Idle EXCEPT !.pc = "lookup_dir", !.n = n]
  <2>1. "lookup_dir" \in OnePcs /\ "lookup_dir" \in {"idle"} \cup DbPcs \cup FsPcs
    BY DEF OnePcs, DbPcs
  <2>2. /\ i \in RqState /\ i.pc \in OnePcs /\ i.n \in Names /\ i.h2 = None
        /\ i.p = None /\ i.q = None /\ i.obj = None
        /\ i.how = "EXCLUSIVE" => i.pc = "create_lookup_dir"
    BY <1>2, <2>1 DEF Idle, RqState
  <2>3. BeginOn(c, "LOOKUP", h, i)
    BY <1>3 DEF LOOKUP
  <2> HIDE DEF i
  <2>4. QED
    BY <2>2, <2>3, OneBegun
<1>4. ASSUME NEW how \in Hows, CREATE(c, h, n, how)
      PROVE  \E r : Begun(c, r)
  <2> DEFINE i == [Idle EXCEPT !.pc = "create_lookup_dir", !.n = n, !.how = how]
  <2>1. "create_lookup_dir" \in OnePcs /\ "create_lookup_dir" \in {"idle"} \cup DbPcs \cup FsPcs
    BY DEF OnePcs, DbPcs
  <2>2. /\ i \in RqState /\ i.pc \in OnePcs /\ i.n \in Names /\ i.h2 = None
        /\ i.p = None /\ i.q = None /\ i.obj = None
        /\ i.how = "EXCLUSIVE" => i.pc = "create_lookup_dir"
    BY <1>2, <2>1, NamespaceAssumption DEF Idle, RqState
  <2>3. BeginOn(c, "CREATE", h, i)
    BY <1>4 DEF CREATE
  <2> HIDE DEF i
  <2>4. QED
    BY <2>2, <2>3, OneBegun
<1>5. CASE MKDIR(c, h, n)
  <2> DEFINE i == [Idle EXCEPT !.pc = "mkdir_lookup_dir", !.n = n]
  <2>1. "mkdir_lookup_dir" \in OnePcs /\ "mkdir_lookup_dir" \in {"idle"} \cup DbPcs \cup FsPcs
    BY DEF OnePcs, DbPcs
  <2>2. /\ i \in RqState /\ i.pc \in OnePcs /\ i.n \in Names /\ i.h2 = None
        /\ i.p = None /\ i.q = None /\ i.obj = None
        /\ i.how = "EXCLUSIVE" => i.pc = "create_lookup_dir"
    BY <1>2, <2>1 DEF Idle, RqState
  <2>3. BeginOn(c, "MKDIR", h, i)
    BY <1>5 DEF MKDIR
  <2> HIDE DEF i
  <2>4. QED
    BY <2>2, <2>3, OneBegun
<1>6. CASE RMDIR(c, h, n)
  <2> DEFINE i == [Idle EXCEPT !.pc = "rmdir_lookup_dir", !.n = n]
  <2>1. "rmdir_lookup_dir" \in OnePcs /\ "rmdir_lookup_dir" \in {"idle"} \cup DbPcs \cup FsPcs
    BY DEF OnePcs, DbPcs
  <2>2. /\ i \in RqState /\ i.pc \in OnePcs /\ i.n \in Names /\ i.h2 = None
        /\ i.p = None /\ i.q = None /\ i.obj = None
        /\ i.how = "EXCLUSIVE" => i.pc = "create_lookup_dir"
    BY <1>2, <2>1 DEF Idle, RqState
  <2>3. BeginOn(c, "RMDIR", h, i)
    BY <1>6 DEF RMDIR
  <2> HIDE DEF i
  <2>4. QED
    BY <2>2, <2>3, OneBegun
<1>7. CASE REMOVE(c, h, n)
  <2> DEFINE i == [Idle EXCEPT !.pc = "remove_lookup_dir", !.n = n]
  <2>1. "remove_lookup_dir" \in OnePcs /\ "remove_lookup_dir" \in {"idle"} \cup DbPcs \cup FsPcs
    BY DEF OnePcs, DbPcs
  <2>2. /\ i \in RqState /\ i.pc \in OnePcs /\ i.n \in Names /\ i.h2 = None
        /\ i.p = None /\ i.q = None /\ i.obj = None
        /\ i.how = "EXCLUSIVE" => i.pc = "create_lookup_dir"
    BY <1>2, <2>1 DEF Idle, RqState
  <2>3. BeginOn(c, "REMOVE", h, i)
    BY <1>7 DEF REMOVE
  <2> HIDE DEF i
  <2>4. QED
    BY <2>2, <2>3, OneBegun
<1>8. CASE SYMLINK(c, h, n)
  <2> DEFINE i == [Idle EXCEPT !.pc = "symlink_lookup_dir", !.n = n]
  <2>1. "symlink_lookup_dir" \in OnePcs /\ "symlink_lookup_dir" \in {"idle"} \cup DbPcs \cup FsPcs
    BY DEF OnePcs, DbPcs
  <2>2. /\ i \in RqState /\ i.pc \in OnePcs /\ i.n \in Names /\ i.h2 = None
        /\ i.p = None /\ i.q = None /\ i.obj = None
        /\ i.how = "EXCLUSIVE" => i.pc = "create_lookup_dir"
    BY <1>2, <2>1 DEF Idle, RqState
  <2>3. BeginOn(c, "SYMLINK", h, i)
    BY <1>8 DEF SYMLINK
  <2> HIDE DEF i
  <2>4. QED
    BY <2>2, <2>3, OneBegun
<1>9. ASSUME NEW h2 \in Known, LINK(c, h, h2, n)
      PROVE  \E r : Begun(c, r)
  <2> DEFINE i == [Idle EXCEPT !.pc = "link_lookup_file", !.h2 = h2, !.n2 = n]
  <2>1. "link_lookup_file" \in TwoPcs /\ "link_lookup_file" \in {"idle"} \cup DbPcs \cup FsPcs
    BY DEF TwoPcs, DbPcs
  <2>2. /\ i \in RqState /\ i.pc \in TwoPcs /\ i.n2 \in Names /\ i.h2 = h2
        /\ IF i.pc = "link_lookup_file" THEN i.n = None ELSE i.n \in Names
        /\ i.p = None /\ i.q = None /\ i.obj = None /\ i.how = None
    BY <1>2, <2>1 DEF Idle, RqState, Known
  <2>3. BeginOn(c, "LINK", h, i)
    BY <1>9 DEF LINK
  <2> HIDE DEF i
  <2>4. QED
    BY <2>2, <2>3, TwoBegun
<1>10. ASSUME NEW h2 \in Known, NEW n2 \in Names, RENAME(c, h, n, h2, n2)
      PROVE  \E r : Begun(c, r)
  <2> DEFINE i == [Idle EXCEPT !.pc = "rename_get_from_dir", !.n = n, !.h2 = h2, !.n2 = n2]
  <2>1. "rename_get_from_dir" \in TwoPcs /\ "rename_get_from_dir" \in {"idle"} \cup DbPcs \cup FsPcs
    BY DEF TwoPcs, DbPcs
  <2>2. /\ i \in RqState /\ i.pc \in TwoPcs /\ i.n2 \in Names /\ i.h2 = h2
        /\ IF i.pc = "link_lookup_file" THEN i.n = None ELSE i.n \in Names
        /\ i.p = None /\ i.q = None /\ i.obj = None /\ i.how = None
    BY <1>2, <2>1 DEF Idle, RqState, Known
  <2>3. BeginOn(c, "RENAME", h, i)
    BY <1>10 DEF RENAME
  <2> HIDE DEF i
  <2>4. QED
    BY <2>2, <2>3, TwoBegun
<1>11. QED
  BY <1>1, <1>3, <1>4, <1>5, <1>6, <1>7, <1>8, <1>9, <1>10

LEMMA Requested ==
    ASSUME NInv, NEW c \in Calls, Request(c)
    PROVE  NInv'
<1>1. CASE MNT(c)
  BY <1>1, MntBegins
<1>2. ASSUME NEW r, Begun(c, r)
      PROVE  NInv'
  <2>1. r.h \in Handles
    BY <1>2 DEF Begun, Known
  <2>2. QED
    BY <1>2, <2>1, BeginsOn DEF Begun
<1>3. QED
  BY <1>1, <1>2, RequestIs

LEMMA Restarts ==
    ASSUME NInv, Crash
    PROVE  NInv'
<1>1. /\ call' = [c \in Calls |-> Store!Idle] /\ UNCHANGED <<fh, fn, issued, retired>>
      /\ rq' = [c \in Calls |-> Idle] /\ said' = None
      /\ UNCHANGED <<fsvars, given, dropped>>
  BY SameIdle DEF Crash, DB!Crash
<1>2. torn' \subseteq Handles
  <2>1. \A c \in Calls : call[c].pc = "mv_cleanup" => call[c].h \in Handles
    BY DEF NInv, Store!TypeOK
  <2>2. torn \subseteq Handles
    BY DEF NInv, Store!TypeOK
  <2>3. QED
    BY <2>1, <2>2 DEF Crash, DB!Crash
<1>3. Store!TypeOK'
  <2>1. \A c \in Calls : call'[c] = Store!Idle
    BY <1>1
  <2>2. call' \in [Calls -> Store!CallState]
    BY <1>1, NoCall
  <2>3. \A c \in Calls : Store!LocalOK(call'[c])
    BY <2>1, NoCall
  <2>4. QED
    BY <1>1, <1>2, <2>2, <2>3 DEF NInv, Store!TypeOK, Store!LocalOK, Store!Busy
<1>4. ASSUME NEW c \in Calls
      PROVE  Locals(rq[c])' /\ Slot(rq[c], call[c])'
  <2>1. rq'[c] = Idle /\ call'[c] = Store!Idle
    BY <1>1
  <2>2. Locals(Idle) /\ Slot(Idle, Store!Idle)
    BY NoCall DEF Store!Idle
  <2>3. QED
    BY <2>1, <2>2 DEF Locals, Slot
<1>5. HistOK'
  <2>1. displaced' \subseteq Handles
    BY Displaces DEF Crash, NInv, HistOK
  <2>2. QED
    BY <1>1, <2>1 DEF NInv, HistOK
<1>6. TreeOK' /\ rq' \in [Calls -> RqState] /\ said' \in Saids
  BY <1>1, SameTree, NoCall DEF Saids
<1>7. QED
  BY <1>3, <1>4, <1>5, <1>6 DEF NInv, Slots

LEMMA TypesInit == Init => NInv
<1> SUFFICES ASSUME Init PROVE NInv
  OBVIOUS
<1>1. TreeOK
  BY TreeStart DEF Init
<1>2. \A c \in Calls : rq[c] = Idle /\ call[c] = Store!Idle
  BY SameIdle DEF Init, DB!Init
<1>3. Store!TypeOK
  <2>1. Store!Init
    BY SameIdle DEF Init, DB!Init, Store!Init
  <2>2. QED
    BY <2>1, StoreAssumptions, Store!TypeInit
<1>4. Slots
  BY <1>2, NoCall DEF Slots, Store!Idle
<1>5. rq \in [Calls -> RqState] /\ said \in Saids /\ HistOK
  BY NoCall DEF Init, Saids, HistOK
<1>6. QED
  BY <1>1, <1>3, <1>4, <1>5 DEF NInv

LEMMA TypesNext == NInv /\ [Next]_nsvars => NInv'
<1> SUFFICES ASSUME NInv, [Next]_nsvars PROVE NInv'
  OBVIOUS
<1>1. CASE UNCHANGED nsvars
  <2>1. /\ UNCHANGED <<fsvars, hist>>
        /\ UNCHANGED <<fh, fn, issued, retired, torn, call, rq, said>>
    BY <1>1 DEF nsvars, dbvars
  <2>2. TreeOK' /\ HistOK'
    BY <2>1, SameTree, SameHist
  <2>3. Store!TypeOK'
    BY <2>1 DEF NInv, Store!TypeOK, Store!Busy
  <2>4. Slots'
    BY <2>1 DEF NInv, Slots, Locals, Slot
  <2>5. QED
    BY <2>1, <2>2, <2>3, <2>4 DEF NInv
<1>2. QED
  BY <1>1, Requested, Handled, AccessKeeps, Restarts DEF Next, Quiet

(* The tree, the database and the requests keep their types, every name    *)
(* stays in a directory, and a request waits for the database exactly      *)
(* while its slot there is in use: for any requests that overlap in any    *)
(* way and any failures.                                                   *)
THEOREM TypesKept == Spec => []TypeOK
BY Types, TypesInit, TypesNext, PTL DEF Spec

-----------------------------------------------------------------------------
(* The handlers fall into ten kinds, by what they do to the request, its   *)
(* call and the two stores.                                                *)

(* Only exclusive creates are racers, and they are at these handlers.      *)
RacePcs == {"create_lookup_dir", "create", "do_create_wx", "create_lookup",
            "create_stat"}
RacesThere(r) == r.how = "EXCLUSIVE" => r.pc \in RacePcs

Only(c) == /\ \A d \in Calls : d # c => rq'[d] = rq[d] /\ call'[d] = call[d]
           /\ UNCHANGED <<fh, fn, issued, retired, torn>>
           /\ RacesThere(rq[c]) => RacesThere(rq'[c])
           /\ rq'[c].how \in {rq[c].how, None}

(* A request ends: what was promised is given, what a failing del or mv    *)
(* has left behind is displaced.                                           *)
Ends(c) ==
    /\ Only(c) /\ rq'[c] = Idle /\ call'[c].pc = "idle"
    /\ rq[c].pc # "idle" /\ call[c].pc \in {"idle", "done"}
    /\ UNCHANGED <<fsvars, dropped>>
    /\ \/ UNCHANGED given
       \/ Offered(c) # None /\ rq[c].p \in Paths /\ Give(Offered(c), rq[c].p)
    /\ displaced' = IF rq[c].pc \in DelOfPcs \cup {"rename_mv"} /\ ~call[c].ok
                    THEN displaced \cup HandlesOf(rq[c].p) ELSE displaced

(* A handler goes on to another with the same locals.                      *)
Keeps(c) == /\ Only(c)
            /\ rq'[c].h = rq[c].h /\ rq'[c].n = rq[c].n /\ rq'[c].h2 = rq[c].h2
            /\ rq'[c].p = rq[c].p /\ rq'[c].q = rq[c].q
            /\ rq'[c].how = rq[c].how

Goes(c) ==
    /\ Keeps(c) /\ rq[c].pc \in MidPcs /\ rq'[c].pc \in MidPcs
    /\ UNCHANGED <<fsvars, hist>> /\ call'[c] = call[c]

(* A path and a name are joined. *)
Joins(c) ==
    /\ Only(c) /\ rq[c].pc \in OnePcs /\ rq'[c].pc \in MidPcs
    /\ call[c].pc = "done" /\ call[c].ok /\ call'[c].pc = "idle"
    /\ rq'[c].h = None /\ rq'[c].h2 = None /\ rq'[c].q = None
    /\ rq'[c].p = Append(call[c].p, rq[c].n)
    /\ rq'[c].how = rq[c].how
    /\ UNCHANGED <<fsvars, hist>>

(* ... the first or the second of two. *)
JoinsFirst(c) ==
    /\ Only(c) /\ rq[c].pc \in TwoPcs /\ rq'[c].pc \in SecondPcs
    /\ call[c].pc = "done" /\ call[c].ok
    /\ call'[c] = [Store!Idle EXCEPT !.pc = "fhandle_get", !.h = rq[c].h2]
    /\ rq'[c].h = None /\ rq'[c].h2 = rq[c].h2 /\ rq'[c].n2 = rq[c].n2
    /\ rq'[c].p = (IF rq[c].n = None THEN call[c].p ELSE Append(call[c].p, rq[c].n))
    /\ rq'[c].q = None
    /\ UNCHANGED <<fsvars, hist>>
JoinsSecond(c) ==
    /\ Only(c) /\ rq[c].pc \in SecondPcs /\ rq'[c].pc \in {"rename", "link"}
    /\ call[c].pc = "done" /\ call[c].ok /\ call'[c].pc = "idle"
    /\ rq'[c].h = None /\ rq'[c].h2 = None /\ rq'[c].p = rq[c].p
    /\ rq'[c].q = Append(call[c].p, rq[c].n2)
    /\ UNCHANGED <<fsvars, hist>>

(* A name is made or found. *)
Looks(c) ==
    /\ Keeps(c) /\ rq[c].pc \in MidPcs /\ rq'[c].pc \in LookPcs
    /\ call[c].pc = "idle"
    /\ call'[c] = [Store!Idle EXCEPT !.pc = "lookup_get", !.p = rq[c].p]
    /\ rq[c].p \in Paths
    /\ \/ Exists(rq[c].p) /\ UNCHANGED fsvars
             /\ rq[c].pc \notin RacePcs
       \/ \E k \in Kinds : MakeOk(rq[c].p) /\ Make(rq[c].p, k)
    /\ UNCHANGED hist

(* Its handle is held for the reply. *)
Takes(c) ==
    /\ Keeps(c) /\ rq[c].pc \in LookPcs /\ rq'[c].pc \in StatPcs
    /\ call[c].pc = "done" /\ call[c].ok /\ call'[c].pc = "idle"
    /\ rq'[c].obj = call[c].h
    /\ UNCHANGED <<fsvars, hist>>

(* A name is taken away. *)
Deletes(c) ==
    /\ Keeps(c) /\ rq[c].pc \in MidPcs /\ rq'[c].pc \in DelOfPcs
    /\ call[c].pc = "idle" /\ rq[c].how # "EXCLUSIVE"
    /\ call'[c] = [Store!Idle EXCEPT !.pc = "del_get", !.p = rq[c].p]
    /\ rq[c].p \in Paths
    /\ \/ (UnlinkOk(rq[c].p) \/ RmdirOk(rq[c].p)) /\ Drop(rq[c].p)
       \/ ~Exists(rq[c].p) /\ UNCHANGED fsvars
    /\ dropped' = dropped \cup HandlesNaming(rq[c].p)
    /\ UNCHANGED <<given, displaced>>

(* A name is renamed, or linked. *)
Renamed(c) ==
    /\ Keeps(c) /\ rq[c].pc = "rename" /\ rq'[c].pc = "rename_mv"
    /\ call[c].pc = "idle"
    /\ call'[c] = [Store!Idle EXCEPT !.pc = "mv_get", !.p = rq[c].p, !.q = rq[c].q]
    /\ RenameOk(rq[c].p, rq[c].q) /\ Rename(rq[c].p, rq[c].q)
    /\ displaced' = displaced \cup HandlesNaming(rq[c].q)
                              \cup HandlesBelow(rq[c].p)
    /\ UNCHANGED <<given, dropped>>
Linked(c) ==
    /\ Keeps(c) /\ rq[c].pc = "link" /\ rq'[c].pc = "link_stat"
    /\ call'[c] = call[c]
    /\ LinkOk(rq[c].p, rq[c].q) /\ Link(rq[c].p, rq[c].q)
    /\ UNCHANGED hist

HandlerStep(c) ==
    \/ Ends(c) \/ Goes(c) \/ Joins(c) \/ JoinsFirst(c) \/ JoinsSecond(c)
    \/ Looks(c) \/ Takes(c) \/ Deletes(c) \/ Renamed(c) \/ Linked(c)

(* How a handler's Set, Goto, Reply and call show in the locals.           *)
LEMMA SetIs ==
    ASSUME NInv, NEW c \in Calls, NEW r, Set(c, r)
    PROVE  rq'[c] = r /\ \A d \in Calls : d # c => rq'[d] = rq[d]
BY DEF NInv, Set

LEMMA GotoIs ==
    ASSUME NInv, NEW c \in Calls, NEW pc, Goto(c, pc)
    PROVE  /\ rq'[c].pc = pc
           /\ rq'[c].h = rq[c].h /\ rq'[c].n = rq[c].n /\ rq'[c].h2 = rq[c].h2
           /\ rq'[c].p = rq[c].p /\ rq'[c].q = rq[c].q /\ rq'[c].how = rq[c].how
           /\ \A d \in Calls : d # c => rq'[d] = rq[d]
<1>1. rq[c] \in RqState /\ rq \in [Calls -> RqState]
  BY DEF NInv
<1>2. QED
  BY <1>1 DEF Goto, Set, RqState

LEMMA ReplyIs ==
    ASSUME NInv, NEW c \in Calls, Replies(c)
    PROVE  rq'[c] = Idle /\ \A d \in Calls : d # c => rq'[d] = rq[d]
BY DEF NInv, Replies, Error, Reply

LEMMA ReturnIs ==
    ASSUME NInv, NEW c \in Calls, DB!Return(c)
    PROVE  /\ call'[c] = Store!Idle /\ \A d \in Calls : d # c => call'[d] = call[d]
           /\ UNCHANGED <<fh, fn, issued, retired, torn>>
           /\ call[c].pc = "done"
<1>1. call \in [Calls -> Store!CallState]
  BY DEF NInv, Store!TypeOK
<1>2. QED
  BY <1>1, SameIdle DEF DB!Return

LEMMA BeginIs ==
    ASSUME NInv, NEW c \in Calls, NEW s, DB!Begin(c, s)
    PROVE  /\ call'[c] = s /\ \A d \in Calls : d # c => call'[d] = call[d]
           /\ UNCHANGED <<fh, fn, issued, retired, torn>>
<1>1. call \in [Calls -> Store!CallState]
  BY DEF NInv, Store!TypeOK
<1>2. QED
  BY <1>1 DEF DB!Begin

LEMMA IdleRaces == RacesThere(Idle) /\ Idle.how = None
BY NamespaceAssumption DEF RacesThere, Idle

LEMMA AnswersEnd ==
    ASSUME NInv, NEW c \in Calls, Replies(c), rq[c].pc # "idle",
           \/ UNCHANGED dbvars /\ call[c].pc = "idle"
           \/ DB!Return(c),
           UNCHANGED <<fsvars, dropped>>,
           \/ UNCHANGED given
           \/ Offered(c) # None /\ rq[c].p \in Paths /\ Give(Offered(c), rq[c].p),
           displaced' = IF rq[c].pc \in DelOfPcs \cup {"rename_mv"} /\ ~call[c].ok
                        THEN displaced \cup HandlesOf(rq[c].p) ELSE displaced
    PROVE  Ends(c)
<1>1. rq'[c] = Idle /\ \A d \in Calls : d # c => rq'[d] = rq[d]
  BY ReplyIs
<1>2. /\ call'[c].pc = "idle" /\ call[c].pc \in {"idle", "done"}
      /\ \A d \in Calls : d # c => call'[d] = call[d]
      /\ UNCHANGED <<fh, fn, issued, retired, torn>>
  BY ReturnIs DEF dbvars, Store!Idle
<1>3. RacesThere(rq'[c]) /\ rq'[c].how = None
  BY <1>1, IdleRaces DEF RacesThere
<1>4. Only(c)
  BY <1>1, <1>2, <1>3 DEF Only
<1>5. QED
  BY <1>1, <1>2, <1>4 DEF Ends

(* A request that fails at an access, or whose call fails, just ends. *)
LEMMA FailsEnd ==
    ASSUME NInv, NEW c \in Calls, Replies(c), rq[c].pc # "idle",
           rq[c].pc \notin DelOfPcs \cup {"rename_mv"},
           \/ UNCHANGED dbvars /\ call[c].pc = "idle"
           \/ DB!Return(c),
           UNCHANGED <<fsvars, hist>>
    PROVE  Ends(c)
<1>1. UNCHANGED <<given, displaced, dropped>>
  BY DEF hist
<1>2. QED
  BY <1>1, AnswersEnd

(* A handler that waits for an access has no call under way. *)
LEMMA NotCalled ==
    ASSUME NInv, NEW c \in Calls, rq[c].pc \in MidPcs \cup PairPcs \cup StatPcs
    PROVE  call[c].pc = "idle" /\ rq[c].pc # "idle"
           /\ rq[c].pc \notin DelOfPcs \cup {"rename_mv"}
<1>1. call[c].pc = "idle"
  BY RequestFacts, AtMid, AtPair, AtStat
<1>2. QED
  BY <1>1 DEF MidPcs, PairPcs, StatPcs, DelOfPcs

LEMMA RefusedEnds ==
    ASSUME NInv, NEW c \in Calls, rq[c].pc \in MidPcs \cup PairPcs \cup StatPcs,
           Error(c), UNCHANGED <<fsvars, dbvars, hist>>
    PROVE  Ends(c)
BY NotCalled, FailsEnd DEF Replies

LEMMA CheckKind ==
    ASSUME NInv, NEW c \in Calls, NEW at \in MidPcs, At(c, at), NEW pc \in MidPcs,
           \/ /\ Goto(c, pc)
              /\ rq[c].how = "EXCLUSIVE" /\ at \in RacePcs => pc \in RacePcs
           \/ Error(c),
           UNCHANGED <<fsvars, dbvars, hist>>
    PROVE  Goes(c) \/ Ends(c)
<1>1. rq[c].pc = at
  BY DEF At
<1>2. CASE Error(c)
  BY <1>1, <1>2, RefusedEnds
<1>3. CASE /\ Goto(c, pc)
           /\ rq[c].how = "EXCLUSIVE" /\ at \in RacePcs => pc \in RacePcs
  <2>1. /\ rq'[c].pc = pc
        /\ rq'[c].h = rq[c].h /\ rq'[c].n = rq[c].n /\ rq'[c].h2 = rq[c].h2
        /\ rq'[c].p = rq[c].p /\ rq'[c].q = rq[c].q /\ rq'[c].how = rq[c].how
        /\ \A d \in Calls : d # c => rq'[d] = rq[d]
    BY <1>3, GotoIs
  <2>2. UNCHANGED <<fh, fn, issued, retired, torn, call>>
    BY DEF dbvars
  <2>3. RacesThere(rq[c]) => RacesThere(rq'[c])
    BY <1>1, <1>3, <2>1 DEF RacesThere
  <2>4. Only(c)
    BY <2>1, <2>2, <2>3 DEF Only
  <2>5. QED
    BY <1>1, <2>1, <2>2, <2>4 DEF Goes, Keeps
<1>4. QED
  BY <1>2, <1>3

LEMMA ResolveKind ==
    ASSUME NInv, NEW c \in Calls, NEW at \in OnePcs, NEW pc \in MidPcs,
           rq[c].how = "EXCLUSIVE" /\ at \in RacePcs => pc \in RacePcs,
           ResolveDir(c, at, pc)
    PROVE  Joins(c) \/ Ends(c)
<1>1. /\ rq[c].pc = at /\ call[c].pc = "done" /\ DB!Return(c)
      /\ UNCHANGED <<fsvars, hist>> /\ rq[c] \in RqState
  BY RequestFacts DEF ResolveDir, Called, At
<1>2. CASE ~call[c].ok
  <2>1. Replies(c)
    BY <1>2 DEF ResolveDir, Replies
  <2>2. rq[c].pc # "idle" /\ rq[c].pc \notin DelOfPcs \cup {"rename_mv"}
    BY <1>1 DEF OnePcs, DelOfPcs
  <2>3. QED
    BY <1>1, <2>1, <2>2, FailsEnd
<1>3. CASE call[c].ok
  <2> DEFINE r == [rq[c] EXCEPT !.pc = pc, !.h = None, !.n = None,
                                !.p = Append(call[c].p, rq[c].n)]
  <2>1. Set(c, r)
    BY <1>3 DEF ResolveDir
  <2>2. /\ r.pc = pc /\ r.h = None /\ r.h2 = rq[c].h2 /\ r.q = rq[c].q
        /\ r.p = Append(call[c].p, rq[c].n) /\ r.how = rq[c].how
    BY <1>1 DEF RqState
  <2> HIDE DEF r
  <2>3. rq'[c] = r /\ \A d \in Calls : d # c => rq'[d] = rq[d]
    BY <2>1, SetIs
  <2>4. rq[c].h2 = None /\ rq[c].q = None
    BY <1>1, RequestFacts, AtOne
  <2>5. /\ call'[c].pc = "idle" /\ \A d \in Calls : d # c => call'[d] = call[d]
        /\ UNCHANGED <<fh, fn, issued, retired, torn>>
    BY <1>1, ReturnIs DEF Store!Idle
  <2>6. RacesThere(rq[c]) => RacesThere(rq'[c])
    BY <1>1, <2>2, <2>3 DEF RacesThere
  <2>7. Only(c)
    BY <2>2, <2>3, <2>5, <2>6 DEF Only
  <2>8. QED
    BY <1>1, <1>3, <2>2, <2>3, <2>4, <2>5, <2>7 DEF Joins
<1>4. QED
  BY <1>2, <1>3

LEMMA TakeObjKind ==
    ASSUME NInv, NEW c \in Calls, NEW at \in LookPcs, NEW pc \in StatPcs,
           at \in RacePcs => pc \in RacePcs, TakeObj(c, at, pc)
    PROVE  Takes(c) \/ Ends(c)
<1>1. /\ rq[c].pc = at /\ call[c].pc = "done" /\ DB!Return(c)
      /\ UNCHANGED <<fsvars, hist>> /\ rq[c] \in RqState
  BY RequestFacts DEF TakeObj, Called, At
<1>2. CASE ~call[c].ok
  <2>1. Replies(c)
    BY <1>2 DEF TakeObj, Replies
  <2>2. rq[c].pc # "idle" /\ rq[c].pc \notin DelOfPcs \cup {"rename_mv"}
    BY <1>1 DEF LookPcs, DelOfPcs
  <2>3. QED
    BY <1>1, <2>1, <2>2, FailsEnd
<1>3. CASE call[c].ok
  <2> DEFINE r == [rq[c] EXCEPT !.pc = pc, !.obj = call[c].h]
  <2>1. Set(c, r)
    BY <1>3 DEF TakeObj
  <2>2. /\ r.pc = pc /\ r.h = rq[c].h /\ r.n = rq[c].n /\ r.h2 = rq[c].h2
        /\ r.q = rq[c].q /\ r.p = rq[c].p /\ r.how = rq[c].how /\ r.obj = call[c].h
    BY <1>1 DEF RqState
  <2> HIDE DEF r
  <2>3. rq'[c] = r /\ \A d \in Calls : d # c => rq'[d] = rq[d]
    BY <2>1, SetIs
  <2>4. /\ call'[c].pc = "idle" /\ \A d \in Calls : d # c => call'[d] = call[d]
        /\ UNCHANGED <<fh, fn, issued, retired, torn>>
    BY <1>1, ReturnIs DEF Store!Idle
  <2>5. RacesThere(rq[c]) => RacesThere(rq'[c])
    BY <1>1, <2>2, <2>3 DEF RacesThere
  <2>6. Only(c)
    BY <2>2, <2>3, <2>4, <2>5 DEF Only
  <2>7. QED
    BY <1>1, <1>3, <2>2, <2>3, <2>4, <2>6 DEF Takes, Keeps
<1>4. QED
  BY <1>2, <1>3

LEMMA SendObjKind ==
    ASSUME NInv, NEW c \in Calls, rq[c].pc \in StatPcs,
           \/ ReplyWith(c, rq[c].obj, rq[c].p)
           \/ Error(c) /\ UNCHANGED hist,
           UNCHANGED <<fsvars, dbvars>>
    PROVE  Ends(c)
<1>1. rq[c].obj \in Handles /\ rq[c].p \in Paths
  BY RequestFacts, AtStat
<1>2. Offered(c) = rq[c].obj /\ Offered(c) # None
  BY <1>1, NamespaceAssumption DEF Offered
<1>3. QED
  BY <1>1, <1>2, NotCalled, AnswersEnd DEF ReplyWith, Replies, hist

LEMMA SendFoundKind ==
    ASSUME NInv, NEW c \in Calls, NEW at \in {"mount_lookup", "lookup"}, SendFound(c, at)
    PROVE  Ends(c)
<1>1. /\ rq[c].pc = at /\ call[c].pc = "done" /\ DB!Return(c)
      /\ UNCHANGED fsvars /\ Replies(c)
  BY DEF SendFound, Called, At, ReplyWith, Replies
<1>2. at \in LookPcs /\ at # "idle" /\ at \notin DelOfPcs \cup {"rename_mv"}
  BY DEF LookPcs, DelOfPcs
<1>3. rq[c].p \in Paths /\ rq[c].obj = None /\ (call[c].ok => call[c].h \in Handles)
  BY <1>1, <1>2, RequestFacts, AtLook
<1>4. CASE call[c].ok
  <2>1. Offered(c) = call[c].h /\ Offered(c) # None
    BY <1>1, <1>3, <1>4, NamespaceAssumption DEF Offered
  <2>2. Give(call[c].h, rq[c].p) /\ UNCHANGED <<displaced, dropped>>
    BY <1>4 DEF SendFound, ReplyWith
  <2>3. QED
    BY <1>1, <1>2, <1>3, <2>1, <2>2, AnswersEnd
<1>5. CASE ~call[c].ok
  <2>1. UNCHANGED hist
    BY <1>5 DEF SendFound
  <2>2. QED
    BY <1>1, <1>2, <2>1, FailsEnd
<1>6. QED
  BY <1>4, <1>5

LEMMA LookKind ==
    ASSUME NInv, NEW c \in Calls, rq[c].pc \in MidPcs, NEW pc \in LookPcs,
           rq[c].pc \in RacePcs => pc \in RacePcs,
           ThenLookup(c, pc), rq[c].p \in Paths,
           \/ Exists(rq[c].p) /\ UNCHANGED fsvars /\ rq[c].pc \notin RacePcs
           \/ \E k \in Kinds : MakeOk(rq[c].p) /\ Make(rq[c].p, k),
           UNCHANGED hist
    PROVE  Looks(c)
<1>1. /\ rq'[c].pc = pc
      /\ rq'[c].h = rq[c].h /\ rq'[c].n = rq[c].n /\ rq'[c].h2 = rq[c].h2
      /\ rq'[c].p = rq[c].p /\ rq'[c].q = rq[c].q /\ rq'[c].how = rq[c].how
      /\ \A d \in Calls : d # c => rq'[d] = rq[d]
  BY GotoIs DEF ThenLookup
<1>2. /\ call'[c] = [Store!Idle EXCEPT !.pc = "lookup_get", !.p = rq[c].p]
      /\ \A d \in Calls : d # c => call'[d] = call[d]
      /\ UNCHANGED <<fh, fn, issued, retired, torn>>
  BY BeginIs, SameIdle DEF ThenLookup, DB!StartLookup
<1>3. RacesThere(rq[c]) => RacesThere(rq'[c])
  BY <1>1 DEF RacesThere
<1>4. Only(c)
  BY <1>1, <1>2, <1>3 DEF Only
<1>5. QED
  BY <1>1, <1>2, <1>4, NotCalled DEF Looks, Keeps

LEMMA DeleteKind ==
    ASSUME NInv, NEW c \in Calls, RacesThere(rq[c]), rq[c].pc \in {"rmdir", "remove"},
           NEW pc \in DelOfPcs,
           ThenDel(c, pc), rq[c].p \in Paths,
           \/ (UnlinkOk(rq[c].p) \/ RmdirOk(rq[c].p)) /\ Drop(rq[c].p)
           \/ ~Exists(rq[c].p) /\ UNCHANGED fsvars
    PROVE  Deletes(c)
<1>0. rq[c].pc \in MidPcs /\ rq[c].how # "EXCLUSIVE"
  BY DEF MidPcs, RacesThere, RacePcs
<1>1. /\ rq'[c].pc = pc
      /\ rq'[c].h = rq[c].h /\ rq'[c].n = rq[c].n /\ rq'[c].h2 = rq[c].h2
      /\ rq'[c].p = rq[c].p /\ rq'[c].q = rq[c].q /\ rq'[c].how = rq[c].how
      /\ \A d \in Calls : d # c => rq'[d] = rq[d]
  BY GotoIs DEF ThenDel
<1>2. /\ call'[c] = [Store!Idle EXCEPT !.pc = "del_get", !.p = rq[c].p]
      /\ \A d \in Calls : d # c => call'[d] = call[d]
      /\ UNCHANGED <<fh, fn, issued, retired, torn>>
  BY BeginIs, SameIdle DEF ThenDel, DB!StartDel
<1>3. RacesThere(rq'[c])
  BY <1>0, <1>1 DEF RacesThere
<1>4. Only(c)
  BY <1>1, <1>2, <1>3 DEF Only
<1>5. QED
  BY <1>0, <1>1, <1>2, <1>4, NotCalled DEF Deletes, Keeps, ThenDel

LEMMA FinishKind ==
    ASSUME NInv, NEW c \in Calls, NEW at \in DelOfPcs \cup {"rename_mv"}, Finish(c, at)
    PROVE  Ends(c)
<1>1. /\ rq[c].pc \in DelOfPcs \cup {"rename_mv"} /\ DB!Return(c)
      /\ UNCHANGED fsvars /\ Replies(c)
  BY DEF Finish, Called, At, Replies
<1>2. rq[c].pc # "idle"
  BY <1>1 DEF DelOfPcs
<1>3. /\ UNCHANGED <<given, dropped>>
      /\ displaced' = IF ~call[c].ok THEN displaced \cup HandlesOf(rq[c].p)
                      ELSE displaced
  BY DEF Finish, hist
<1>4. QED
  BY <1>1, <1>2, <1>3, AnswersEnd

(* A request that ends because its call failed. *)
LEMMA CallFailed ==
    ASSUME NInv, NEW c \in Calls, rq[c].pc \in Resolving, Error(c), DB!Return(c),
           UNCHANGED <<fsvars, hist>>
    PROVE  Ends(c)
<1>1. rq[c].pc # "idle" /\ rq[c].pc \notin DelOfPcs \cup {"rename_mv"}
  BY DEF Resolving, FirstPcs, OnePcs, TwoPcs, SecondPcs, DelOfPcs
<1>2. QED
  BY <1>1, FailsEnd DEF Replies

LEMMA FirstKind ==
    ASSUME NInv, NEW c \in Calls, rq[c].pc \in TwoPcs, NEW pc \in SecondPcs,
           NEW r, Set(c, r), r.pc = pc, r.h = None, r.h2 = rq[c].h2,
           r.n2 = rq[c].n2, r.q = rq[c].q, r.how = rq[c].how,
           r.p = (IF rq[c].n = None THEN call[c].p ELSE Append(call[c].p, rq[c].n)),
           RacesThere(rq[c]), call[c].pc = "done", call[c].ok,
           DB!StartFhandle(c, rq[c].h2), UNCHANGED <<fsvars, hist>>
    PROVE  JoinsFirst(c)
<1>1. rq'[c] = r /\ \A d \in Calls : d # c => rq'[d] = rq[d]
  BY SetIs
<1>2. /\ call'[c] = [Store!Idle EXCEPT !.pc = "fhandle_get", !.h = rq[c].h2]
      /\ \A d \in Calls : d # c => call'[d] = call[d]
      /\ UNCHANGED <<fh, fn, issued, retired, torn>>
  BY BeginIs, SameIdle DEF DB!StartFhandle
<1>3. rq[c].q = None /\ rq[c].how # "EXCLUSIVE"
  BY RequestFacts, AtTwo DEF RacesThere, RacePcs, TwoPcs
<1>4. RacesThere(rq'[c])
  BY <1>1, <1>3 DEF RacesThere
<1>5. Only(c)
  BY <1>1, <1>2, <1>4 DEF Only
<1>6. QED
  BY <1>1, <1>2, <1>3, <1>5 DEF JoinsFirst

LEMMA SecondKind ==
    ASSUME NInv, NEW c \in Calls, rq[c].pc \in SecondPcs,
           NEW pc \in {"rename", "link"},
           Set(c, [rq[c] EXCEPT !.pc = pc, !.h2 = None, !.n2 = None,
                                !.q = Append(call[c].p, rq[c].n2)]),
           RacesThere(rq[c]), call[c].pc = "done", call[c].ok,
           DB!Return(c), UNCHANGED <<fsvars, hist>>
    PROVE  JoinsSecond(c)
<1> DEFINE r == [rq[c] EXCEPT !.pc = pc, !.h2 = None, !.n2 = None,
                              !.q = Append(call[c].p, rq[c].n2)]
<1>1. rq[c] \in RqState /\ rq[c].h = None
  BY RequestFacts, AtSecond
<1>2. /\ r.pc = pc /\ r.h = None /\ r.h2 = None /\ r.p = rq[c].p
      /\ r.q = Append(call[c].p, rq[c].n2) /\ r.how = rq[c].how
  BY <1>1 DEF RqState
<1>3. Set(c, r)
  OBVIOUS
<1> HIDE DEF r
<1>4. rq'[c] = r /\ \A d \in Calls : d # c => rq'[d] = rq[d]
  BY <1>3, SetIs
<1>5. /\ call'[c].pc = "idle"
      /\ \A d \in Calls : d # c => call'[d] = call[d]
      /\ UNCHANGED <<fh, fn, issued, retired, torn>>
  BY ReturnIs DEF Store!Idle
<1>6. rq[c].how # "EXCLUSIVE"
  BY DEF RacesThere, RacePcs, SecondPcs
<1>7. RacesThere(rq'[c])
  BY <1>2, <1>4, <1>6 DEF RacesThere
<1>8. Only(c)
  BY <1>2, <1>4, <1>5, <1>7 DEF Only
<1>9. QED
  BY <1>2, <1>4, <1>5, <1>8 DEF JoinsSecond

LEMMA RenameFromKind ==
    ASSUME NInv, NEW c \in Calls, RacesThere(rq[c]), rename_get_from_dir(c)
    PROVE  JoinsFirst(c) \/ Ends(c)
<1>1. /\ rq[c].pc = "rename_get_from_dir" /\ call[c].pc = "done"
      /\ UNCHANGED <<fsvars, hist>> /\ rq[c] \in RqState
  BY RequestFacts DEF rename_get_from_dir, Called, At
<1>2. rq[c].pc \in TwoPcs /\ rq[c].pc \in Resolving
  BY <1>1 DEF TwoPcs, FirstPcs, Resolving
<1>3. CASE call[c].ok
  <2> DEFINE r == [rq[c] EXCEPT !.pc = "rename_get_to_dir", !.h = None, !.n = None,
                                !.p = Append(call[c].p, rq[c].n)]
  <2>1. Set(c, r) /\ DB!StartFhandle(c, rq[c].h2)
    BY <1>3 DEF rename_get_from_dir
  <2>2. /\ r.pc = "rename_get_to_dir" /\ r.h = None /\ r.h2 = rq[c].h2
        /\ r.n2 = rq[c].n2 /\ r.q = rq[c].q /\ r.how = rq[c].how
        /\ r.p = Append(call[c].p, rq[c].n)
    BY <1>1 DEF RqState
  <2> HIDE DEF r
  <2>3. rq[c].n # None
    BY <1>1, <1>2, RequestFacts, AtTwo, FileSystemAssumption
  <2>4. "rename_get_to_dir" \in SecondPcs
    BY DEF SecondPcs
  <2>5. QED
    BY <1>1, <1>2, <1>3, <2>1, <2>2, <2>3, <2>4, FirstKind
<1>4. CASE ~call[c].ok
  BY <1>1, <1>2, <1>4, CallFailed DEF rename_get_from_dir
<1>5. QED
  BY <1>3, <1>4

LEMMA LinkFileKind ==
    ASSUME NInv, NEW c \in Calls, RacesThere(rq[c]), link_lookup_file(c)
    PROVE  JoinsFirst(c) \/ Ends(c)
<1>1. /\ rq[c].pc = "link_lookup_file" /\ call[c].pc = "done"
      /\ UNCHANGED <<fsvars, hist>> /\ rq[c] \in RqState
  BY RequestFacts DEF link_lookup_file, Called, At
<1>2. rq[c].pc \in TwoPcs /\ rq[c].pc \in Resolving
  BY <1>1 DEF TwoPcs, FirstPcs, Resolving
<1>3. CASE call[c].ok
  <2> DEFINE r == [rq[c] EXCEPT !.pc = "link_lookup_dir", !.h = None,
                                !.p = call[c].p]
  <2>1. Set(c, r) /\ DB!StartFhandle(c, rq[c].h2)
    BY <1>3 DEF link_lookup_file
  <2>2. /\ r.pc = "link_lookup_dir" /\ r.h = None /\ r.h2 = rq[c].h2
        /\ r.n2 = rq[c].n2 /\ r.q = rq[c].q /\ r.how = rq[c].how
        /\ r.p = call[c].p
    BY <1>1 DEF RqState
  <2> HIDE DEF r
  <2>3. rq[c].n = None
    BY <1>1, <1>2, RequestFacts, AtTwo
  <2>4. "link_lookup_dir" \in SecondPcs
    BY DEF SecondPcs
  <2>5. QED
    BY <1>1, <1>2, <1>3, <2>1, <2>2, <2>3, <2>4, FirstKind
<1>4. CASE ~call[c].ok
  BY <1>1, <1>2, <1>4, CallFailed DEF link_lookup_file
<1>5. QED
  BY <1>3, <1>4

LEMMA RenameToKind ==
    ASSUME NInv, NEW c \in Calls, RacesThere(rq[c]),
           rename_get_to_dir(c) \/ link_lookup_dir(c)
    PROVE  JoinsSecond(c) \/ Ends(c)
<1>1. /\ rq[c].pc \in SecondPcs /\ call[c].pc = "done" /\ DB!Return(c)
      /\ UNCHANGED <<fsvars, hist>> /\ rq[c].pc \in Resolving
  BY DEF rename_get_to_dir, link_lookup_dir, Called, At, SecondPcs, Resolving
<1>2. CASE call[c].ok
  <2>1. \E pc \in {"rename", "link"} :
            Set(c, [rq[c] EXCEPT !.pc = pc, !.h2 = None, !.n2 = None,
                                 !.q = Append(call[c].p, rq[c].n2)])
    BY <1>2 DEF rename_get_to_dir, link_lookup_dir
  <2>2. QED
    BY <1>1, <1>2, <2>1, SecondKind
<1>3. CASE ~call[c].ok
  <2>1. Error(c)
    BY <1>3 DEF rename_get_to_dir, link_lookup_dir
  <2>2. QED
    BY <1>1, <2>1, CallFailed
<1>4. QED
  BY <1>2, <1>3

LEMMA RenameKind ==
    ASSUME NInv, NEW c \in Calls, RacesThere(rq[c]), rename(c)
    PROVE  Renamed(c) \/ Ends(c)
<1>1. rq[c].pc = "rename" /\ rq[c].pc \in PairPcs
  BY DEF rename, At, PairPcs
<1>2. CASE Refused(c, RenameOk(rq[c].p, rq[c].q))
  BY <1>1, <1>2, RefusedEnds DEF Refused
<1>3. CASE ~Refused(c, RenameOk(rq[c].p, rq[c].q))
  <2>1. /\ RenameOk(rq[c].p, rq[c].q) /\ Rename(rq[c].p, rq[c].q)
        /\ Goto(c, "rename_mv") /\ DB!StartMv(c, rq[c].p, rq[c].q)
        /\ displaced' = displaced \cup HandlesNaming(rq[c].q)
                                  \cup HandlesBelow(rq[c].p)
        /\ UNCHANGED <<given, dropped>>
    BY <1>3 DEF rename
  <2>2. /\ rq'[c].pc = "rename_mv"
        /\ rq'[c].h = rq[c].h /\ rq'[c].n = rq[c].n /\ rq'[c].h2 = rq[c].h2
        /\ rq'[c].p = rq[c].p /\ rq'[c].q = rq[c].q /\ rq'[c].how = rq[c].how
        /\ \A d \in Calls : d # c => rq'[d] = rq[d]
    BY <2>1, GotoIs
  <2>3. /\ call'[c] = [Store!Idle EXCEPT !.pc = "mv_get", !.p = rq[c].p, !.q = rq[c].q]
        /\ \A d \in Calls : d # c => call'[d] = call[d]
        /\ UNCHANGED <<fh, fn, issued, retired, torn>>
    BY <2>1, BeginIs, SameIdle DEF DB!StartMv
  <2>4. RacesThere(rq'[c])
    BY <1>1, <2>2 DEF RacesThere, RacePcs
  <2>5. Only(c)
    BY <2>2, <2>3, <2>4 DEF Only
  <2>6. QED
    BY <1>1, <2>1, <2>2, <2>3, <2>5, NotCalled DEF Renamed, Keeps
<1>4. QED
  BY <1>2, <1>3

LEMMA LinkKind ==
    ASSUME NInv, NEW c \in Calls, RacesThere(rq[c]), link(c)
    PROVE  Linked(c) \/ Ends(c)
<1>1. rq[c].pc = "link" /\ rq[c].pc \in PairPcs
  BY DEF link, At, PairPcs
<1>2. CASE Refused(c, LinkOk(rq[c].p, rq[c].q))
  BY <1>1, <1>2, RefusedEnds DEF Refused
<1>3. CASE ~Refused(c, LinkOk(rq[c].p, rq[c].q))
  <2>1. /\ LinkOk(rq[c].p, rq[c].q) /\ Link(rq[c].p, rq[c].q)
        /\ Goto(c, "link_stat") /\ UNCHANGED <<dbvars, hist>>
    BY <1>3 DEF link
  <2>2. /\ rq'[c].pc = "link_stat"
        /\ rq'[c].h = rq[c].h /\ rq'[c].n = rq[c].n /\ rq'[c].h2 = rq[c].h2
        /\ rq'[c].p = rq[c].p /\ rq'[c].q = rq[c].q /\ rq'[c].how = rq[c].how
        /\ \A d \in Calls : d # c => rq'[d] = rq[d]
    BY <2>1, GotoIs
  <2>3. UNCHANGED <<fh, fn, issued, retired, torn, call>>
    BY <2>1 DEF dbvars
  <2>4. RacesThere(rq'[c])
    BY <1>1, <2>2 DEF RacesThere, RacePcs
  <2>5. Only(c)
    BY <2>2, <2>3, <2>4 DEF Only
  <2>6. QED
    BY <1>1, <2>1, <2>2, <2>3, <2>5 DEF Linked, Keeps
<1>4. QED
  BY <1>2, <1>3

LEMMA LinkStatKind ==
    ASSUME NInv, NEW c \in Calls, link_stat(c)
    PROVE  Ends(c)
<1>1. rq[c].pc \in PairPcs /\ Replies(c) /\ UNCHANGED <<fsvars, dbvars, hist>>
  BY DEF link_stat, At, PairPcs, Replies
<1>2. QED
  BY <1>1, NotCalled, FailsEnd

LEMMA HandlerKinds ==
    ASSUME NInv, NEW c \in Calls, RacesThere(rq[c]), Handler(c)
    PROVE  HandlerStep(c)
<1> DEFINE p == rq[c].p
<1>1. CASE mount(c) \/ stat_file(c)
  <2>1. /\ rq[c].pc \in MidPcs /\ rq[c].pc \notin RacePcs
        /\ "mount_lookup" \in LookPcs /\ "lookup" \in LookPcs
    BY <1>1 DEF mount, stat_file, At, MidPcs, LookPcs, RacePcs
  <2>2. CASE Error(c) /\ UNCHANGED <<fsvars, dbvars, hist>>
    BY <2>1, <2>2, RefusedEnds DEF HandlerStep
  <2>3. CASE \E pc \in LookPcs : Exists(p) /\ ThenLookup(c, pc) /\ UNCHANGED <<fsvars, hist>>
    BY <2>1, <2>3, LookKind DEF Exists, HandlerStep
  <2>4. QED
    BY <1>1, <2>1, <2>2, <2>3 DEF mount, stat_file, Refused, StatOk
<1>2. CASE mount_lookup(c) \/ lookup(c)
  BY <1>2, SendFoundKind DEF mount_lookup, lookup, HandlerStep
<1>3. CASE \/ lookup_dir(c) \/ mkdir_lookup_dir(c) \/ symlink_lookup_dir(c)
           \/ rmdir_lookup_dir(c) \/ remove_lookup_dir(c)
  <2>1. \E at \in OnePcs \ RacePcs, pc \in MidPcs : ResolveDir(c, at, pc)
    BY <1>3 DEF lookup_dir, mkdir_lookup_dir, symlink_lookup_dir, rmdir_lookup_dir,
           remove_lookup_dir, OnePcs, MidPcs, RacePcs
  <2>2. QED
    BY <2>1, ResolveKind DEF HandlerStep
<1>4. CASE create_lookup_dir(c)
  <2>1. /\ "create_lookup_dir" \in OnePcs
        /\ (IF rq[c].how = "UNCHECKED" THEN "do_create_w" ELSE "create") \in MidPcs
    BY DEF OnePcs, MidPcs
  <2>2. rq[c].how = "EXCLUSIVE" =>
            (IF rq[c].how = "UNCHECKED" THEN "do_create_w" ELSE "create") \in RacePcs
    BY DEF RacePcs
  <2>3. QED
    BY <1>4, <2>1, <2>2, ResolveKind DEF create_lookup_dir, HandlerStep
<1>5. CASE stat_dir(c) \/ mkdir_stat_dir(c) \/ rmdir_stat_dir(c) \/ remove_stat_dir(c)
  <2>1. \E at \in MidPcs \ RacePcs, pc \in MidPcs :
            At(c, at) /\ (Goto(c, pc) \/ Error(c)) /\ UNCHANGED <<fsvars, dbvars, hist>>
    BY <1>5 DEF stat_dir, mkdir_stat_dir, rmdir_stat_dir, remove_stat_dir, Check,
                MidPcs, RacePcs
  <2>2. QED
    BY <2>1, CheckKind DEF HandlerStep
<1>6. CASE create(c)
  <2> DEFINE pc == IF rq[c].how = "EXCLUSIVE" THEN "do_create_wx" ELSE "do_create_w"
  <2>1. /\ "create" \in MidPcs /\ pc \in MidPcs
        /\ rq[c].how = "EXCLUSIVE" => pc \in RacePcs
    BY DEF MidPcs, RacePcs
  <2>2. /\ At(c, "create") /\ (Goto(c, pc) \/ Error(c))
        /\ UNCHANGED <<fsvars, dbvars, hist>>
    BY <1>6 DEF create, Check
  <2> HIDE DEF pc
  <2>3. QED
    BY <2>1, <2>2, CheckKind DEF HandlerStep
<1>7. CASE do_create(c) \/ mkdir(c) \/ symlink(c)
  <2>1. /\ rq[c].pc \in MidPcs
        /\ "create_lookup" \in LookPcs \cap RacePcs /\ "mkdir_lookup" \in LookPcs
        /\ "symlink_lookup" \in LookPcs
        /\ "file" \in Kinds /\ "dir" \in Kinds /\ "symlink" \in Kinds
        /\ "mkdir" \notin RacePcs /\ "symlink" \notin RacePcs
        /\ "do_create_w" \notin RacePcs
    BY <1>7 DEF do_create, mkdir, symlink, At, MidPcs, LookPcs, RacePcs, Kinds
  <2>2. CASE Error(c) /\ UNCHANGED <<fsvars, dbvars, hist>>
    BY <2>1, <2>2, RefusedEnds DEF HandlerStep
  <2>3. CASE \E pc \in LookPcs :
                /\ ThenLookup(c, pc) /\ UNCHANGED hist
                /\ rq[c].pc \in RacePcs => pc \in RacePcs
                /\ p \in Paths
                /\ \/ Exists(p) /\ UNCHANGED fsvars /\ rq[c].pc \notin RacePcs
                   \/ \E k \in Kinds : MakeOk(p) /\ Make(p, k)
    BY <2>1, <2>3, LookKind DEF HandlerStep
  <2>4. CASE do_create(c)
    <3>1. CASE /\ At(c, "do_create_w") /\ OpenWOk(p) /\ OpenW(p)
               /\ ThenLookup(c, "create_lookup") /\ UNCHANGED hist
      <4>1. rq[c].pc \notin RacePcs
        BY <2>1, <3>1 DEF At
      <4>2. /\ p \in Paths
            /\ \/ Exists(p) /\ UNCHANGED fsvars /\ rq[c].pc \notin RacePcs
               \/ \E k \in Kinds : MakeOk(p) /\ Make(p, k)
        BY <2>1, <3>1, <4>1 DEF OpenWOk, OpenW, Is, Exists, MakeOk, HasParent
      <4>3. QED
        BY <2>1, <2>3, <3>1, <4>1, <4>2
    <3>2. CASE /\ MakeOk(p) /\ Make(p, "file")
               /\ ThenLookup(c, "create_lookup") /\ UNCHANGED hist
      <4>1. p \in Paths /\ \E k \in Kinds : MakeOk(p) /\ Make(p, k)
        BY <2>1, <3>2 DEF MakeOk, HasParent
      <4>2. QED
        BY <2>1, <2>3, <3>2, <4>1
    <3>3. QED
      BY <2>2, <2>4, <3>1, <3>2 DEF do_create, Refused
  <2>5. CASE mkdir(c) \/ symlink(c)
    <3>1. CASE Error(c) /\ UNCHANGED <<fsvars, dbvars, hist>>
      BY <2>2, <3>1
    <3>2. CASE ~(Error(c) /\ UNCHANGED <<fsvars, dbvars, hist>>)
      <4>1. \E pc \in LookPcs, k \in Kinds :
                ThenLookup(c, pc) /\ UNCHANGED hist /\ MakeOk(p) /\ Make(p, k)
        BY <2>1, <2>5, <3>2 DEF mkdir, symlink, Refused
      <4>2. rq[c].pc \notin RacePcs
        BY <2>1, <2>5 DEF mkdir, symlink, At
      <4>3. MakeOk(p) => p \in Paths
        BY DEF MakeOk, HasParent
      <4>4. QED
        BY <2>3, <4>1, <4>2, <4>3
    <3>3. QED
      BY <3>1, <3>2
  <2>6. QED
    BY <1>7, <2>4, <2>5
<1>8. CASE create_lookup(c) \/ mkdir_lookup(c) \/ symlink_lookup(c)
  <2>1. \E at \in LookPcs, pc \in StatPcs :
            TakeObj(c, at, pc) /\ (at \in RacePcs => pc \in RacePcs)
    BY <1>8 DEF create_lookup, mkdir_lookup, symlink_lookup, LookPcs, StatPcs, RacePcs
  <2>2. QED
    BY <2>1, TakeObjKind DEF HandlerStep
<1>9. CASE create_stat(c) \/ mkdir_stat_newdir(c) \/ symlink_stat(c)
  <2>1. rq[c].pc \in StatPcs
    BY <1>9 DEF create_stat, mkdir_stat_newdir, symlink_stat, SendObj, At, StatPcs
  <2>2. /\ \/ ReplyWith(c, rq[c].obj, rq[c].p)
           \/ Error(c) /\ UNCHANGED hist
        /\ UNCHANGED <<fsvars, dbvars>>
    BY <1>9 DEF create_stat, mkdir_stat_newdir, symlink_stat, SendObj
  <2>3. QED
    BY <2>1, <2>2, SendObjKind DEF HandlerStep
<1>10. CASE rmdir(c) \/ remove(c)
  <2>1. /\ rq[c].pc \in {"rmdir", "remove"} /\ rq[c].pc \in MidPcs
        /\ "rmdir_del" \in DelOfPcs /\ "remove_del" \in DelOfPcs
    BY <1>10 DEF rmdir, remove, At, MidPcs, DelOfPcs
  <2>2. CASE Error(c) /\ UNCHANGED <<fsvars, dbvars, hist>>
    BY <2>1, <2>2, RefusedEnds DEF HandlerStep
  <2>3. CASE \E pc \in DelOfPcs :
                /\ ThenDel(c, pc)
                /\ \/ (UnlinkOk(p) \/ RmdirOk(p)) /\ Drop(p)
                   \/ Missing(p) /\ UNCHANGED fsvars
    <3>1. (UnlinkOk(p) \/ RmdirOk(p) \/ Missing(p)) => p \in Paths
      BY DEF UnlinkOk, RmdirOk, Missing, Is, Exists
    <3>2. Missing(p) => ~Exists(p)
      BY DEF Missing
    <3>3. QED
      BY <2>1, <2>3, <3>1, <3>2, DeleteKind DEF HandlerStep
  <2>4. QED
    BY <1>10, <2>1, <2>2, <2>3 DEF rmdir, remove, Refused
<1>11. CASE rmdir_del(c) \/ remove_del(c) \/ rename_mv(c)
  <2>1. "rmdir_del" \in DelOfPcs /\ "remove_del" \in DelOfPcs
    BY DEF DelOfPcs
  <2>2. QED
    BY <1>11, <2>1, FinishKind DEF rmdir_del, remove_del, rename_mv, HandlerStep
<1>12. CASE \/ rename_get_from_dir(c) \/ rename_get_to_dir(c) \/ rename(c)
            \/ link_lookup_file(c) \/ link_lookup_dir(c) \/ link(c) \/ link_stat(c)
  BY <1>12, RenameFromKind, RenameToKind, RenameKind, LinkFileKind, LinkKind,
     LinkStatKind DEF HandlerStep
<1>13. QED
  BY <1>1, <1>2, <1>3, <1>4, <1>5, <1>6, <1>7, <1>8, <1>9, <1>10, <1>11, <1>12
     DEF Handler

-----------------------------------------------------------------------------
(* The inductive invariant for clients that use different files.           *)

Races == \A c \in Calls : RacesThere(rq[c])

(* What Admissible asks of a request when it begins, it keeps: its targets *)
(* only become fewer.                                                      *)
PairsApart ==
    \A c, d \in Calls : c # d /\ Active(c) /\ Active(d)
        => Apart(rq[c], rq[d]) \/ Race(rq[c], rq[d])

(* A path just answered is still the handle's.                             *)
Resolved ==
    \A c \in Calls : call[c].pc = "done" /\ call[c].ok =>
        /\ rq[c].pc \in FirstPcs => call[c].p = fn[rq[c].h]
        /\ rq[c].pc \in SecondPcs => call[c].p = fn[rq[c].h2]

(* A name whose handle is looked up or held is there, and is one request's *)
(* only: of several exclusive creates one has made it.                     *)
Holding(r) == r.pc \in LookPcs \cup StatPcs
MadeThere  == \A c \in Calls : Holding(rq[c]) => Exists(rq[c].p)
WonAlone   ==
    \A c, d \in Calls :
        c # d /\ Holding(rq[c]) /\ Holding(rq[d]) => rq[c].p # rq[d].p

(* The handle that an mv or a del has found is still that of its path.     *)
FoundPcs   == {"mv_write", "mv_cleanup", "del_write"}
FoundStill ==
    \A c \in Calls : call[c].pc \in FoundPcs => fh[call[c].p] = call[c].h

(* Requests are about handles that clients know; a uuid that was drawn and *)
(* is not yet recorded nobody has heard of.                                *)
Asked     == \A c \in Calls : {rq[c].h, rq[c].h2} \subseteq Known \cup {None}
FreshPcs  == {"lookup_write", "mv_write_new"}
Secret(h) == \E c \in Calls : call[c].pc \in FreshPcs /\ call[c].h = h
Spoken(h) == h \in Known \/ \E c \in Calls : Offered(c) = h
SpokenDrawn == \A h \in Handles : Spoken(h) => h \in issued /\ ~Secret(h)

AInv == NInv /\ Store!IInv /\ Races /\ PairsApart /\ Resolved /\ MadeThere
        /\ WonAlone /\ FoundStill /\ Asked /\ SpokenDrawn

-----------------------------------------------------------------------------
(* Paths that are apart are different.                                     *)

LEMMA AllPathsSeq == \A p \in AllPaths : p \in Seq(Names) /\ p # None
<1>1. MaxDepth + 1 \in Nat
  BY FileSystemAssumption
<1>2. QED
  BY <1>1, SeqOfDef, FileSystemAssumption DEF AllPaths

LEMMA ApartDiffer ==
    ASSUME NEW r, NEW s, Apart(r, s), NEW a \in AllPaths, a \in Targets(r)
    PROVE  a \notin Targets(s)
BY AllPathsSeq, PrefixSelf DEF Apart

LEMMA ApartSymmetric == \A r, s : Apart(r, s) => Apart(s, r)
BY DEF Apart

LEMMA JoinedPrefix ==
    ASSUME NEW p \in Paths, NEW n \in Names \cup {None}
    PROVE  IsPrefix(p, IF n = None THEN p ELSE Append(p, n))
<1>1. p \in Seq(Names) /\ Len(p) \in Nat
  BY PathsDef, LenProperties
<1>2. CASE n = None
  BY <1>1, <1>2, PrefixSelf
<1>3. CASE n # None
  <2>1. /\ Append(p, n) \in Seq(Names) /\ Len(Append(p, n)) = Len(p) + 1
        /\ \A i \in 1..Len(p) : Append(p, n)[i] = p[i]
    BY <1>1, <1>3, AppendProperties
  <2>2. Len(p) <= Len(Append(p, n)) /\ \A i \in 1..Len(p) : p[i] = Append(p, n)[i]
    BY <1>1, <2>1
  <2>3. IsPrefix(p, Append(p, n))
    BY <1>1, <2>1, <2>2, PrefixDef
  <2>4. QED
    BY <1>3, <2>3
<1>4. QED
  BY <1>2, <1>3

-----------------------------------------------------------------------------
(* Which request a call of the database belongs to.                        *)

LEMMA CallOf ==
    ASSUME NInv, NEW c \in Calls
    PROVE  /\ call[c].pc \in InLookup =>
                rq[c].pc \in LookPcs /\ call[c].p = rq[c].p
           /\ call[c].pc \in Store!DelPcs =>
                rq[c].pc \in DelOfPcs /\ call[c].p = rq[c].p
           /\ call[c].pc \in Store!MvPcs =>
                /\ rq[c].pc = "rename_mv" /\ call[c].p = rq[c].p
                /\ call[c].q = rq[c].q /\ rq[c].q \in Paths
           /\ call[c].pc \in InLookup \cup Store!DelPcs \cup Store!MvPcs =>
                /\ rq[c].p \in Paths /\ rq[c].h = None /\ rq[c].h2 = None
                /\ rq[c].p \in Targets(rq[c])
                /\ rq[c].q # None => rq[c].q \in Targets(rq[c])
           /\ call[c].pc = "fhandle_get" =>
                /\ rq[c].pc \in Resolving /\ call[c].p = None /\ call[c].q = None
                /\ rq[c].pc \in FirstPcs => call[c].h = rq[c].h
                /\ rq[c].pc \in SecondPcs => call[c].h = rq[c].h2
           /\ call[c].pc # "idle" => Active(c)
<1> USE DEF InLookup, Store!DelPcs, Store!MvPcs
<1>1. /\ rq[c] \in RqState /\ Locals(rq[c]) /\ Slot(rq[c], call[c])
      /\ rq[c].pc \in {"idle", "rename_mv"} \cup Resolving \cup MidPcs \cup PairPcs
                    \cup LookPcs \cup StatPcs \cup DelOfPcs
  BY RequestFacts, PcClasses DEF RqState
<1>2. rq[c].p \in Paths => rq[c].p # None
  BY StoreAssumptions
<1>3. CASE rq[c].pc = "idle"
  BY <1>1, <1>3, AtIdle
<1>4. CASE rq[c].pc = "rename_mv"
  BY <1>1, <1>2, <1>4, AtMv DEF Active, Targets
<1>5. CASE rq[c].pc \in Resolving
  <2>1. rq[c].pc # "idle" /\ ~(rq[c].pc \in FirstPcs /\ rq[c].pc \in SecondPcs)
    BY <1>5 DEF Resolving, FirstPcs, OnePcs, TwoPcs, SecondPcs
  <2>2. /\ call[c].pc \in {"fhandle_get", "done"} /\ call[c].q = None
        /\ call[c].pc = "fhandle_get" => call[c].p = None
              /\ call[c].h = IF rq[c].pc \in FirstPcs THEN rq[c].h ELSE rq[c].h2
    BY <1>1, <1>5 DEF Slot
  <2>3. QED
    BY <1>5, <2>1, <2>2 DEF Active
<1>6. CASE rq[c].pc \in MidPcs \cup PairPcs \cup StatPcs
  BY <1>1, <1>6, NotCalled
<1>7. CASE rq[c].pc \in LookPcs
  <2>1. rq[c].pc # "idle"
    BY <1>7 DEF LookPcs
  <2>2. QED
    BY <1>1, <1>2, <1>7, <2>1, AtLook DEF Active, Targets
<1>8. CASE rq[c].pc \in DelOfPcs
  <2>1. rq[c].pc # "idle"
    BY <1>8 DEF DelOfPcs
  <2>2. QED
    BY <1>1, <1>2, <1>8, <2>1, AtDel DEF Active, Targets
<1>9. QED
  BY <1>1, <1>3, <1>4, <1>5, <1>6, <1>7, <1>8

(* A request that moves or removes a name races with nobody.               *)
LEMMA Alone ==
    ASSUME NInv, Races, PairsApart, NEW c \in Calls, NEW d \in Calls, c # d,
           rq[c].pc \notin RacePcs, Active(c), Active(d)
    PROVE  Apart(rq[c], rq[d]) /\ Apart(rq[d], rq[c])
<1>1. ~Race(rq[c], rq[d])
  BY DEF Races, RacesThere, Race
<1>2. QED
  BY <1>1, ApartSymmetric DEF PairsApart

LEMMA WritersAlone ==
    ASSUME NInv, Races, PairsApart, NEW c \in Calls, NEW d \in Calls, c # d,
           call[c].pc \in Store!DelPcs \cup Store!MvPcs, Active(d)
    PROVE  Apart(rq[c], rq[d]) /\ Apart(rq[d], rq[c])
<1>1. Active(c) /\ rq[c].pc \in DelOfPcs \cup {"rename_mv"}
  BY CallOf DEF Store!DelPcs, Store!MvPcs
<1>2. rq[c].pc \notin RacePcs
  BY <1>1 DEF DelOfPcs, RacePcs
<1>3. QED
  BY <1>1, <1>2, Alone

-----------------------------------------------------------------------------
(* The accesses of the database by what they do to the call and to the two *)
(* maps.                                                                   *)

Reads == UNCHANGED <<fh, fn, issued, retired>>
Ended(c, ok) == call'[c].pc = "done" /\ call'[c].ok = ok

CallFails(c) ==
    /\ Ended(c, FALSE) /\ Reads
    /\ call[c].pc # "mv_get"
    /\ call[c].pc = "del_get" => fh[call[c].p] = None \/ "get" \in Faults
GetsPath(c) ==
    /\ call[c].pc = "fhandle_get" /\ Ended(c, TRUE) /\ Reads
    /\ call'[c].p = fn[call[c].h]
Hits(c) ==
    /\ call[c].pc = "lookup_get" /\ Ended(c, TRUE) /\ Reads
    /\ fh[call[c].p] \in Handles /\ call'[c].h = fh[call[c].p]
Misses(c) ==
    /\ call[c].pc = "lookup_get" /\ call'[c].pc = "lookup_lstat" /\ Reads
    /\ fh[call[c].p] = None \/ "get" \in Faults
Finds(c) ==
    /\ \/ call[c].pc = "mv_get" /\ call'[c].pc = "mv_write"
       \/ call[c].pc = "del_get" /\ call'[c].pc = "del_write"
    /\ fh[call[c].p] \in Handles /\ call'[c].h = fh[call[c].p]
    /\ Reads
Draws(c) ==
    /\ \/ call[c].pc = "lookup_lstat" /\ call'[c].pc = "lookup_write"
       \/ /\ call[c].pc = "mv_get" /\ call'[c].pc = "mv_write_new"
          /\ fh[call[c].p] = None \/ "get" \in Faults
    /\ call'[c].h \in Handles \ issued /\ issued' = issued \cup {call'[c].h}
    /\ UNCHANGED <<fh, fn, retired>>
Records(c) ==
    /\ call[c].pc = "lookup_write" /\ Ended(c, TRUE) /\ call'[c].h = call[c].h
    /\ DB!PutBoth(call[c].p, call[c].h) /\ UNCHANGED <<issued, retired>>
Carries(c) ==
    /\ \/ call[c].pc = "mv_write" /\ call'[c].pc = "mv_cleanup"
       \/ call[c].pc = "mv_write_new" /\ Ended(c, TRUE)
    /\ call'[c].h = call[c].h
    /\ DB!PutBoth(call[c].q, call[c].h) /\ UNCHANGED <<issued, retired>>
Cleans(c) ==
    /\ call[c].pc = "mv_cleanup" /\ Ended(c, TRUE)
    /\ fh' = [fh EXCEPT ![call[c].p] = None] /\ UNCHANGED <<fn, issued, retired>>
Removes(c) ==
    /\ call[c].pc = "del_write" /\ Ended(c, TRUE)
    /\ DB!DelBoth(call[c].p, call[c].h) /\ UNCHANGED issued

AccessStep(c) ==
    /\ \/ CallFails(c) \/ GetsPath(c) \/ Hits(c) \/ Misses(c) \/ Finds(c)
       \/ Draws(c) \/ Records(c) \/ Carries(c) \/ Cleans(c) \/ Removes(c)
    /\ call'[c].q = call[c].q
    /\ call[c].pc # "fhandle_get" => call'[c].p = call[c].p
    /\ \A d \in Calls : d # c => call'[d] = call[d]
    /\ call[c].pc \in {"fhandle_get"} \cup InLookup \cup Store!DelPcs \cup Store!MvPcs

LEMMA AccessKinds ==
    ASSUME NInv, NEW c \in Calls, DbAccess(c)
    PROVE  AccessStep(c)
<1> USE DEF Reads, Ended
<1>1. /\ call'[c].q = call[c].q
      /\ call[c].pc # "fhandle_get" => call'[c].p = call[c].p
      /\ \A d \in Calls : d # c => call'[d] = call[d]
      /\ call[c].pc \in {"fhandle_get"} \cup InLookup \cup Store!DelPcs \cup Store!MvPcs
  BY AccessMoves DEF Moves, InLookup, Store!DelPcs, Store!MvPcs
<1>2. /\ \A p \in Paths : fh[p] # None => fh[p] \in Handles
      /\ call[c].pc \in {"lookup_get", "mv_get", "del_get"} => call[c].p \in Paths
  BY DEF NInv, Store!TypeOK, Store!Busy
<1>3. CASE DB!FhandleGet(c)
  <2>1. CASE DB!Answer(c, fn[call[c].h], call[c].h)
    BY <1>1, <1>3, <2>1, AnswerMoves DEF DB!FhandleGet, GetsPath, AccessStep
  <2>2. CASE DB!Fail(c)
    BY <1>1, <1>3, <2>2, FailMoves DEF DB!FhandleGet, CallFails, AccessStep
  <2>3. QED
    BY <1>3, <2>1, <2>2 DEF DB!FhandleGet
<1>4. CASE DB!LookupGet(c)
  <2>1. CASE DB!GetOk(fh[call[c].p]) /\ DB!Answer(c, call[c].p, fh[call[c].p])
    BY <1>1, <1>2, <1>4, <2>1, AnswerMoves DEF DB!LookupGet, DB!GetOk, Hits, AccessStep
  <2>2. CASE DB!GetErr(fh[call[c].p]) /\ DB!GoOn(c, "lookup_lstat", None)
    BY <1>1, <1>4, <2>2, GoOnMoves DEF DB!LookupGet, DB!GetErr, Misses, AccessStep
  <2>3. QED
    BY <1>4, <2>1, <2>2 DEF DB!LookupGet
<1>5. ASSUME NEW found \in BOOLEAN, DB!LookupLstat(c, found)
      PROVE  AccessStep(c)
  <2>1. ASSUME NEW h \in Handles, DB!Fresh(h), issued' = issued \cup {h},
               DB!GoOn(c, "lookup_write", h)
        PROVE  AccessStep(c)
    BY <1>1, <1>5, <2>1, GoOnMoves DEF DB!LookupLstat, DB!Fresh, Draws, AccessStep
  <2>2. CASE DB!Fail(c) /\ UNCHANGED issued
    BY <1>1, <1>5, <2>2, FailMoves DEF DB!LookupLstat, CallFails, AccessStep
  <2>3. QED
    BY <1>5, <2>1, <2>2 DEF DB!LookupLstat
<1>6. CASE DB!LookupWrite(c)
  <2>1. CASE DB!PutBoth(call[c].p, call[c].h) /\ DB!Answer(c, call[c].p, call[c].h)
    BY <1>1, <1>6, <2>1, AnswerMoves DEF DB!LookupWrite, Records, AccessStep
  <2>2. CASE DB!Fail(c) /\ UNCHANGED DB!db
    BY <1>1, <1>6, <2>2, FailMoves DEF DB!LookupWrite, DB!db, CallFails, AccessStep
  <2>3. QED
    BY <1>6, <2>1, <2>2 DEF DB!LookupWrite
<1>7. CASE DB!MvGet(c)
  <2>1. CASE DB!GetOk(fh[call[c].p]) /\ DB!GoOn(c, "mv_write", fh[call[c].p])
             /\ UNCHANGED issued
    BY <1>1, <1>2, <1>7, <2>1, GoOnMoves DEF DB!MvGet, DB!GetOk, Finds, AccessStep
  <2>2. ASSUME NEW h \in Handles, DB!Fresh(h), issued' = issued \cup {h},
               DB!GoOn(c, "mv_write_new", h), DB!GetErr(fh[call[c].p])
        PROVE  AccessStep(c)
    BY <1>1, <1>7, <2>2, GoOnMoves DEF DB!MvGet, DB!Fresh, DB!GetErr, Draws, AccessStep
  <2>3. QED
    BY <1>7, <2>1, <2>2 DEF DB!MvGet
<1>8. CASE DB!MvWrite(c)
  <2>1. CASE call[c].pc = "mv_write" /\ DB!PutBoth(call[c].q, call[c].h)
             /\ DB!GoOn(c, "mv_cleanup", call[c].h)
    BY <1>1, <1>8, <2>1, GoOnMoves DEF DB!MvWrite, Carries, AccessStep
  <2>2. CASE call[c].pc = "mv_write_new" /\ DB!PutBoth(call[c].q, call[c].h)
             /\ DB!Answer(c, call[c].p, call[c].h)
    BY <1>1, <1>8, <2>2, AnswerMoves DEF DB!MvWrite, Carries, AccessStep
  <2>3. CASE DB!Fail(c) /\ UNCHANGED DB!db
    BY <1>1, <1>8, <2>3, FailMoves DEF DB!MvWrite, DB!db, CallFails, AccessStep
  <2>4. QED
    BY <1>8, <2>1, <2>2, <2>3 DEF DB!MvWrite
<1>9. CASE DB!MvCleanup(c)
  <2>1. CASE /\ fh' = [fh EXCEPT ![call[c].p] = None]
             /\ DB!Answer(c, call[c].p, call[c].h) /\ UNCHANGED <<fn, torn>>
    BY <1>1, <1>9, <2>1, AnswerMoves DEF DB!MvCleanup, Cleans, AccessStep
  <2>2. CASE DB!Fail(c) /\ UNCHANGED DB!db
    BY <1>1, <1>9, <2>2, FailMoves DEF DB!MvCleanup, DB!db, CallFails, AccessStep
  <2>3. QED
    BY <1>9, <2>1, <2>2 DEF DB!MvCleanup
<1>10. CASE DB!DelGet(c)
  <2>1. CASE DB!GetOk(fh[call[c].p]) /\ DB!GoOn(c, "del_write", fh[call[c].p])
    BY <1>1, <1>2, <1>10, <2>1, GoOnMoves DEF DB!DelGet, DB!GetOk, Finds, AccessStep
  <2>2. CASE DB!GetErr(fh[call[c].p]) /\ DB!Fail(c)
    BY <1>1, <1>10, <2>2, FailMoves DEF DB!DelGet, DB!GetErr, CallFails, AccessStep
  <2>3. QED
    BY <1>10, <2>1, <2>2 DEF DB!DelGet
<1>11. CASE DB!DelWrite(c)
  <2>1. CASE DB!DelBoth(call[c].p, call[c].h) /\ DB!Answer(c, call[c].p, call[c].h)
    BY <1>1, <1>11, <2>1, AnswerMoves DEF DB!DelWrite, Removes, AccessStep
  <2>2. CASE DB!Fail(c) /\ UNCHANGED <<fh, fn, retired>>
    BY <1>1, <1>11, <2>2, FailMoves DEF DB!DelWrite, CallFails, AccessStep
  <2>3. QED
    BY <1>11, <2>1, <2>2 DEF DB!DelWrite
<1>12. QED
  BY <1>3, <1>4, <1>5, <1>6, <1>7, <1>8, <1>9, <1>10, <1>11 DEF DbAccess

-----------------------------------------------------------------------------
(* An access leaves the other requests' targets as they are, or takes some *)
(* away: nobody asks about a handle that is being moved, removed or made.  *)

LEMMA NotAsked ==
    ASSUME AInv, NEW c \in Calls, call[c].pc \in FoundPcs \cup FreshPcs,
           NEW d \in Calls
    PROVE  call[c].h \notin {rq[d].h, rq[d].h2}
<1>1. call[c].h \in Handles
  BY DEF AInv, NInv, Store!TypeOK, FoundPcs, FreshPcs
<1>2. CASE call[c].pc \in FreshPcs
  <2>1. call[c].h \notin Known
    BY <1>1, <1>2 DEF AInv, SpokenDrawn, Spoken, Secret
  <2>2. QED
    BY <1>1, <2>1, NamespaceAssumption DEF AInv, Asked
<1>3. CASE call[c].pc \in FoundPcs
  <2>1. /\ call[c].pc \in Store!DelPcs \cup Store!MvPcs
        /\ call[c].p = rq[c].p /\ rq[c].p \in Paths /\ rq[c].p \in Targets(rq[c])
        /\ rq[c].h = None /\ rq[c].h2 = None
    BY <1>3, CallOf DEF AInv, FoundPcs, Store!DelPcs, Store!MvPcs
  <2>2. SUFFICES ASSUME d # c, call[c].h \in {rq[d].h, rq[d].h2}
                 PROVE  FALSE
    BY <1>1, <2>1, NamespaceAssumption
  <2>3. call[c].h # None
    BY <1>1, NamespaceAssumption
  <2>4. rq[c].p \in Entries(call[c].h)
    BY <1>3, <2>1 DEF AInv, FoundStill, Entries
  <2>5. PICK n \in Names \cup {None} :
            (IF n = None THEN rq[c].p ELSE Append(rq[c].p, n)) \in Targets(rq[d])
    <3>1. rq[d].n \in Names \cup {None} /\ rq[d].n2 \in Names \cup {None}
      BY RequestFacts DEF AInv, RqState
    <3>2. CASE call[c].h = rq[d].h
      <4>1. (IF rq[d].n = None THEN rq[c].p ELSE Append(rq[c].p, rq[d].n)) \in Targets(rq[d])
        BY <2>3, <2>4, <3>2 DEF Targets, Named
      <4>2. QED
        BY <3>1, <4>1
    <3>3. CASE call[c].h = rq[d].h2
      <4>1. (IF rq[d].n2 = None THEN rq[c].p ELSE Append(rq[c].p, rq[d].n2))
                \in Targets(rq[d])
        BY <2>3, <2>4, <3>3 DEF Targets, Named
      <4>2. QED
        BY <3>1, <4>1
    <3>4. QED
      BY <2>2, <3>2, <3>3
  <2>6. Active(d)
    <3>1. rq[d].pc = "idle" => rq[d].h = None /\ rq[d].h2 = None
      BY RequestFacts, AtIdle DEF AInv
    <3>2. QED
      BY <2>2, <2>3, <3>1 DEF Active
  <2>7. Apart(rq[c], rq[d])
    BY <2>1, <2>2, <2>6, WritersAlone DEF AInv
  <2>8. QED
    BY <2>1, <2>5, <2>7, JoinedPrefix DEF Apart
<1>4. QED
  BY <1>2, <1>3

(* What an access writes: the maps change at the call's handle and paths.  *)
LEMMA AccessWrites ==
    ASSUME NInv, NEW c \in Calls, AccessStep(c)
    PROVE  /\ \A h \in Handles :
                \/ fn'[h] = fn[h]
                \/ h = call[c].h /\ call[c].pc \in FoundPcs \cup FreshPcs
           /\ \A p \in Paths :
                \/ fh'[p] = fh[p]
                \/ /\ p \in {call[c].p, call[c].q}
                   /\ call[c].pc \in FoundPcs \cup FreshPcs
                   /\ fh'[p] \in {None, call[c].h}
<1>1. fh \in [Paths -> Handles \cup {None}] /\ fn \in [Handles -> Paths \cup {None}]
  BY DEF NInv, Store!TypeOK
<1>2. CASE CallFails(c) \/ GetsPath(c) \/ Hits(c) \/ Misses(c) \/ Finds(c)
  BY <1>2 DEF CallFails, GetsPath, Hits, Misses, Finds, Reads
<1>3. CASE Draws(c)
  BY <1>3 DEF Draws
<1>4. CASE Records(c) \/ Carries(c)
  BY <1>1, <1>4 DEF Records, Carries, DB!PutBoth, FoundPcs, FreshPcs
<1>5. CASE Cleans(c) \/ Removes(c)
  BY <1>1, <1>5 DEF Cleans, Removes, DB!DelBoth, FoundPcs
<1>6. QED
  BY <1>2, <1>3, <1>4, <1>5 DEF AccessStep

LEMMA AccessTargets ==
    ASSUME AInv, NEW c \in Calls, AccessStep(c), rq' = rq, NEW d \in Calls
    PROVE  /\ Targets(rq[d])' \subseteq Targets(rq[d])
           /\ \A h \in {rq[d].h, rq[d].h2} \ {None} : fn'[h] = fn[h]
<1>0. NInv
  BY DEF AInv
<1>1. ASSUME NEW h \in {rq[d].h, rq[d].h2}, h # None
      PROVE  fn'[h] = fn[h] /\ Entries(h)' \subseteq Entries(h)
  <2>1. h \in Handles
    BY <1>0, <1>1, RequestFacts DEF RqState
  <2>2. call[c].pc \in FoundPcs \cup FreshPcs => h # call[c].h
    BY <1>1, NotAsked
  <2>3. fn'[h] = fn[h]
    BY <1>0, <2>1, <2>2, AccessWrites
  <2>4. \A p \in Paths : fh'[p] = h => fh[p] = h
    BY <1>0, <1>1, <2>2, AccessWrites
  <2>5. QED
    BY <2>3, <2>4 DEF Entries
<1>2. ASSUME NEW h \in {rq[d].h, rq[d].h2}, NEW n
      PROVE  Named(h, n)' \subseteq Named(h, n)
  <2>1. CASE h = None
    BY <2>1 DEF Named
  <2>2. CASE h # None
    BY <1>1, <2>2 DEF Named
  <2>3. QED
    BY <2>1, <2>2
<1>3. /\ Named(rq[d].h, rq[d].n)' \subseteq Named(rq[d].h, rq[d].n)
      /\ Named(rq[d].h2, rq[d].n2)' \subseteq Named(rq[d].h2, rq[d].n2)
  BY <1>2 DEF Named, Entries
<1>4. Targets(rq[d])' \subseteq Targets(rq[d])
  BY <1>3 DEF Targets
<1>5. QED
  BY <1>1, <1>4

LEMMA AccessPairs ==
    ASSUME AInv, NEW c \in Calls, AccessStep(c), rq' = rq
    PROVE  PairsApart'
<1> SUFFICES ASSUME NEW a \in Calls, NEW b \in Calls, a # b, Active(a)', Active(b)'
             PROVE  Apart(rq[a], rq[b])' \/ Race(rq[a], rq[b])'
  BY DEF PairsApart
<1>1. Active(a) /\ Active(b)
  BY DEF Active
<1>2. CASE Race(rq[a], rq[b])
  BY <1>2 DEF Race
<1>3. CASE Apart(rq[a], rq[b])
  <2>1. \A x \in Targets(rq[a])', y \in Targets(rq[b])' : ~IsPrefix(x, y) /\ ~IsPrefix(y, x)
    BY <1>3, AccessTargets DEF Apart
  <2>2. QED
    BY <2>1 DEF Apart
<1>4. QED
  BY <1>1, <1>2, <1>3 DEF AInv, PairsApart

LEMMA AccessResolved ==
    ASSUME AInv, NEW c \in Calls, AccessStep(c), rq' = rq
    PROVE  Resolved'
<1> SUFFICES ASSUME NEW d \in Calls, call'[d].pc = "done", call'[d].ok
             PROVE  /\ rq[d].pc \in FirstPcs => call'[d].p = fn'[rq[d].h]
                    /\ rq[d].pc \in SecondPcs => call'[d].p = fn'[rq[d].h2]
  BY DEF Resolved
<1>1. /\ rq[d].pc \in FirstPcs => rq[d].h # None /\ fn'[rq[d].h] = fn[rq[d].h]
      /\ rq[d].pc \in SecondPcs => rq[d].h2 # None /\ fn'[rq[d].h2] = fn[rq[d].h2]
  <2>1. /\ rq[d].pc \in FirstPcs => rq[d].h # None
        /\ rq[d].pc \in SecondPcs => rq[d].h2 # None
    BY RequestFacts, NamespaceAssumption DEF AInv, Locals
  <2>2. QED
    BY <2>1, AccessTargets
<1>2. CASE d # c
  <2>1. call'[d] = call[d]
    BY <1>2 DEF AccessStep
  <2>2. QED
    BY <1>1, <2>1 DEF AInv, Resolved
<1>3. CASE d = c
  <2>1. SUFFICES ASSUME rq[c].pc \in Resolving
                 PROVE  /\ rq[c].pc \in FirstPcs => call'[c].p = fn'[rq[c].h]
                        /\ rq[c].pc \in SecondPcs => call'[c].p = fn'[rq[c].h2]
    BY <1>3 DEF Resolving
  <2>2. call[c].pc = "fhandle_get"
    <3>1. call[c].pc \in {"fhandle_get", "done"}
      BY <2>1, RequestFacts DEF AInv, Slot
    <3>2. QED
      BY <3>1 DEF AccessStep, InLookup, Store!DelPcs, Store!MvPcs
  <2>3. GetsPath(c)
    BY <1>3, <2>2 DEF AccessStep, CallFails, Hits, Misses, Finds, Draws, Records, Carries,
       Cleans, Removes, Ended
  <2>4. /\ rq[c].pc \in FirstPcs => call[c].h = rq[c].h
        /\ rq[c].pc \in SecondPcs => call[c].h = rq[c].h2
    BY <2>2, CallOf DEF AInv
  <2>5. call'[c].p = fn[call[c].h] /\ fn' = fn
    BY <2>3 DEF GetsPath, Reads
  <2>6. QED
    BY <2>4, <2>5
<1>4. QED
  BY <1>2, <1>3

(* The paths that calls on the same files would share. *)
LEMMA OtherPaths ==
    ASSUME AInv, NEW c \in Calls, NEW d \in Calls, c # d,
           call[c].pc \in InLookup \cup Store!DelPcs \cup Store!MvPcs,
           call[d].pc \in InLookup \cup Store!DelPcs \cup Store!MvPcs,
           Apart(rq[c], rq[d])
    PROVE  {call[c].p, call[c].q} \cap {call[d].p, call[d].q} \subseteq {None}
<1>1. /\ {call[c].p, call[c].q} \ {None} \subseteq Targets(rq[c])
      /\ {call[d].p, call[d].q} \ {None} \subseteq Targets(rq[d])
      /\ {call[c].p, call[c].q} \ {None} \subseteq Paths
  <2>1. ASSUME NEW e \in Calls, call[e].pc \in InLookup \cup Store!DelPcs \cup Store!MvPcs
        PROVE  /\ call[e].p = rq[e].p /\ call[e].q = rq[e].q /\ rq[e].p \in Paths
               /\ rq[e].q \in Paths \cup {None} /\ rq[e].p \in Targets(rq[e])
               /\ rq[e].q # None => rq[e].q \in Targets(rq[e])
    <3>1. NInv
      BY DEF AInv
    <3>2. rq[e].pc \in LookPcs \cup DelOfPcs => call[e].q = None /\ rq[e].q = None
      BY <3>1, RequestFacts, AtLook, AtDel
    <3>3. QED
      BY <2>1, <3>1, <3>2, CallOf
  <2>2. QED
    BY <2>1
<1>2. Paths \subseteq AllPaths
  BY PathsLong DEF AllPaths
<1>3. QED
  BY <1>1, <1>2, ApartDiffer

LEMMA AccessFound ==
    ASSUME AInv, NEW c \in Calls, AccessStep(c)
    PROVE  FoundStill'
<1> SUFFICES ASSUME NEW d \in Calls, call'[d].pc \in FoundPcs
             PROVE  fh'[call'[d].p] = call'[d].h
  BY DEF FoundStill
<1>0. NInv /\ fh \in [Paths -> Handles \cup {None}]
  BY DEF AInv, NInv, Store!TypeOK
<1>1. CASE d # c
  <2>1. call'[d] = call[d] /\ fh[call[d].p] = call[d].h
    BY <1>1 DEF AccessStep, AInv, FoundStill
  <2>2. call[d].pc \in Store!DelPcs \cup Store!MvPcs
    BY <2>1 DEF FoundPcs, Store!DelPcs, Store!MvPcs
  <2>3. call[d].p \in Paths /\ Active(d)
    BY <1>0, <2>2, CallOf DEF Store!DelPcs, Store!MvPcs
  <2>4. fh'[call[d].p] = fh[call[d].p]
    <3>1. SUFFICES ASSUME call[c].pc \in FoundPcs \cup FreshPcs
                   PROVE  call[d].p \notin {call[c].p, call[c].q}
      BY <1>0, <2>3, AccessWrites
    <3>2. call[c].pc \in InLookup \cup Store!DelPcs \cup Store!MvPcs
      BY <3>1 DEF FoundPcs, FreshPcs, InLookup, Store!DelPcs, Store!MvPcs
    <3>3. Active(c)
      BY <1>0, <3>2, CallOf DEF InLookup, Store!DelPcs, Store!MvPcs
    <3>4. Apart(rq[c], rq[d])
      BY <1>1, <2>2, <3>3, WritersAlone DEF AInv
    <3>5. call[d].p # None
      BY <2>3, StoreAssumptions
    <3>6. QED
      BY <1>1, <2>2, <3>2, <3>4, <3>5, OtherPaths
  <2>5. QED
    BY <2>1, <2>4
<1>2. CASE d = c
  <2>1. CASE Finds(c)
    BY <1>2, <2>1 DEF Finds, Reads, AccessStep
  <2>2. CASE Carries(c) /\ call[c].pc = "mv_write" /\ call'[c].pc = "mv_cleanup"
    <3>1. /\ fh[call[c].p] = call[c].h /\ call'[c].h = call[c].h /\ call'[c].p = call[c].p
          /\ fh' = [fh EXCEPT ![call[c].q] = call[c].h]
      BY <2>2 DEF Carries, DB!PutBoth, AInv, FoundStill, FoundPcs, AccessStep
    <3>2. call[c].p \in Paths /\ call[c].q \in Paths
      BY <1>0, <2>2, CallOf DEF Store!MvPcs
    <3>3. QED
      BY <1>0, <1>2, <3>1, <3>2
  <2>3. QED
    BY <1>2, <2>1, <2>2
       DEF AccessStep, CallFails, GetsPath, Hits, Misses, Draws, Records, Carries, Cleans,
           Removes, Ended, FoundPcs
<1>3. QED
  BY <1>1, <1>2

LEMMA AccessSpoken ==
    ASSUME AInv, NEW c \in Calls, AccessStep(c), rq' = rq, given' = given
    PROVE  SpokenDrawn'
<1> SUFFICES ASSUME NEW h \in Handles, Spoken(h)'
             PROVE  h \in issued' /\ ~Secret(h)'
  BY DEF SpokenDrawn
<1>0. /\ h # None /\ fh \in [Paths -> Handles \cup {None}]
      /\ \A d \in Calls : d # c => call'[d] = call[d]
  BY NamespaceAssumption DEF AInv, NInv, Store!TypeOK, AccessStep
<1>1. Known' = Known
  BY DEF Known
<1>2. \/ Spoken(h)
      \/ /\ call'[c].pc = "done" /\ call'[c].ok /\ call'[c].h = h
         /\ rq[c].pc \in LookPcs
  BY <1>0, <1>1 DEF Spoken, Offered, LookPcs
<1>3. issued \subseteq issued'
  BY DEF AccessStep, CallFails, GetsPath, Hits, Misses, Finds, Draws, Records, Carries,
         Cleans, Removes, Reads
<1>4. CASE Spoken(h)
  <2>1. h \in issued /\ ~Secret(h)
    BY <1>4 DEF AInv, SpokenDrawn
  <2>2. call'[c].pc \in FreshPcs /\ call'[c].h = h => FALSE
    BY <2>1 DEF AccessStep, CallFails, GetsPath, Hits, Misses, Finds, Draws, Records, Carries,
         Cleans, Removes, Ended, FreshPcs
  <2>3. QED
    BY <1>0, <1>3, <2>1, <2>2 DEF Secret
<1>5. CASE ~Spoken(h)
  <2>1. /\ call'[c].pc = "done" /\ call'[c].ok /\ call'[c].h = h
        /\ rq[c].pc \in LookPcs
    BY <1>2, <1>5
  <2>2. call[c].pc \in InLookup
    <3>1. call[c].pc \in {"lookup_get", "lookup_lstat", "lookup_write", "done"}
      BY <2>1, RequestFacts, AtLook DEF AInv
    <3>2. QED
      BY <3>1 DEF AccessStep, InLookup, Store!DelPcs, Store!MvPcs
  <2>3. Hits(c) \/ Records(c)
    BY <2>1, <2>2 DEF AccessStep, CallFails, GetsPath, Misses, Finds, Draws, Carries,
       Cleans, Removes, Ended, InLookup
  <2>4. h \in issued /\ \A d \in Calls : d # c /\ call[d].pc \in FreshPcs => call[d].h # h
    <3>1. CASE Hits(c)
      <4>1. call[c].p \in Paths /\ h = fh[call[c].p]
        BY <2>1, <2>2, <3>1, CallOf DEF Hits, AInv
      <4>2. QED
        BY <1>0, <4>1 DEF AInv, Store!IInv, Store!AllIssued, Store!FreshHeld, FreshPcs
    <3>2. CASE Records(c)
      <4>1. call[c].pc = "lookup_write" /\ h = call[c].h
        BY <2>1, <3>2 DEF Records
      <4>2. Store!Holds(c)
        BY <4>1 DEF Store!Holds, Store!HoldPcs
      <4>3. QED
        BY <4>1, <4>2 DEF AInv, Store!IInv, Store!AllIssued, Store!FreshHeld, FreshPcs
    <3>3. QED
      BY <2>3, <3>1, <3>2
  <2>5. QED
    BY <1>0, <1>3, <2>1, <2>4 DEF Secret, FreshPcs
<1>6. QED
  BY <1>4, <1>5

LEMMA AccessApart ==
    ASSUME AInv, NEW c \in Calls, Access(c)
    PROVE  AInv'
<1>0. NInv
  BY DEF AInv
<1>1. DbAccess(c) /\ UNCHANGED <<tree, kind, rq, given, displaced, dropped>>
  BY AccessIs DEF fsvars, hist
<1>2. AccessStep(c)
  BY <1>0, <1>1, AccessKinds
<1>3. NInv'
  BY <1>0, AccessKeeps
<1>4. Store!IInv'
  <2>1. Store!Step(c) /\ Store!Disciplined /\ Store!IInv
    BY <1>1, SameAccess DEF Store!Disciplined, AInv
  <2>2. [Store!Next]_Store!vars
    BY <2>1 DEF Store!Next
  <2>3. QED
    BY <2>1, <2>2, StoreAssumptions, Store!InvNext
<1>5. Races' /\ MadeThere' /\ WonAlone' /\ Asked'
  BY <1>1 DEF AInv, Races, RacesThere, MadeThere, WonAlone, Holding, Exists, Asked, Known
<1>6. PairsApart' /\ Resolved' /\ FoundStill' /\ SpokenDrawn'
  BY <1>1, <1>2, AccessPairs, AccessResolved, AccessFound, AccessSpoken
<1>7. QED
  BY <1>3, <1>4, <1>5, <1>6 DEF AInv

-----------------------------------------------------------------------------
(* What the ten kinds of handlers have in common.                          *)

StartPcs == {"idle", "fhandle_get", "lookup_get", "del_get", "mv_get"}

LEMMA HandlerCalls ==
    ASSUME NInv, NEW c \in Calls, HandlerStep(c)
    PROVE  /\ Only(c) /\ Active(c)
           /\ call[c].pc \in {"idle", "done"} /\ call'[c].pc \in StartPcs
<1> USE DEF StartPcs, Active
<1>1. CASE Ends(c)
  BY <1>1 DEF Ends
<1>2. CASE Goes(c)
  BY <1>2, NotCalled DEF Goes, Keeps
<1>3. CASE Joins(c)
  BY <1>3 DEF Joins, OnePcs
<1>4. CASE JoinsFirst(c) \/ JoinsSecond(c)
  BY <1>4 DEF JoinsFirst, JoinsSecond, TwoPcs, SecondPcs, Store!Idle
<1>5. CASE Looks(c) \/ Takes(c) \/ Deletes(c) \/ Renamed(c)
  BY <1>5 DEF Looks, Takes, Deletes, Renamed, Keeps, Store!Idle, MidPcs, LookPcs
<1>6. CASE Linked(c)
  BY <1>6, NotCalled DEF Linked, Keeps, PairPcs
<1>7. QED
  BY <1>1, <1>2, <1>3, <1>4, <1>5, <1>6 DEF HandlerStep

(* A handler makes no new targets. *)
LEMMA HandlerTargets ==
    ASSUME AInv, NEW c \in Calls, HandlerStep(c), rq'[c].pc # "idle"
    PROVE  /\ Targets(rq[c])' \subseteq Targets(rq[c])
           /\ rq[c].how = "EXCLUSIVE" => rq'[c].how = "EXCLUSIVE"
           /\ {rq'[c].h, rq'[c].h2} \subseteq {rq[c].h, rq[c].h2, None}
<1>0. /\ NInv /\ Only(c) /\ RacesThere(rq[c]) /\ Locals(rq[c])
      /\ Slot(rq[c], call[c]) /\ UNCHANGED <<fh, fn>>
  BY HandlerCalls, RequestFacts DEF AInv, Races, Only
<1>1. Targets(rq[c])' = Named(rq'[c].h, rq'[c].n) \cup Named(rq'[c].h2, rq'[c].n2)
                        \cup ({rq'[c].p, rq'[c].q} \ {None})
  BY <1>0 DEF Targets, Named, Entries
<1>2. \A n : Named(None, n) = {}
  BY DEF Named
<1>3. CASE Ends(c)
  <2>1. Idle.pc = "idle"
    BY DEF Idle
  <2>2. QED
    BY <1>3, <2>1 DEF Ends
<1>4. CASE Goes(c) \/ Looks(c) \/ Takes(c) \/ Deletes(c) \/ Renamed(c) \/ Linked(c)
  <2>1. Keeps(c)
    BY <1>4 DEF Goes, Looks, Takes, Deletes, Renamed, Linked
  <2>2. rq[c].pc \notin FirstPcs \cup TwoPcs \cup SecondPcs
    BY <1>4 DEF Goes, Looks, Takes, Deletes, Renamed, Linked, MidPcs, LookPcs, FirstPcs,
                OnePcs, TwoPcs, SecondPcs
  <2>3. rq[c].h = None /\ rq[c].h2 = None
    BY <1>0, <2>2 DEF Locals
  <2>4. QED
    BY <1>1, <1>2, <2>1, <2>3 DEF Keeps, Targets
<1>5. CASE Joins(c)
  <2>1. /\ rq[c].h \in Handles /\ rq[c].n \in Names /\ call[c].p \in Paths
    BY <1>0, <1>5, AtOne DEF Joins
  <2>2. call[c].p = fn[rq[c].h]
    BY <1>5 DEF Joins, AInv, Resolved, FirstPcs
  <2>3. rq'[c].p \in Named(rq[c].h, rq[c].n)
    BY <1>5, <2>1, <2>2, NamespaceAssumption, FileSystemAssumption
       DEF Joins, Named, Entries
  <2>4. QED
    BY <1>1, <1>2, <1>5, <2>3 DEF Joins, Targets
<1>6. CASE JoinsFirst(c)
  <2>1. rq[c].h \in Handles /\ call[c].p \in Paths
    BY <1>0, <1>6, AtTwo DEF JoinsFirst
  <2>2. call[c].p = fn[rq[c].h]
    BY <1>6 DEF JoinsFirst, AInv, Resolved, FirstPcs
  <2>3. rq'[c].p \in Named(rq[c].h, rq[c].n)
    BY <1>6, <2>1, <2>2, NamespaceAssumption DEF JoinsFirst, Named, Entries
  <2>4. rq[c].how # "EXCLUSIVE"
    BY <1>0, <1>6 DEF JoinsFirst, RacesThere, RacePcs, TwoPcs
  <2>5. QED
    BY <1>1, <1>2, <1>6, <2>3, <2>4 DEF JoinsFirst, Targets
<1>7. CASE JoinsSecond(c)
  <2>1. rq[c].h2 \in Handles /\ rq[c].n2 \in Names /\ call[c].p \in Paths /\ rq[c].h = None
    BY <1>0, <1>7, AtSecond DEF JoinsSecond
  <2>2. call[c].p = fn[rq[c].h2]
    BY <1>7 DEF JoinsSecond, AInv, Resolved
  <2>3. rq'[c].q \in Named(rq[c].h2, rq[c].n2)
    BY <1>7, <2>1, <2>2, NamespaceAssumption, FileSystemAssumption
       DEF JoinsSecond, Named, Entries
  <2>4. rq[c].how # "EXCLUSIVE"
    BY <1>0, <1>7 DEF JoinsSecond, RacesThere, RacePcs, SecondPcs
  <2>5. QED
    BY <1>1, <1>2, <1>7, <2>3, <2>4 DEF JoinsSecond, Targets
<1>8. QED
  BY <1>3, <1>4, <1>5, <1>6, <1>7 DEF HandlerStep

(* The tree changes at and below the request's own paths only.             *)
LEMMA HandlerTree ==
    ASSUME NInv, NEW c \in Calls, HandlerStep(c), NEW s \in Paths, tree'[s] # tree[s]
    PROVE  \E a \in {rq[c].p, rq[c].q} : a \in Paths /\ IsPrefix(a, s)
<1>1. tree \in [Paths -> Inodes \cup {None}]
  BY DEF NInv, TreeOK, TreeTypeOK
<1>2. s \in Seq(Names) /\ IsPrefix(s, s)
  BY PathsDef, PrefixSelf
<1>3. CASE Ends(c) \/ Goes(c) \/ Joins(c) \/ JoinsFirst(c) \/ JoinsSecond(c) \/ Takes(c)
  BY <1>3 DEF Ends, Goes, Joins, JoinsFirst, JoinsSecond, Takes, fsvars
<1>4. CASE Looks(c) \/ Deletes(c) \/ Linked(c)
  BY <1>1, <1>2, <1>4 DEF Looks, Deletes, Linked, Make, Drop, Link, LinkOk, HasParent, fsvars
<1>5. CASE Renamed(c)
  <2>1. /\ RenameOk(rq[c].p, rq[c].q) /\ Rename(rq[c].p, rq[c].q)
    BY <1>5 DEF Renamed
  <2>2. rq[c].p \in Paths /\ rq[c].q \in Paths
    BY <2>1 DEF RenameOk, Exists, HasParent
  <2>3. IsPrefix(rq[c].q, s) \/ IsPrefix(rq[c].p, s)
    BY <2>1 DEF Rename
  <2>4. QED
    BY <2>2, <2>3
<1>6. QED
  BY <1>3, <1>4, <1>5 DEF HandlerStep

LEMMA HandlerOwnPaths ==
    ASSUME NInv, NEW c \in Calls, NEW a \in {rq[c].p, rq[c].q}, a \in Paths
    PROVE  a \in Targets(rq[c])
BY StoreAssumptions DEF Targets

(* Exclusive creates only add to it. *)
LEMMA RacersAdd ==
    ASSUME NInv, NEW c \in Calls, HandlerStep(c), rq[c].how = "EXCLUSIVE",
           RacesThere(rq[c]), NEW s \in Paths, tree[s] # None
    PROVE  tree'[s] = tree[s]
<1>1. rq[c].pc \in RacePcs
  BY DEF RacesThere
<1>2. tree \in [Paths -> Inodes \cup {None}]
  BY DEF NInv, TreeOK, TreeTypeOK
<1>3. CASE Ends(c) \/ Goes(c) \/ Joins(c) \/ JoinsFirst(c) \/ JoinsSecond(c) \/ Takes(c)
  BY <1>3 DEF Ends, Goes, Joins, JoinsFirst, JoinsSecond, Takes, fsvars
<1>4. CASE Looks(c)
  BY <1>2, <1>4 DEF Looks, MakeOk, Make, Exists, fsvars
<1>5. CASE Deletes(c) \/ Renamed(c) \/ Linked(c)
  BY <1>1, <1>5 DEF Deletes, Renamed, Linked, RacePcs
<1>6. QED
  BY <1>3, <1>4, <1>5 DEF HandlerStep

(* What another request has a handle for, or is about to have, is left.    *)
LEMMA HeldStays ==
    ASSUME AInv, NEW c \in Calls, HandlerStep(c), NEW d \in Calls, d # c,
           Holding(rq[d])
    PROVE  /\ rq[d].p \in Paths /\ tree'[rq[d].p] = tree[rq[d].p]
           /\ tree[rq[d].p] # None
<1>0. NInv /\ RacesThere(rq[c]) /\ Active(c)
  BY HandlerCalls DEF AInv, Races
<1>1. rq[d].p \in Paths /\ Active(d)
  BY <1>0, RequestFacts, AtLook, AtStat DEF Holding, Active, LookPcs, StatPcs
<1>2. Exists(rq[d].p) /\ rq[d].p \in Targets(rq[d])
  BY <1>0, <1>1, HandlerOwnPaths DEF AInv, MadeThere
<1>3. CASE Race(rq[c], rq[d])
  BY <1>0, <1>1, <1>2, <1>3, RacersAdd DEF Race, Exists
<1>4. CASE Apart(rq[c], rq[d])
  <2>1. \A a \in {rq[c].p, rq[c].q} : a \in Paths => ~IsPrefix(a, rq[d].p)
    BY <1>0, <1>2, <1>4, HandlerOwnPaths DEF Apart
  <2>2. QED
    BY <1>0, <1>1, <1>2, <2>1, HandlerTree DEF Exists
<1>5. QED
  BY <1>0, <1>1, <1>3, <1>4 DEF AInv, PairsApart

LEMMA HandlerPairs ==
    ASSUME AInv, NEW c \in Calls, HandlerStep(c)
    PROVE  PairsApart'
<1>0. Only(c) /\ Active(c) /\ UNCHANGED <<fh, fn>>
  BY HandlerCalls DEF AInv, Only
<1>1. ASSUME NEW d \in Calls, Active(d)'
      PROVE  /\ Active(d) /\ Targets(rq[d])' \subseteq Targets(rq[d])
             /\ rq[d].how = "EXCLUSIVE" => rq'[d].how = "EXCLUSIVE"
  <2>1. CASE d = c
    BY <1>0, <1>1, <2>1, HandlerTargets DEF Active
  <2>2. CASE d # c
    <3>1. rq'[d] = rq[d]
      BY <1>0, <2>2 DEF Only
    <3>2. Targets(rq[d])' = Targets(rq[d])
      BY <1>0, <3>1 DEF Targets, Named, Entries
    <3>3. QED
      BY <1>1, <3>1, <3>2 DEF Active
  <2>3. QED
    BY <2>1, <2>2
<1> SUFFICES ASSUME NEW a \in Calls, NEW b \in Calls, a # b, Active(a)', Active(b)'
             PROVE  Apart(rq[a], rq[b])' \/ Race(rq[a], rq[b])'
  BY DEF PairsApart
<1>2. Apart(rq[a], rq[b]) \/ Race(rq[a], rq[b])
  BY <1>1 DEF AInv, PairsApart
<1>3. CASE Race(rq[a], rq[b])
  BY <1>1, <1>3 DEF Race
<1>4. CASE Apart(rq[a], rq[b])
  <2>1. \A x \in Targets(rq[a])', y \in Targets(rq[b])' : ~IsPrefix(x, y) /\ ~IsPrefix(y, x)
    BY <1>1, <1>4 DEF Apart
  <2>2. QED
    BY <2>1 DEF Apart
<1>5. QED
  BY <1>2, <1>3, <1>4

LEMMA HandlerMade ==
    ASSUME AInv, NEW c \in Calls, HandlerStep(c)
    PROVE  MadeThere' /\ WonAlone'
<1>0. NInv /\ Only(c) /\ RacesThere(rq[c]) /\ Active(c)
  BY HandlerCalls DEF AInv, Races
<1>1. ASSUME NEW d \in Calls, d # c, Holding(rq[d])'
      PROVE  Holding(rq[d]) /\ rq'[d] = rq[d] /\ Exists(rq[d].p)'
  <2>1. rq'[d] = rq[d] /\ Holding(rq[d])
    BY <1>0, <1>1 DEF Only, Holding
  <2>2. QED
    BY <1>1, <2>1, HeldStays DEF Exists
<1>2. ASSUME Holding(rq[c])'
      PROVE  /\ Looks(c) \/ Takes(c)
             /\ rq'[c].p = rq[c].p /\ Exists(rq[c].p)'
  <2>1. Looks(c) \/ Takes(c)
    <3>1. Holding(rq'[c])
      BY <1>2 DEF Holding
    <3>2. ~Holding(Idle)
      BY DEF Holding, Idle, LookPcs, StatPcs
    <3>3. QED
      BY <3>1, <3>2 DEF HandlerStep, Ends, Goes, Joins, JoinsFirst, JoinsSecond, Deletes,
         Renamed, Linked, Holding, LookPcs, StatPcs, MidPcs, SecondPcs, DelOfPcs
  <2>2. CASE Looks(c)
    <3>1. rq'[c].p = rq[c].p
      BY <2>2 DEF Looks, Keeps
    <3>2. Exists(rq[c].p)'
      BY <1>0, <2>2, <3>1, TreeMake DEF Looks, NInv, Exists, fsvars
    <3>3. QED
      BY <2>1, <3>1, <3>2
  <2>3. CASE Takes(c)
    <3>1. rq'[c].p = rq[c].p /\ Holding(rq[c]) /\ UNCHANGED fsvars
      BY <2>3 DEF Takes, Keeps, Holding
    <3>2. QED
      BY <2>1, <3>1 DEF AInv, MadeThere, Exists, fsvars
  <2>4. QED
    BY <2>1, <2>2, <2>3
<1>3. MadeThere'
  BY <1>1, <1>2 DEF MadeThere, Exists
<1>4. ASSUME NEW d \in Calls, d # c, Holding(rq[c])', Holding(rq[d])'
      PROVE  rq'[c].p # rq'[d].p
  <2>1. /\ Holding(rq[d]) /\ rq'[d] = rq[d] /\ rq'[c].p = rq[c].p
        /\ Exists(rq[d].p)
    BY <1>1, <1>2, <1>4 DEF AInv, MadeThere
  <2>2. CASE Takes(c)
    BY <1>4, <2>1, <2>2 DEF Takes, Holding, AInv, WonAlone
  <2>3. CASE Looks(c)
    <3>1. rq[c].p \in Paths /\ Active(d)
      BY <2>1, <2>3 DEF Looks, Holding, Active, LookPcs, StatPcs
    <3>2. CASE Apart(rq[c], rq[d])
      <4>1. rq[c].p \in Targets(rq[c]) /\ rq[c].p \in AllPaths
        BY <1>0, <3>1, HandlerOwnPaths, PathsLong DEF AllPaths
      <4>2. rq[d].p \in Targets(rq[d])
        BY <1>0, <2>1, HandlerOwnPaths DEF Exists
      <4>3. QED
        BY <2>1, <3>2, <4>1, <4>2, ApartDiffer
    <3>3. CASE Race(rq[c], rq[d])
      <4>1. rq[c].pc \in RacePcs
        BY <1>0, <3>3 DEF Race, RacesThere
      <4>2. MakeOk(rq[c].p)
        BY <2>3, <4>1 DEF Looks
      <4>3. QED
        BY <2>1, <4>2 DEF MakeOk
    <3>4. QED
      BY <1>0, <1>4, <3>1, <3>2, <3>3 DEF AInv, PairsApart
  <2>4. QED
    BY <1>2, <1>4, <2>2, <2>3
<1>5. WonAlone'
  <2> SUFFICES ASSUME NEW a \in Calls, NEW b \in Calls, a # b,
                      Holding(rq[a])', Holding(rq[b])'
               PROVE  rq'[a].p # rq'[b].p
    BY DEF WonAlone, Holding
  <2>1. CASE a = c \/ b = c
    BY <1>4, <2>1
  <2>2. CASE a # c /\ b # c
    BY <1>1, <2>2 DEF AInv, WonAlone
  <2>3. QED
    BY <2>1, <2>2
<1>6. QED
  BY <1>3, <1>5

(* Calls that move or remove, of requests that are apart, share no path.   *)
LEMMA NoClash == NInv /\ Races /\ PairsApart => Store!SourcesExclusive
<1> SUFFICES ASSUME NInv, Races, PairsApart, NEW c \in Calls, NEW d \in Calls, c # d,
                    Store!SourceClash(call[c], call[d])
             PROVE  FALSE
  BY DEF Store!SourcesExclusive
<1>1. /\ call[c].pc \in Store!DelPcs \cup Store!MvPcs
      /\ call[d].pc \in Store!DelPcs \cup Store!MvPcs
      /\ call[c].p = call[d].p
  BY DEF Store!SourceClash, Store!IsMv, Store!IsDel
<1>2. /\ rq[c].p \in Paths /\ rq[c].p = call[c].p /\ rq[c].p \in Targets(rq[c])
      /\ rq[d].p = call[d].p /\ rq[d].p \in Targets(rq[d]) /\ Active(d)
  BY <1>1, CallOf DEF Store!DelPcs, Store!MvPcs
<1>3. Apart(rq[c], rq[d])
  BY <1>1, <1>2, WritersAlone
<1>4. QED
  BY <1>1, <1>2, <1>3, ApartDiffer, PathsLong DEF AllPaths

LEMMA HandlerStore ==
    ASSUME AInv, NEW c \in Calls, HandlerStep(c), Store!TypeOK', Store!SourcesExclusive'
    PROVE  Store!IInv'
<1>1. /\ \A d \in Calls : d # c => call'[d] = call[d]
      /\ UNCHANGED <<fh, fn, issued, retired, torn>>
      /\ call[c].pc \in {"idle", "done"} /\ call'[c].pc \in StartPcs
  BY HandlerCalls DEF Only, AInv
<1>2. \A d \in Calls : d # c => /\ ~Store!SourceClash(call'[c], call[d])
                               /\ ~Store!SourceClash(call[d], call'[c])
  <2>1. \A d \in Calls : d # c => /\ ~Store!SourceClash(call'[c], call'[d])
                                 /\ ~Store!SourceClash(call'[d], call'[c])
    BY DEF Store!SourcesExclusive, Store!SourceClash, Store!IsMv, Store!IsDel
  <2>2. QED
    BY <1>1, <2>1
<1>3. Store!HoldsWell(c, call'[c])
  BY <1>1, <1>2 DEF Store!HoldsWell, Store!HoldPcs, StartPcs
<1>4. QED
  BY <1>1, <1>3, Store!CallOnly, StoreAssumptions DEF AInv, Store!HoldPcs, StartPcs

LEMMA HandlerSpoken ==
    ASSUME AInv, NInv', NEW c \in Calls, HandlerStep(c)
    PROVE  SpokenDrawn' /\ Known \subseteq Known'
<1>0. Only(c) /\ call'[c].pc \in StartPcs /\ Locals(rq[c]) /\ Slot(rq[c], call[c])
  BY HandlerCalls, RequestFacts DEF AInv
<1>1. given \in [Handles -> [p : Paths, i : Inodes \cup {None}] \cup {None}]
  BY DEF AInv, NInv, HistOK
<1>2. \/ UNCHANGED given
      \/ Ends(c) /\ Offered(c) # None /\ Give(Offered(c), rq[c].p)
  BY DEF HandlerStep, Ends, Goes, Joins, JoinsFirst, JoinsSecond, Looks, Takes, Deletes,
         Renamed, Linked, hist
<1>3. Known \subseteq Known' /\ Known' \subseteq Known \cup {Offered(c)}
  <2>1. CASE UNCHANGED given
    BY <2>1 DEF Known
  <2>2. CASE Give(Offered(c), rq[c].p)
    <3>1. \A h \in Handles : given[h] # None => given'[h] # None
      BY <1>1, <2>2 DEF Give
    <3>2. \A h \in Handles : h # Offered(c) => given'[h] = given[h]
      BY <1>1, <2>2 DEF Give
    <3>3. QED
      BY <3>1, <3>2 DEF Known
  <2>3. QED
    BY <1>2, <2>1, <2>2
<1>4. ASSUME NEW h \in Handles, Offered(c)' = h
      PROVE  Offered(c) = h
  <2>1. h # None /\ Idle.pc = "idle"
    BY NamespaceAssumption DEF Idle
  <2>2. rq'[c].obj = h
    BY <1>0, <1>4, <2>1 DEF Offered, StartPcs
  <2>3. rq'[c].pc \in StatPcs
    BY <2>1, <2>2 DEF NInv, Slots, Locals
  <2>4. Takes(c)
    BY <2>1, <2>3 DEF HandlerStep, Ends, Goes, Joins, JoinsFirst, JoinsSecond, Looks, Deletes,
       Renamed, Linked, StatPcs, MidPcs, SecondPcs, LookPcs, DelOfPcs
  <2>5. rq[c].obj = None
    BY <1>0, <2>4, AtLook DEF Takes
  <2>6. QED
    BY <2>2, <2>4, <2>5 DEF Takes, Offered, LookPcs
<1>5. ASSUME NEW h \in Handles, Spoken(h)'
      PROVE  Spoken(h)
  <2>1. \A d \in Calls : d # c => (Offered(d)' = Offered(d))
    BY <1>0 DEF Only, Offered
  <2>2. QED
    BY <1>3, <1>4, <1>5, <2>1 DEF Spoken
<1>6. ASSUME NEW h \in Handles, Secret(h)'
      PROVE  Secret(h)
  <2>1. PICK d \in Calls : call'[d].pc \in FreshPcs /\ call'[d].h = h
    BY <1>6 DEF Secret
  <2>2. d # c
    BY <1>0, <2>1 DEF StartPcs, FreshPcs
  <2>3. QED
    BY <1>0, <2>1, <2>2 DEF Only, Secret
<1>7. QED
  BY <1>0, <1>3, <1>5, <1>6 DEF AInv, SpokenDrawn, Only

LEMMA HandlerApart ==
    ASSUME AInv, NEW c \in Calls, Handler(c)
    PROVE  AInv'
<1>0. NInv /\ RacesThere(rq[c]) /\ NInv'
  BY Handled DEF AInv, Races
<1>1. HandlerStep(c)
  BY <1>0, HandlerKinds
<1>2. Only(c) /\ call'[c].pc \in StartPcs
  BY <1>0, <1>1, HandlerCalls
<1>3. Races'
  BY <1>0, <1>2 DEF AInv, Races, Only, RacesThere
<1>4. PairsApart'
  BY <1>1, HandlerPairs
<1>5. Store!SourcesExclusive'
  BY <1>0, <1>3, <1>4, NoClash, PTL
<1>6. Store!IInv'
  BY <1>0, <1>1, <1>5, HandlerStore DEF NInv
<1>7. Resolved' /\ FoundStill'
  BY <1>2 DEF AInv, Resolved, FoundStill, Only, StartPcs, FoundPcs
<1>8. Asked'
  <2>1. SpokenDrawn' /\ Known \subseteq Known'
    BY <1>0, <1>1, HandlerSpoken
  <2>2. ASSUME NEW d \in Calls
        PROVE  {rq'[d].h, rq'[d].h2} \subseteq Known \cup {None}
    <3>1. CASE d # c
      BY <1>2, <3>1 DEF Only, AInv, Asked
    <3>2. CASE d = c /\ rq'[c].pc # "idle"
      BY <1>1, <3>2, HandlerTargets DEF AInv, Asked
    <3>3. CASE d = c /\ rq'[c].pc = "idle"
      <4>1. Locals(rq[c])' /\ Slot(rq[c], call[c])'
        BY <1>0 DEF NInv, Slots
      <4>2. rq'[c].h = None /\ rq'[c].h2 = None
        BY <3>3, <4>1, AtIdle DEF Locals, FirstPcs, OnePcs, TwoPcs, SecondPcs
      <4>3. QED
        BY <3>3, <4>2
    <3>4. QED
      BY <3>1, <3>2, <3>3
  <2>3. QED
    BY <2>1, <2>2 DEF Asked
<1>9. QED
  BY <1>0, <1>1, <1>3, <1>4, <1>6, <1>7, <1>8, HandlerMade, HandlerSpoken DEF AInv

-----------------------------------------------------------------------------
(* Requests begin apart from those in flight; a restart forgets them all.  *)

(* A request that begins: the database sees at most a get.                 *)
LEMMA BegunApart ==
    ASSUME AInv, NInv', Overlap = "disjoint", NEW c \in Calls, NEW r,
           ~Active(c), Admissible(r), Set(c, r), r.pc \notin LookPcs \cup StatPcs,
           {r.h, r.h2} \subseteq Known \cup {None}, RacesThere(r), r.obj = None,
           UNCHANGED <<fsvars, hist>>, UNCHANGED <<fh, fn, issued, retired, torn>>,
           \A d \in Calls : d # c => call'[d] = call[d],
           call'[c].pc \in {"idle", "fhandle_get"}
    PROVE  AInv'
<1>1. NInv /\ rq'[c] = r /\ \A d \in Calls : d # c => rq'[d] = rq[d]
  BY SetIs DEF AInv
<1>2. Targets(r)' = Targets(r) /\ \A d \in Calls : d # c => Targets(rq[d])' = Targets(rq[d])
  <2>1. \A h, n : Named(h, n)' = Named(h, n)
    BY DEF Named, Entries
  <2>2. QED
    BY <1>1, <2>1 DEF Targets
<1>3. Races'
  BY <1>1 DEF AInv, Races, RacesThere
<1>4. PairsApart'
  <2>1. \A d \in Calls : d # c /\ Active(d) => Apart(r, rq[d]) \/ Race(r, rq[d])
    BY DEF Admissible
  <2>2. ASSUME NEW d \in Calls, d # c, Active(d)
        PROVE  /\ Apart(rq[c], rq[d])' \/ Race(rq[c], rq[d])'
               /\ Apart(rq[d], rq[c])' \/ Race(rq[d], rq[c])'
    <3>1. Targets(rq[c])' = Targets(r) /\ Targets(rq[d])' = Targets(rq[d])
          /\ rq'[c] = r /\ rq'[d] = rq[d]
      BY <1>1, <1>2, <2>2 DEF Targets
    <3>2. CASE Apart(r, rq[d])
      BY <3>1, <3>2 DEF Apart
    <3>3. CASE Race(r, rq[d])
      BY <3>1, <3>3 DEF Race
    <3>4. QED
      BY <2>1, <2>2, <3>2, <3>3
  <2>3. ASSUME NEW a \in Calls, NEW b \in Calls, a # b, a # c, b # c, Active(a), Active(b)
        PROVE  Apart(rq[a], rq[b])' \/ Race(rq[a], rq[b])'
    <3>1. Targets(rq[a])' = Targets(rq[a]) /\ Targets(rq[b])' = Targets(rq[b])
          /\ rq'[a] = rq[a] /\ rq'[b] = rq[b]
      BY <1>1, <1>2, <2>3
    <3>2. CASE Apart(rq[a], rq[b])
      BY <3>1, <3>2 DEF Apart
    <3>3. CASE Race(rq[a], rq[b])
      BY <3>1, <3>3 DEF Race
    <3>4. QED
      BY <2>3, <3>2, <3>3 DEF AInv, PairsApart
  <2>4. \A d \in Calls : d # c => (Active(d)' <=> Active(d))
    BY <1>1 DEF Active
  <2>5. QED
    BY <2>2, <2>3, <2>4 DEF PairsApart
<1>5. call[c].pc = "idle"
  BY <1>1, RequestFacts, AtIdle DEF Active
<1>6. Resolved' /\ FoundStill'
  BY <1>1 DEF AInv, Resolved, FoundStill, FoundPcs
<1>7. MadeThere' /\ WonAlone'
  BY <1>1 DEF AInv, MadeThere, WonAlone, Holding, Exists, fsvars
<1>8. Known' = Known
  BY DEF Known, hist
<1>9. Asked'
  BY <1>1, <1>8 DEF AInv, Asked
<1>10. SpokenDrawn'
  <2>1. ASSUME NEW h \in Handles, Spoken(h)' PROVE Spoken(h)
    <3>1. \A d \in Calls : d # c => (Offered(d)' = Offered(d))
      BY <1>1 DEF Offered
    <3>2. Offered(c)' = None
      BY <1>1 DEF Offered
    <3>3. QED
      BY <1>8, <2>1, <3>1, <3>2, NamespaceAssumption DEF Spoken
  <2>2. ASSUME NEW h \in Handles, Secret(h)' PROVE Secret(h)
    BY <2>2 DEF Secret, FreshPcs
  <2>3. QED
    BY <2>1, <2>2 DEF AInv, SpokenDrawn
<1>11. Store!IInv'
  <2>1. Store!HoldsWell(c, call'[c])
    BY DEF Store!HoldsWell, Store!SourceClash, Store!IsMv, Store!IsDel, Store!MvPcs,
           Store!DelPcs, Store!HoldPcs
  <2>2. Store!TypeOK' /\ Store!IInv
    BY DEF NInv, AInv
  <2>3. QED
    BY <1>5, <2>1, <2>2, Store!CallOnly, StoreAssumptions DEF Store!HoldPcs
<1>12. QED
  BY <1>3, <1>4, <1>6, <1>7, <1>9, <1>10, <1>11 DEF AInv

LEMMA RequestApart ==
    ASSUME AInv, Overlap = "disjoint", NEW c \in Calls, Request(c)
    PROVE  AInv'
<1>0. NInv /\ NInv'
  BY Requested DEF AInv
<1>1. CASE MNT(c)
  <2> DEFINE r == [Idle EXCEPT !.pc = "mount", !.p = Root]
  <2>1. /\ ~Active(c) /\ Admissible(r) /\ Set(c, r) /\ UNCHANGED <<fsvars, hist>>
        /\ UNCHANGED dbvars
    BY <1>1 DEF MNT, Begin
  <2>2. /\ r.pc = "mount" /\ r.h = None /\ r.h2 = None /\ r.obj = None /\ r.how = None
    BY DEF Idle
  <2> HIDE DEF r
  <2>3. r.pc \notin LookPcs \cup StatPcs /\ RacesThere(r)
    BY <2>2, NamespaceAssumption DEF LookPcs, StatPcs, RacesThere
  <2>4. call[c].pc = "idle"
    BY <1>0, <2>1, RequestFacts, AtIdle DEF Active
  <2>5. UNCHANGED <<fh, fn, issued, retired, torn>> /\ call' = call
    BY <2>1 DEF dbvars
  <2>6. QED
    BY <1>0, <2>1, <2>2, <2>3, <2>4, <2>5, BegunApart
<1>2. ASSUME NEW r, Begun(c, r)
      PROVE  AInv'
  <2>1. /\ ~Active(c) /\ Admissible(r) /\ Set(c, r) /\ UNCHANGED <<fsvars, hist>>
    BY <1>2 DEF Begun, Begin
  <2>2. /\ call'[c] = [Store!Idle EXCEPT !.pc = "fhandle_get", !.h = r.h]
        /\ \A d \in Calls : d # c => call'[d] = call[d]
        /\ UNCHANGED <<fh, fn, issued, retired, torn>>
    BY <1>0, <1>2, BeginIs, SameIdle DEF Begun, DB!StartFhandle
  <2>3. call'[c].pc = "fhandle_get"
    BY <2>2 DEF Store!Idle
  <2>4. /\ r.pc \in FirstPcs /\ Locals(r) /\ r.h \in Known
        /\ r.pc \in TwoPcs => r.h2 \in Known
        /\ r.how = "EXCLUSIVE" => r.pc = "create_lookup_dir"
    BY <1>2 DEF Begun
  <2>5. /\ r.pc \notin LookPcs \cup StatPcs
        /\ r.pc \notin SecondPcs /\ "create_lookup_dir" \in RacePcs
    BY <2>4 DEF FirstPcs, OnePcs, TwoPcs, SecondPcs, LookPcs, StatPcs, RacePcs
  <2>6. r.obj = None /\ (r.pc \notin TwoPcs => r.h2 = None)
    BY <2>4, <2>5 DEF Locals
  <2>7. RacesThere(r) /\ {r.h, r.h2} \subseteq Known \cup {None}
    BY <2>4, <2>5, <2>6 DEF RacesThere
  <2>8. QED
    BY <1>0, <2>1, <2>2, <2>3, <2>5, <2>6, <2>7, BegunApart
<1>3. QED
  BY <1>1, <1>2, RequestIs

LEMMA RestartApart ==
    ASSUME AInv, Crash
    PROVE  AInv'
<1>1. NInv'
  BY Restarts DEF AInv
<1>2. Store!IInv'
  <2>1. Store!Crash
    BY SameIdle DEF Crash, DB!Crash, Store!Crash
  <2>2. [Store!Next]_Store!vars /\ Store!Disciplined /\ Store!IInv
    BY <2>1 DEF Store!Next, Store!Disciplined, AInv
  <2>3. QED
    BY <2>2, StoreAssumptions, Store!InvNext
<1>3. /\ \A c \in Calls : rq'[c] = Idle /\ call'[c].pc = "idle"
      /\ UNCHANGED <<given, issued>>
  BY DEF Crash, DB!Crash, DB!Idle
<1>4. Idle.pc = "idle" /\ Idle.h = None /\ Idle.h2 = None /\ Idle.obj = None
  BY DEF Idle
<1>5. Races' /\ PairsApart'
  BY <1>3, <1>4, IdleRaces DEF Races, RacesThere, PairsApart, Active
<1>6. Resolved' /\ FoundStill'
  BY <1>3 DEF Resolved, FoundStill, FoundPcs
<1>7. MadeThere' /\ WonAlone'
  BY <1>3, <1>4 DEF MadeThere, WonAlone, Holding, LookPcs, StatPcs
<1>8. Asked'
  BY <1>3, <1>4 DEF Asked
<1>9. SpokenDrawn'
  <2>1. \A c \in Calls : Offered(c)' = None
    BY <1>3, <1>4 DEF Offered
  <2>2. \A h \in Handles : Spoken(h)' => Spoken(h)
    BY <1>3, <2>1, NamespaceAssumption DEF Spoken, Known
  <2>3. \A h : ~Secret(h)'
    BY <1>3 DEF Secret, FreshPcs
  <2>4. QED
    BY <1>3, <2>2, <2>3 DEF AInv, SpokenDrawn
<1>10. QED
  BY <1>1, <1>2, <1>5, <1>6, <1>7, <1>8, <1>9 DEF AInv

LEMMA ApartInit == Init => AInv
<1> SUFFICES ASSUME Init PROVE AInv
  OBVIOUS
<1>1. NInv
  BY TypesInit
<1>2. Store!IInv
  <2>1. Store!Init
    BY SameIdle DEF Init, DB!Init, Store!Init
  <2>2. QED
    BY <2>1, StoreAssumptions, Store!InvInit
<1>3. \A c \in Calls : rq[c] = Idle /\ call[c].pc = "idle"
  BY DEF Init, DB!Init, DB!Idle
<1>4. Idle.pc = "idle" /\ Idle.h = None /\ Idle.h2 = None /\ Idle.obj = None
  BY DEF Idle
<1>5. Races /\ PairsApart
  BY <1>3, <1>4, IdleRaces DEF Races, PairsApart, Active
<1>6. Resolved /\ FoundStill
  BY <1>3 DEF Resolved, FoundStill, FoundPcs
<1>7. MadeThere /\ WonAlone
  BY <1>3, <1>4 DEF MadeThere, WonAlone, Holding, LookPcs, StatPcs
<1>8. Asked
  BY <1>3, <1>4 DEF Asked
<1>9. SpokenDrawn
  <2>1. \A c \in Calls : Offered(c) = None
    BY <1>3, <1>4 DEF Offered
  <2>2. Known = {}
    BY DEF Init, Known
  <2>3. QED
    BY <2>1, <2>2, NamespaceAssumption DEF SpokenDrawn, Spoken
<1>10. QED
  BY <1>1, <1>2, <1>5, <1>6, <1>7, <1>8, <1>9 DEF AInv

LEMMA ApartNext ==
    ASSUME Overlap = "disjoint", AInv, [Next]_nsvars
    PROVE  AInv'
<1>1. CASE UNCHANGED nsvars
  <2>1. UNCHANGED <<fh, fn, issued, retired, torn, call, rq, said, tree, kind, given,
                    displaced, dropped>>
    BY <1>1 DEF nsvars, dbvars, hist, fsvars
  <2>2. NInv'
    BY TypesNext DEF AInv
  <2>3. Store!IInv'
    <3>1. [Store!Next]_Store!vars /\ Store!Disciplined /\ Store!IInv
      BY <2>1 DEF Store!vars, Store!Disciplined, AInv
    <3>2. QED
      BY <3>1, StoreAssumptions, Store!InvNext
  <2>4. Races' /\ Resolved' /\ FoundStill' /\ Asked'
    BY <2>1 DEF AInv, Races, RacesThere, Resolved, FoundStill, Asked, Known
  <2>5. PairsApart'
    <3>1. \A h, n : Named(h, n)' = Named(h, n)
      BY <2>1 DEF Named, Entries
    <3>2. \A c \in Calls : Targets(rq[c])' = Targets(rq[c])
      BY <2>1, <3>1 DEF Targets
    <3>3. ASSUME NEW a \in Calls, NEW b \in Calls, a # b, Active(a), Active(b)
          PROVE  Apart(rq[a], rq[b])' \/ Race(rq[a], rq[b])'
      <4>1. CASE Apart(rq[a], rq[b])
        BY <3>2, <4>1 DEF Apart
      <4>2. CASE Race(rq[a], rq[b])
        BY <2>1, <4>2 DEF Race
      <4>3. QED
        BY <3>3, <4>1, <4>2 DEF AInv, PairsApart
    <3>4. QED
      BY <2>1, <3>3 DEF PairsApart, Active
  <2>6. MadeThere' /\ WonAlone'
    BY <2>1 DEF AInv, MadeThere, WonAlone, Holding, Exists
  <2>7. SpokenDrawn'
    BY <2>1 DEF AInv, SpokenDrawn, Spoken, Secret, Offered, Known
  <2>8. QED
    BY <2>2, <2>3, <2>4, <2>5, <2>6, <2>7 DEF AInv
<1>2. QED
  BY <1>1, RequestApart, HandlerApart, AccessApart, RestartApart DEF Next, Quiet

LEMMA ApartUses == AInv => UsesDBApart
<1> SUFFICES ASSUME AInv, NEW c \in Calls, NEW d \in Calls, c # d, DB!Busy(c), DB!Busy(d)
             PROVE  DB!Touched(call[c]) \cap DB!Touched(call[d]) = {}
  BY DEF UsesDBApart
<1>1. NInv /\ Active(c) /\ Active(d)
  BY CallOf DEF AInv, DB!Busy
<1>2. \A e \in Calls : DB!Busy(e) =>
        \/ call[e].pc = "fhandle_get" /\ DB!Touched(call[e]) = {}
        \/ call[e].pc \in InLookup \cup Store!DelPcs \cup Store!MvPcs
  <2>1. ASSUME NEW e \in Calls, DB!Busy(e)
        PROVE  \/ call[e].pc = "fhandle_get"
               \/ call[e].pc \in InLookup \cup Store!DelPcs \cup Store!MvPcs
    BY <1>1, <2>1, RequestFacts
       DEF DB!Busy, Store!CallState, Store!Pcs, InLookup
  <2>2. QED
    BY <1>1, <2>1, CallOf DEF DB!Touched
<1>3. CASE call[c].pc = "fhandle_get" \/ call[d].pc = "fhandle_get"
  BY <1>2, <1>3 DEF InLookup, Store!DelPcs, Store!MvPcs
<1>4. CASE /\ call[c].pc \in InLookup \cup Store!DelPcs \cup Store!MvPcs
           /\ call[d].pc \in InLookup \cup Store!DelPcs \cup Store!MvPcs
  <2>1. CASE Apart(rq[c], rq[d])
    BY <1>4, <2>1, OtherPaths DEF DB!Touched
  <2>2. CASE Race(rq[c], rq[d])
    <3>1. ASSUME NEW e \in Calls, rq[e].how = "EXCLUSIVE",
                 call[e].pc \in InLookup \cup Store!DelPcs \cup Store!MvPcs
          PROVE  Holding(rq[e]) /\ DB!Touched(call[e]) \subseteq {rq[e].p}
      <4>1. rq[e].pc \in RacePcs
        BY <3>1 DEF AInv, Races, RacesThere
      <4>2. rq[e].pc \in LookPcs /\ call[e].p = rq[e].p
        BY <1>1, <3>1, <4>1, CallOf DEF RacePcs, DelOfPcs
      <4>3. call[e].q = None
        BY <1>1, <4>2, RequestFacts, AtLook
      <4>4. QED
        BY <4>2, <4>3 DEF Holding, DB!Touched
    <3>2. QED
      BY <1>4, <2>2, <3>1 DEF Race, AInv, WonAlone
  <2>3. QED
    BY <1>1, <2>1, <2>2 DEF AInv, PairsApart
<1>5. QED
  BY <1>2, <1>3, <1>4

LEMMA ApartHolds ==
    ASSUME Overlap = "disjoint"
    PROVE  Spec => []AInv
<1>1. AInv /\ [Next]_nsvars => AInv'
  BY ApartNext
<1>2. QED
  BY <1>1, ApartInit, PTL DEF Spec

(* Requests on different files, and exclusive creates of one name, use the *)
(* database for different paths at a time: the callers of fhdb.js are      *)
(* those its own theorems ask for, whatever fails.                         *)
THEOREM DatabaseUsedApart ==
    ASSUME Overlap = "disjoint"
    PROVE  Spec => []UsesDBApart
BY ApartUses, ApartHolds, PTL

(* So in the server, too, the handle found under a path leads back to it,  *)
(* and a removed handle stays dead: what FHDB promises such callers holds  *)
(* of the database that the procedures share.                              *)
THEOREM ServedHandlesLeadBack ==
    ASSUME Overlap = "disjoint"
    PROVE  Spec => [](DB!ForwardConsistent /\ DB!NoResurrection)
<1>1. AInv => DB!ForwardConsistent /\ DB!NoResurrection
  BY DEF AInv, Store!IInv, Store!ForwardConsistent, DB!ForwardConsistent,
         Store!AwaitsCleanup, DB!AwaitsCleanup, Store!NoResurrection, DB!NoResurrection
<1>2. QED
  BY <1>1, ApartHolds, PTL
-----------------------------------------------------------------------------
(* What the two stores say of a handle, for clients that use different     *)
(* files and a database whose reads do not fail.                           *)

Settled(r) == r.pc \in LookPcs \cup StatPcs \cup DelOfPcs \cup {"rename_mv"}

(* What lookup and mv did not find is still not there; the handle that a   *)
(* request has found, or made, for its reply is that of its path.          *)
Missed   == \A c \in Calls :
                call[c].pc \in {"lookup_lstat"} \cup FreshPcs => fh[call[c].p] = None
Answered == \A c \in Calls : Offered(c) # None => fh[rq[c].p] = Offered(c)

(* Of a handle that is not displaced the two entries agree, but while an   *)
(* mv has yet to clean up, or has failed to.                               *)
Moved(c, p) == /\ rq[c].pc = "rename_mv" /\ rq[c].p = p
               /\ \/ call[c].pc = "mv_cleanup"
                  \/ call[c].pc = "done" /\ ~call[c].ok
Forward  == \A p \in Paths :
                fh[p] # None /\ fh[p] \notin displaced
                    => fn[fh[p]] = p \/ \E c \in Calls : Moved(c, p)
Backward == \A h \in Handles \ displaced : fn[h] # None => fh[fn[h]] = h

(* A dropped handle has been drawn; while it has a path there is a request *)
(* that is about to delete it, and of that path no file is left.           *)
DroppedDrawn == \A h \in dropped : h \in issued /\ ~Secret(h)
Dropping ==
    \A h \in dropped \ displaced :
        fn[h] # None => \E c \in Calls : /\ rq[c].pc \in DelOfPcs /\ rq[c].p = fn[h]
                                         /\ call[c].pc = "done" => ~call[c].ok
Gone ==
    \A c \in Calls : rq[c].pc \in DelOfPcs =>
        /\ ~Exists(rq[c].p) /\ HandlesNaming(rq[c].p) \subseteq dropped
        /\ call[c].pc = "done" /\ call[c].ok => fh[rq[c].p] = None

(* An mv: the file is under the new name only, unless there are two names  *)
(* of it; until the new entries are written, handles of the old name are   *)
(* the renamed file's, and those of the new name the replaced one's; then  *)
(* both names lead to the handle, and in the end the new one only.         *)
Stale(s) == s.pc \in {"mv_get", "mv_write", "mv_write_new"}
MvTree(c) ==
    Exists(rq[c].q) /\ (Exists(rq[c].p) => tree[rq[c].p] = tree[rq[c].q])
MvStale(c) ==
    Stale(call[c]) =>
        /\ HandlesNaming(rq[c].q) \subseteq displaced
        /\ \A h \in Known \ (displaced \cup dropped) :
                fn[h] = rq[c].p => tree[rq[c].q] = given[h].i
MvCarried(c) ==
    call[c].pc = "mv_cleanup" =>
        /\ fh[rq[c].q] = call[c].h
        /\ call[c].h \notin displaced => fn[call[c].h] = rq[c].q /\ rq[c].p # rq[c].q
MvOver(c) ==
    call[c].pc = "done" /\ call[c].ok =>
        /\ rq[c].p # rq[c].q => fh[rq[c].p] = None /\ fh[rq[c].q] # None
        /\ HandlesNaming(rq[c].p) \cap Known \subseteq displaced
Moving == \A c \in Calls : rq[c].pc = "rename_mv" =>
            MvTree(c) /\ MvStale(c) /\ MvCarried(c) /\ MvOver(c)

Givens == \A h \in Known : given[h].i \in Inodes

HInv == AInv /\ Missed /\ Answered /\ Forward /\ Backward /\ DroppedDrawn
        /\ Dropping /\ Gone /\ Moving /\ Givens /\ HandleStaysGood

-----------------------------------------------------------------------------
(* Requests with something under way leave each other's paths alone.       *)

LEMMA SettledPaths ==
    ASSUME NInv, NEW c \in Calls, Settled(rq[c])
    PROVE  /\ Active(c) /\ rq[c].p \in Paths /\ rq[c].p \in Targets(rq[c])
           /\ rq[c].p \in AllPaths
           /\ rq[c].pc = "rename_mv" => /\ rq[c].q \in Paths /\ rq[c].q \in AllPaths
                                        /\ rq[c].q \in Targets(rq[c])
           /\ rq[c].pc # "rename_mv" => rq[c].q = None
<1>1. Locals(rq[c])
  BY RequestFacts
<1>2. rq[c].p \in Paths /\ (rq[c].pc = "rename_mv" => rq[c].q \in Paths)
  BY <1>1 DEF Locals, Settled
<1>3. None \notin Paths /\ Paths \subseteq AllPaths
  BY StoreAssumptions, PathsLong DEF AllPaths
<1>4. rq[c].pc # "rename_mv" => rq[c].q = None
  BY <1>1 DEF Locals, Settled, PairPcs, LookPcs, StatPcs, DelOfPcs
<1>5. Active(c)
  BY DEF Settled, Active, LookPcs, StatPcs, DelOfPcs
<1>6. QED
  BY <1>2, <1>3, <1>4, <1>5 DEF Targets

LEMMA SettledApart ==
    ASSUME AInv, NEW c \in Calls, NEW d \in Calls, c # d, Settled(rq[c]), Settled(rq[d]),
           NEW x \in {rq[c].p, rq[c].q} \cap Paths
    PROVE  x \notin {rq[d].p, rq[d].q}
<1>1. NInv
  BY DEF AInv
<1>2. None \notin Paths
  BY StoreAssumptions
<1>3. CASE Apart(rq[c], rq[d])
  <2>1. x \in Targets(rq[c]) /\ x \in AllPaths
    BY <1>1, <1>2, SettledPaths
  <2>2. x \notin Targets(rq[d])
    BY <1>3, <2>1, ApartDiffer
  <2>3. QED
    BY <1>2, <2>2 DEF Targets
<1>4. CASE Race(rq[c], rq[d])
  <2>1. \A e \in {c, d} : rq[e].pc \in RacePcs
    BY <1>4 DEF Race, AInv, Races, RacesThere
  <2>2. Holding(rq[c]) /\ Holding(rq[d])
    BY <2>1 DEF Settled, RacePcs, Holding, DelOfPcs
  <2>3. rq[c].q = None /\ rq[d].q = None
    BY <1>1, <2>1, SettledPaths DEF RacePcs
  <2>4. QED
    BY <1>2, <2>2, <2>3 DEF AInv, WonAlone
<1>5. QED
  BY <1>1, <1>3, <1>4, SettledPaths DEF AInv, PairsApart

(* The request of a database call that reads or writes a path.             *)
LEMMA CallSettled ==
    ASSUME NInv, NEW c \in Calls,
           call[c].pc \in InLookup \cup Store!DelPcs \cup Store!MvPcs
    PROVE  /\ Settled(rq[c]) /\ call[c].p = rq[c].p /\ rq[c].p \in Paths
           /\ call[c].q = rq[c].q
           /\ rq[c].q \in Paths \cup {None}
<1>1. /\ Settled(rq[c]) /\ call[c].p = rq[c].p /\ rq[c].p \in Paths
  BY CallOf DEF Settled
<1>2. call[c].q = rq[c].q
  <2>1. CASE rq[c].pc = "rename_mv"
    BY <2>1, RequestFacts, AtMv
  <2>2. CASE rq[c].pc # "rename_mv"
    BY <1>1, <2>2, RequestFacts DEF Settled, Slot, Locals, StatPcs, LookPcs, PairPcs,
       DelOfPcs, InLookup, Store!DelPcs, Store!MvPcs
  <2>3. QED
    BY <2>1, <2>2
<1>3. QED
  BY <1>1, <1>2, SettledPaths

LEMMA AccessNames ==
    ASSUME NInv, NEW c \in Calls, AccessStep(c), NEW h \in Handles, fn'[h] # fn[h]
    PROVE  /\ h = call[c].h /\ call[c].pc \in FoundPcs \cup FreshPcs
           /\ fn'[h] \in {None, call[c].p, call[c].q}
<1>1. h = call[c].h /\ call[c].pc \in FoundPcs \cup FreshPcs
  BY AccessWrites
<1>2. fn \in [Handles -> Paths \cup {None}]
  BY DEF NInv, Store!TypeOK
<1>3. fn'[h] \in {None, call[c].p, call[c].q}
  BY <1>1, <1>2 DEF AccessStep, CallFails, GetsPath, Hits, Misses, Finds, Draws, Records,
     Carries, Cleans, Removes, Reads, DB!PutBoth, DB!DelBoth
<1>4. QED
  BY <1>1, <1>3

LEMMA WriterSettled ==
    FoundPcs \cup FreshPcs \subseteq InLookup \cup Store!DelPcs \cup Store!MvPcs
BY DEF FoundPcs, FreshPcs, InLookup, Store!DelPcs, Store!MvPcs

LEMMA AccessLeaves ==
    ASSUME AInv, NEW c \in Calls, AccessStep(c), NEW d \in Calls, d # c,
           Settled(rq[d]), NEW x \in {rq[d].p, rq[d].q} \cap Paths
    PROVE  /\ fh'[x] = fh[x]
           /\ \A h \in Handles : fn'[h] = x => fn[h] = x
<1>1. NInv /\ None \notin Paths
  BY StoreAssumptions DEF AInv
<1>2. call[c].pc \in FoundPcs \cup FreshPcs => x \notin {call[c].p, call[c].q}
  <2>1. SUFFICES ASSUME call[c].pc \in FoundPcs \cup FreshPcs
                 PROVE  x \notin {call[c].p, call[c].q}
    OBVIOUS
  <2>2. Settled(rq[c]) /\ call[c].p = rq[c].p /\ call[c].q = rq[c].q
    BY <1>1, <2>1, WriterSettled, CallSettled
  <2>3. QED
    BY <2>2, SettledApart
<1>3. fh'[x] = fh[x]
  BY <1>1, <1>2, AccessWrites
<1>4. QED
  BY <1>1, <1>2, <1>3, AccessNames

(* The handle of a request's path has that path, unless its mv has given   *)
(* it another.                                                             *)
LEMMA NamedBy ==
    ASSUME AInv, Forward, NEW d \in Calls, Settled(rq[d]),
           NEW x \in {rq[d].p, rq[d].q} \cap Paths, fh[x] # None, fh[x] \notin displaced,
           ~Moved(d, x)
    PROVE  fn[fh[x]] = x
<1>1. ASSUME NEW e \in Calls, Moved(e, x) PROVE FALSE
  <2>1. e # d /\ Settled(rq[e]) /\ rq[e].p = x
    BY <1>1 DEF Moved, Settled
  <2>2. QED
    BY <2>1, SettledApart
<1>2. QED
  BY <1>1 DEF Forward

-----------------------------------------------------------------------------
(* An access of the database.                                              *)

(* A handle that an mv carries, or a del removes, has the path at which it *)
(* was found.                                                              *)
LEMMA FoundNamed ==
    ASSUME AInv, Forward, NEW c \in Calls, call[c].pc \in {"mv_write", "del_write"},
           call[c].h \notin displaced
    PROVE  /\ fn[call[c].h] = call[c].p /\ call[c].p \in Paths
           /\ call[c].p = rq[c].p /\ Settled(rq[c])
<1>1. NInv
  BY DEF AInv
<1>2. Settled(rq[c]) /\ call[c].p = rq[c].p /\ rq[c].p \in Paths
  BY <1>1, CallSettled DEF Store!DelPcs, Store!MvPcs
<1>3. fh[call[c].p] = call[c].h
  BY DEF AInv, FoundStill, FoundPcs
<1>4. call[c].h # None
  BY <1>1, RequestFacts, StoreAssumptions DEF Store!LocalOK
<1>5. ~Moved(c, rq[c].p)
  BY DEF Moved
<1>6. QED
  BY <1>2, <1>3, <1>4, <1>5, NamedBy

LEMMA FreshUnseen ==
    ASSUME AInv, NEW c \in Calls, call[c].pc \in FreshPcs
    PROVE  /\ call[c].h \in Handles /\ fn[call[c].h] = None
           /\ \A p \in Paths : fh[p] # call[c].h
           /\ call[c].h \notin Known
<1>1. fn[call[c].h] = None /\ \A p \in Paths : fh[p] # call[c].h
  BY DEF AInv, Store!IInv, Store!FreshHeld, FreshPcs
<1>2. Secret(call[c].h) /\ call[c].h \in Handles
  BY RequestFacts DEF Secret, FreshPcs, Store!LocalOK, AInv
<1>3. QED
  BY <1>1, <1>2 DEF AInv, SpokenDrawn, Spoken

(* The request of c in its own state.                                      *)
LEMMA AccessMissed ==
    ASSUME AInv, Missed, "get" \notin Faults, NEW c \in Calls, AccessStep(c), rq' = rq
    PROVE  Missed'
<1>1. NInv
  BY DEF AInv
<1>2. ASSUME NEW d \in Calls, d # c, call'[d].pc \in {"lookup_lstat"} \cup FreshPcs
      PROVE  fh'[call'[d].p] = None
  <2>1. call'[d] = call[d]
    BY <1>2 DEF AccessStep
  <2>2. Settled(rq[d]) /\ call[d].p = rq[d].p /\ rq[d].p \in Paths
    BY <1>1, <1>2, <2>1, CallSettled DEF FreshPcs, InLookup, Store!MvPcs
  <2>3. QED
    BY <1>2, <2>1, <2>2, AccessLeaves DEF Missed
<1>3. ASSUME call'[c].pc \in {"lookup_lstat"} \cup FreshPcs
      PROVE  fh'[call'[c].p] = None
  <2>1. Misses(c) \/ Draws(c)
    BY <1>3 DEF AccessStep, CallFails, GetsPath, Hits, Finds, Records, Carries, Cleans,
       Removes, Ended, FreshPcs
  <2>2. UNCHANGED fh /\ call'[c].p = call[c].p
    BY <2>1 DEF AccessStep, Misses, Draws, Reads
  <2>3. fh[call[c].p] = None
    BY <2>1 DEF Misses, Draws, Missed
  <2>4. QED
    BY <2>2, <2>3
<1>4. QED
  BY <1>2, <1>3 DEF Missed

LEMMA OfferedBy ==
    ASSUME NInv, NEW c \in Calls, Offered(c) # None
    PROVE  /\ Settled(rq[c]) /\ rq[c].pc \in LookPcs \cup StatPcs
           /\ \/ rq[c].pc \in StatPcs /\ Offered(c) = rq[c].obj
              \/ /\ rq[c].pc \in LookPcs /\ Offered(c) = call[c].h
                 /\ call[c].pc = "done" /\ call[c].ok
           /\ Offered(c) \in Handles /\ rq[c].p \in Paths
<1>1. CASE rq[c].obj # None
  <2>1. rq[c].pc \in StatPcs
    BY <1>1, RequestFacts DEF Locals
  <2>2. Offered(c) = rq[c].obj
    BY <1>1 DEF Offered
  <2>3. QED
    BY <2>1, <2>2, RequestFacts, AtStat DEF Settled
<1>2. CASE rq[c].obj = None
  <2>1. /\ rq[c].pc \in LookPcs /\ Offered(c) = call[c].h
        /\ call[c].pc = "done" /\ call[c].ok
    BY <1>2 DEF Offered, LookPcs
  <2>2. QED
    BY <2>1, RequestFacts, AtLook DEF Settled
<1>3. QED
  BY <1>1, <1>2

LEMMA AccessAnswered ==
    ASSUME AInv, NInv', Answered, NEW c \in Calls, AccessStep(c), rq' = rq
    PROVE  Answered'
<1>1. NInv
  BY DEF AInv
<1>2. ASSUME NEW d \in Calls, d # c, Offered(d)' # None
      PROVE  fh'[rq'[d].p] = Offered(d)'
  <2>1. Offered(d)' = Offered(d)
    BY <1>2 DEF AccessStep, Offered
  <2>2. Settled(rq[d]) /\ rq[d].p \in Paths
    BY <1>1, <1>2, <2>1, OfferedBy
  <2>3. fh'[rq[d].p] = fh[rq[d].p]
    BY <1>2, <2>2, AccessLeaves
  <2>4. QED
    BY <1>2, <2>1, <2>3 DEF Answered
<1>3. ASSUME Offered(c)' # None
      PROVE  fh'[rq'[c].p] = Offered(c)'
  <2>1. rq[c].pc \notin StatPcs
    BY <1>1, NotCalled DEF AccessStep, InLookup, Store!DelPcs, Store!MvPcs
  <2>2. rq[c].obj = None
    BY <1>1, <2>1, RequestFacts DEF Locals
  <2>3. /\ Offered(c)' = call'[c].h /\ rq[c].pc \in LookPcs
        /\ call'[c].pc = "done" /\ call'[c].ok
    BY <1>3, <2>2 DEF Offered, LookPcs
  <2>4. call[c].pc \in InLookup /\ call[c].p = rq[c].p /\ rq[c].p \in Paths
    BY <1>1, <2>3, RequestFacts, AtLook
       DEF AccessStep, InLookup, Store!DelPcs, Store!MvPcs
  <2>5. Hits(c) \/ Records(c)
    BY <2>3, <2>4 DEF AccessStep, CallFails, GetsPath, Misses, Finds, Draws, Carries, Cleans,
       Removes, Ended, InLookup
  <2>6. fh'[call[c].p] = call'[c].h
    <3>1. CASE Hits(c)
      BY <3>1 DEF Hits, Reads
    <3>2. CASE Records(c)
      BY <1>1, <2>4, <3>2 DEF Records, DB!PutBoth, NInv, Store!TypeOK
    <3>3. QED
      BY <2>5, <3>1, <3>2
  <2>7. QED
    BY <2>3, <2>4, <2>6
<1>4. QED
  BY <1>2, <1>3 DEF Answered

LEMMA AccessDrawn ==
    ASSUME AInv, DroppedDrawn, NEW c \in Calls, AccessStep(c), dropped' = dropped
    PROVE  DroppedDrawn'
<1>1. NInv
  BY DEF AInv
<1>2. issued \subseteq issued'
  BY DEF AccessStep, CallFails, GetsPath, Hits, Misses, Finds, Draws, Records, Carries,
     Cleans, Removes, Reads
<1>3. ASSUME NEW h \in dropped, Secret(h)' PROVE FALSE
  <2>1. h \in issued /\ ~Secret(h)
    BY DEF DroppedDrawn
  <2>2. call'[c].pc \in FreshPcs /\ call'[c].h = h
    BY <1>3, <2>1 DEF Secret, AccessStep
  <2>3. Draws(c)
    BY <2>2 DEF AccessStep, CallFails, GetsPath, Hits, Misses, Finds, Records, Carries,
       Cleans, Removes, Ended, FreshPcs
  <2>4. QED
    BY <2>1, <2>2, <2>3 DEF Draws
<1>4. QED
  BY <1>2, <1>3 DEF DroppedDrawn

(* The ways in which an access writes, entry by entry.                     *)
Puts(p, h) ==
    /\ \A x \in Paths : fh'[x] = IF x = p THEN h ELSE fh[x]
    /\ \A g \in Handles : fn'[g] = IF g = h THEN p ELSE fn[g]
Steady == UNCHANGED <<fh, fn>>
Enters(c) ==
    /\ call[c].pc \in FreshPcs /\ Ended(c, TRUE)
    /\ \/ rq[c].pc \in LookPcs /\ Puts(rq[c].p, call[c].h)
       \/ rq[c].pc = "rename_mv" /\ Puts(rq[c].q, call[c].h)
            /\ call[c].pc = "mv_write_new"
Follows(c) ==
    /\ call[c].pc = "mv_write" /\ call'[c].pc = "mv_cleanup" /\ rq[c].pc = "rename_mv"
    /\ call'[c].h = call[c].h /\ fh[rq[c].p] = call[c].h
    /\ Puts(rq[c].q, call[c].h)
Clears(c) ==
    /\ call[c].pc = "mv_cleanup" /\ Ended(c, TRUE) /\ rq[c].pc = "rename_mv"
    /\ fh[rq[c].p] = call[c].h /\ UNCHANGED fn
    /\ \A x \in Paths : fh'[x] = IF x = rq[c].p THEN None ELSE fh[x]
Erases(c) ==
    /\ call[c].pc = "del_write" /\ Ended(c, TRUE) /\ rq[c].pc \in DelOfPcs
    /\ fh[rq[c].p] = call[c].h
    /\ \A x \in Paths : fh'[x] = IF x = rq[c].p THEN None ELSE fh[x]
    /\ \A g \in Handles : fn'[g] = IF g = call[c].h THEN None ELSE fn[g]

LEMMA WriteKinds ==
    ASSUME AInv, NEW c \in Calls, AccessStep(c)
    PROVE  \/ Steady
           \/ /\ Settled(rq[c]) /\ call[c].p = rq[c].p /\ rq[c].p \in Paths
              /\ rq[c].pc = "rename_mv" => rq[c].q \in Paths
              /\ call[c].h \in Handles /\ call[c].h # None
              /\ call[c].pc \in FoundPcs \cup FreshPcs
              /\ Enters(c) \/ Follows(c) \/ Clears(c) \/ Erases(c)
<1>1. NInv /\ FoundStill
  BY DEF AInv
<1>2. fh \in [Paths -> Handles \cup {None}] /\ fn \in [Handles -> Paths \cup {None}]
  BY <1>1 DEF NInv, Store!TypeOK
<1>3. CASE call[c].pc \notin FoundPcs \cup FreshPcs
  BY <1>2, <1>3 DEF AccessStep, CallFails, GetsPath, Hits, Misses, Finds, Draws, Records,
     Carries, Cleans, Removes, Reads, Steady, FoundPcs, FreshPcs
<1>4. CASE call[c].pc \in FoundPcs \cup FreshPcs
  <2>1. /\ Settled(rq[c]) /\ call[c].p = rq[c].p /\ rq[c].p \in Paths
        /\ call[c].q = rq[c].q
    BY <1>1, <1>4, CallSettled, WriterSettled
  <2>2. call[c].h \in Handles /\ call[c].h # None
    BY <1>1, <1>4, RequestFacts, StoreAssumptions DEF Store!LocalOK, FoundPcs, FreshPcs
  <2>3. rq[c].pc = "rename_mv" => rq[c].q \in Paths
    BY <1>1, <2>1, SettledPaths
  <2>4. CASE Steady
    BY <2>4
  <2>5. CASE Records(c)
    <3>1. rq[c].pc \in LookPcs
      BY <1>1, <2>5, CallOf DEF Records, InLookup
    <3>2. Puts(rq[c].p, call[c].h)
      BY <1>2, <2>1, <2>2, <2>5 DEF Records, DB!PutBoth, Puts
    <3>3. Enters(c)
      BY <2>5, <3>1, <3>2 DEF Enters, Records, FreshPcs
    <3>4. QED
      BY <1>4, <2>1, <2>2, <2>3, <3>3
  <2>6. CASE Carries(c)
    <3>1. rq[c].pc = "rename_mv"
      BY <1>1, <2>6, CallOf DEF Carries, Store!MvPcs
    <3>2. Puts(rq[c].q, call[c].h)
      BY <1>2, <2>1, <2>2, <2>3, <2>6, <3>1 DEF Carries, DB!PutBoth, Puts
    <3>3. Enters(c) \/ Follows(c)
      BY <1>1, <2>1, <2>6, <3>1, <3>2
         DEF Enters, Follows, Carries, FreshPcs, FoundStill, FoundPcs
    <3>4. QED
      BY <1>4, <2>1, <2>2, <2>3, <3>3
  <2>7. CASE Cleans(c)
    <3>1. rq[c].pc = "rename_mv"
      BY <1>1, <2>7, CallOf DEF Cleans, Store!MvPcs
    <3>2. Clears(c)
      BY <1>1, <1>2, <2>1, <2>7, <3>1 DEF Clears, Cleans, FoundStill, FoundPcs
    <3>3. QED
      BY <1>4, <2>1, <2>2, <2>3, <3>2
  <2>8. CASE Removes(c)
    <3>1. rq[c].pc \in DelOfPcs
      BY <1>1, <2>8, CallOf DEF Removes, Store!DelPcs
    <3>2. Erases(c)
      BY <1>1, <1>2, <2>1, <2>2, <2>8, <3>1
         DEF Erases, Removes, DB!DelBoth, FoundStill, FoundPcs
    <3>3. QED
      BY <1>4, <2>1, <2>2, <2>3, <3>2
  <2>9. QED
    BY <2>4, <2>5, <2>6, <2>7, <2>8 DEF AccessStep, CallFails, GetsPath, Hits, Misses,
       Finds, Draws, Reads, Steady
<1>5. QED
  BY <1>3, <1>4

LEMMA AccessBackward ==
    ASSUME AInv, Missed, Forward, Backward, Moving, NEW c \in Calls, AccessStep(c),
           rq' = rq, displaced' = displaced
    PROVE  Backward'
<1>1. NInv
  BY DEF AInv
<1>2. fh \in [Paths -> Handles \cup {None}] /\ fn \in [Handles -> Paths \cup {None}]
      /\ None \notin Paths \cup Handles
  BY <1>1, StoreAssumptions DEF NInv, Store!TypeOK
<1> SUFFICES ASSUME NEW h \in Handles \ displaced, fn'[h] # None
             PROVE  fh'[fn'[h]] = h
  BY DEF Backward
<1>3. CASE Steady
  BY <1>3 DEF Steady, Backward
<1>4. CASE ~Steady
  <2> DEFINE p == rq[c].p
             q == rq[c].q
             g == call[c].h
  <2>1. /\ Settled(rq[c]) /\ call[c].p = p /\ p \in Paths
        /\ rq[c].pc = "rename_mv" => q \in Paths
        /\ g \in Handles /\ g # None
        /\ Enters(c) \/ Follows(c) \/ Clears(c) \/ Erases(c)
    BY <1>4, WriteKinds
  <2>2. fn[h] # None => fn[h] \in Paths /\ fh[fn[h]] = h
    BY <1>2 DEF Backward
  <2>3. CASE Enters(c)
    <3>1. \A x \in Paths : Puts(x, g) /\ (\A f \in Handles \ displaced : fn[f] # x)
             => fh'[fn'[h]] = h
      BY <1>2, <2>1, <2>2 DEF Puts
    <3>2. CASE rq[c].pc \in LookPcs /\ Puts(p, g)
      <4>1. fh[p] = None
        BY <2>1, <2>3 DEF Missed, Enters
      <4>2. \A f \in Handles \ displaced : fn[f] # p
        BY <1>2, <2>1, <4>1 DEF Backward
      <4>3. QED
        BY <2>1, <3>1, <3>2, <4>2
    <3>3. CASE rq[c].pc = "rename_mv" /\ Puts(q, g) /\ call[c].pc = "mv_write_new"
      <4>1. MvStale(c) /\ Stale(call[c])
        BY <3>3 DEF Moving, Stale
      <4>2. \A f \in Handles \ displaced : fn[f] # q
        BY <4>1 DEF MvStale, HandlesNaming
      <4>3. QED
        BY <2>1, <3>1, <3>3, <4>2
    <3>4. QED
      BY <2>3, <3>2, <3>3 DEF Enters
  <2>4. CASE Follows(c)
    <3>1. MvStale(c) /\ Stale(call[c])
      BY <2>4 DEF Moving, Stale, Follows
    <3>2. \A f \in Handles \ displaced : fn[f] # q
      BY <3>1 DEF MvStale, HandlesNaming
    <3>3. QED
      BY <1>2, <2>1, <2>2, <2>4, <3>2 DEF Follows, Puts
  <2>5. CASE Clears(c)
    <3>1. MvCarried(c)
      BY <2>5 DEF Moving, Clears
    <3>2. fn[h] # p
      BY <2>1, <2>2, <2>5, <3>1, <1>2 DEF Clears, MvCarried
    <3>3. QED
      BY <1>2, <2>1, <2>2, <2>5, <3>2 DEF Clears
  <2>6. CASE Erases(c)
    BY <1>2, <2>1, <2>2, <2>6 DEF Erases
  <2>7. QED
    BY <2>1, <2>3, <2>4, <2>5, <2>6
<1>5. QED
  BY <1>3, <1>4

(* A handle whose path changes.                                            *)
LEMMA NameChanges ==
    ASSUME AInv, Forward, NEW c \in Calls, AccessStep(c),
           NEW h \in Handles, fn'[h] # fn[h]
    PROVE  /\ h = call[c].h
           /\ \/ /\ call[c].pc \in FreshPcs /\ h \notin Known
                 /\ \A x \in Paths : fh[x] # h
              \/ /\ Follows(c) \/ Erases(c)
                 /\ fh[rq[c].p] = h
                 /\ h \notin displaced => fn[h] = rq[c].p
<1>1. ~Steady
  BY DEF Steady
<1>2. /\ call[c].pc \in FoundPcs \cup FreshPcs
      /\ Enters(c) \/ Follows(c) \/ Clears(c) \/ Erases(c)
  BY <1>1, WriteKinds
<1>3. h = call[c].h /\ ~Clears(c)
  BY <1>2 DEF Enters, Follows, Clears, Erases, Puts
<1>4. CASE Enters(c)
  BY <1>3, <1>4, FreshUnseen DEF Enters
<1>5. CASE Follows(c) \/ Erases(c)
  <2>1. call[c].pc \in {"mv_write", "del_write"} /\ fh[rq[c].p] = h
    BY <1>3, <1>5 DEF Follows, Erases
  <2>2. h \notin displaced => fn[h] = rq[c].p
    BY <1>3, <2>1, FoundNamed
  <2>3. QED
    BY <1>3, <1>5, <2>1, <2>2
<1>6. QED
  BY <1>2, <1>3, <1>4, <1>5

LEMMA AccessForward ==
    ASSUME AInv, Forward, NEW c \in Calls, AccessStep(c), rq' = rq,
           displaced' = displaced
    PROVE  Forward'
<1>1. NInv
  BY DEF AInv
<1>2. fh \in [Paths -> Handles \cup {None}] /\ fn \in [Handles -> Paths \cup {None}]
      /\ None \notin Paths \cup Handles
  BY <1>1, StoreAssumptions DEF NInv, Store!TypeOK
<1> SUFFICES ASSUME NEW x \in Paths, fh'[x] # None, fh'[x] \notin displaced
             PROVE  fn'[fh'[x]] = x \/ \E d \in Calls : Moved(d, x)'
  BY DEF Forward
<1>3. \A d \in Calls : d # c /\ Moved(d, x) => Moved(d, x)'
  BY DEF Moved, AccessStep
<1>4. CASE fh'[x] # fh[x]
  <2>1. ~Steady
    BY <1>4 DEF Steady
  <2>2. Enters(c) \/ Follows(c) \/ Clears(c) \/ Erases(c)
    BY <2>1, WriteKinds
  <2>3. call[c].h \in Handles
    BY <2>1, WriteKinds
  <2>4. QED
    BY <1>2, <1>4, <2>2, <2>3 DEF Enters, Follows, Clears, Erases, Puts
<1>5. CASE fh'[x] = fh[x]
  <2> DEFINE h == fh[x]
  <2>1. h \in Handles /\ h # None /\ h \notin displaced
    BY <1>2, <1>5
  <2>2. fn[h] = x \/ \E d \in Calls : Moved(d, x)
    BY <2>1 DEF Forward
  <2>3. CASE fn[h] = x /\ fn'[h] = fn[h]
    BY <1>5, <2>3
  <2>4. CASE fn[h] = x /\ fn'[h] # fn[h]
    <3>1. h = call[c].h /\ (Follows(c) \/ Erases(c)) /\ rq[c].p = x
      BY <2>1, <2>4, NameChanges
    <3>2. CASE Follows(c)
      BY <3>1, <3>2 DEF Follows, Moved
    <3>3. CASE Erases(c)
      BY <1>5, <2>1, <3>1, <3>3 DEF Erases
    <3>4. QED
      BY <3>1, <3>2, <3>3
  <2>5. ASSUME NEW d \in Calls, Moved(d, x)
        PROVE  \E e \in Calls : Moved(e, x)'
    <3>1. CASE d # c
      BY <1>3, <2>5, <3>1
    <3>2. CASE d = c
      <4>1. call[c].pc = "mv_cleanup" /\ rq[c].pc = "rename_mv" /\ rq[c].p = x
        BY <2>5, <3>2 DEF Moved, AccessStep, InLookup, Store!DelPcs, Store!MvPcs
      <4>2. CASE Cleans(c)
        <5>1. call[c].p = x
          BY <1>1, <4>1, CallSettled DEF Store!MvPcs
        <5>2. fh'[x] = None
          BY <1>2, <4>2, <5>1 DEF Cleans
        <5>3. QED
          BY <1>5, <2>1, <5>2
      <4>3. CASE CallFails(c)
        BY <4>1, <4>3 DEF CallFails, Ended, Moved
      <4>4. QED
        BY <4>1, <4>2, <4>3 DEF AccessStep, GetsPath, Hits, Misses, Finds, Draws,
           Records, Carries, Removes
    <3>3. QED
      BY <3>1, <3>2
  <2>6. QED
    BY <2>2, <2>3, <2>4, <2>5
<1>6. QED
  BY <1>4, <1>5

LEMMA AccessDropping ==
    ASSUME AInv, Forward, Backward, DroppedDrawn, Dropping, NEW c \in Calls, AccessStep(c),
           rq' = rq, displaced' = displaced, dropped' = dropped
    PROVE  Dropping'
<1>1. NInv
  BY DEF AInv
<1>2. fh \in [Paths -> Handles \cup {None}] /\ fn \in [Handles -> Paths \cup {None}]
      /\ None \notin Paths \cup Handles /\ dropped \subseteq Handles
  BY <1>1, StoreAssumptions DEF NInv, Store!TypeOK, HistOK
<1> SUFFICES ASSUME NEW h \in dropped \ displaced, fn'[h] # None
             PROVE  \E d \in Calls : /\ rq[d].pc \in DelOfPcs /\ rq[d].p = fn'[h]
                                     /\ call'[d].pc = "done" => ~call'[d].ok
  BY DEF Dropping
<1>3. CASE fn'[h] = fn[h]
  <2>1. PICK d \in Calls : /\ rq[d].pc \in DelOfPcs /\ rq[d].p = fn[h]
                           /\ call[d].pc = "done" => ~call[d].ok
    BY <1>2, <1>3 DEF Dropping
  <2>2. CASE d # c
    BY <1>3, <2>1, <2>2 DEF AccessStep
  <2>3. CASE d = c
    <3>1. call[c].pc \in Store!DelPcs
      BY <1>1, <2>1, <2>3, RequestFacts, AtDel DEF AccessStep, Store!DelPcs, InLookup,
         Store!MvPcs
    <3>2. fn[h] \in Paths /\ fh[fn[h]] = h
      BY <1>2, <1>3 DEF Backward
    <3>3. ASSUME Removes(c) PROVE FALSE
      <4>1. call[c].p = rq[c].p /\ call[c].pc = "del_write" /\ call[c].h = fh[rq[c].p]
        BY <1>1, <3>3, CallSettled DEF Removes, Store!DelPcs, AInv, FoundStill, FoundPcs
      <4>2. call[c].h = h
        BY <2>1, <2>3, <3>2, <4>1
      <4>3. fn'[h] = None
        BY <1>2, <3>3, <4>2 DEF Removes, DB!DelBoth
      <4>4. QED
        BY <4>3
    <3>4. call'[c].pc = "done" => ~call'[c].ok
      BY <3>1, <3>3 DEF AccessStep, CallFails, GetsPath, Hits, Misses, Finds, Draws,
         Records, Carries, Cleans, Ended, Store!DelPcs
    <3>5. QED
      BY <1>3, <2>1, <2>3, <3>4
  <2>4. QED
    BY <2>2, <2>3
<1>4. CASE fn'[h] # fn[h]
  <2>1. h = call[c].h /\ call[c].pc \notin FreshPcs
    BY <1>2, <1>4, NameChanges DEF DroppedDrawn, Secret
  <2>2. Follows(c) /\ fn[h] = rq[c].p
    <3>1. (Follows(c) \/ Erases(c)) /\ fn[h] = rq[c].p
      BY <1>2, <1>4, <2>1, NameChanges
    <3>2. ~Erases(c)
      BY <1>2, <2>1 DEF Erases
    <3>3. QED
      BY <3>1, <3>2
  <2>3. Settled(rq[c]) /\ rq[c].p \in Paths /\ rq[c].pc = "rename_mv"
    BY <1>1, <2>2, SettledPaths DEF Follows, Settled
  <2>4. PICK d \in Calls : rq[d].pc \in DelOfPcs /\ rq[d].p = fn[h]
    BY <1>2, <2>2, <2>3 DEF Dropping
  <2>5. d # c /\ Settled(rq[d])
    BY <2>3, <2>4 DEF DelOfPcs, Settled
  <2>6. QED
    BY <2>2, <2>3, <2>4, <2>5, SettledApart
<1>5. QED
  BY <1>3, <1>4

LEMMA AccessGone ==
    ASSUME AInv, Forward, Gone, NEW c \in Calls, AccessStep(c), rq' = rq,
           UNCHANGED <<fsvars, hist>>
    PROVE  Gone'
<1>1. NInv
  BY DEF AInv
<1>2. tree' = tree /\ dropped' = dropped
  BY DEF fsvars, hist
<1>3. ASSUME NEW d \in Calls, rq[d].pc \in DelOfPcs
      PROVE  /\ ~Exists(rq[d].p)'
             /\ \A h \in Handles : fn'[h] = rq[d].p => h \in dropped
             /\ call'[d].pc = "done" /\ call'[d].ok => fh'[rq[d].p] = None
  <2>1. /\ ~Exists(rq[d].p) /\ \A h \in Handles : fn[h] = rq[d].p => h \in dropped
        /\ call[d].pc = "done" /\ call[d].ok => fh[rq[d].p] = None
    BY <1>3 DEF Gone, HandlesNaming
  <2>2. Settled(rq[d]) /\ rq[d].p \in Paths
    BY <1>1, <1>3, SettledPaths DEF Settled
  <2>3. ~Exists(rq[d].p)'
    BY <1>2, <2>1 DEF Exists
  <2>4. CASE d # c
    BY <2>1, <2>2, <2>3, <2>4, AccessLeaves DEF AccessStep
  <2>5. CASE d = c
    <3>1. call[c].pc \in Store!DelPcs /\ call[c].p = rq[c].p
      BY <1>1, <1>3, <2>5, RequestFacts, AtDel DEF AccessStep, Store!DelPcs, InLookup,
         Store!MvPcs
    <3>2. CASE Steady
      <4>1. ~Removes(c)
        <5>1. fh \in [Paths -> Handles \cup {None}] /\ None \notin Handles
          BY <1>1, StoreAssumptions DEF NInv, Store!TypeOK
        <5>2. call[c].pc = "del_write" => call[c].h # None /\ fh[rq[c].p] = call[c].h
          BY <1>1, <3>1, RequestFacts, StoreAssumptions
             DEF Store!LocalOK, AInv, FoundStill, FoundPcs
        <5>3. QED
          BY <2>2, <2>5, <3>1, <3>2, <5>1, <5>2 DEF Removes, DB!DelBoth, Steady
      <4>2. ~(call'[c].pc = "done" /\ call'[c].ok)
        BY <3>1, <4>1 DEF AccessStep, CallFails, GetsPath, Hits, Misses, Finds, Draws,
           Records, Carries, Cleans, Ended, Store!DelPcs
      <4>3. QED
        BY <2>1, <2>3, <2>5, <3>2, <4>2 DEF Steady
    <3>3. CASE ~Steady
      <4>1. Erases(c)
        BY <3>1, <3>3, WriteKinds DEF Enters, Follows, Clears, FreshPcs, Store!DelPcs
      <4>2. None \notin Paths
        BY StoreAssumptions
      <4>3. QED
        BY <2>1, <2>2, <2>3, <2>5, <4>1, <4>2 DEF Erases
    <3>4. QED
      BY <3>2, <3>3
  <2>6. QED
    BY <2>4, <2>5
<1>4. QED
  BY <1>2, <1>3 DEF Gone, HandlesNaming

(* An mv that another request's access finds under way.                    *)
LEMMA AccessOtherMv ==
    ASSUME AInv, Forward, Moving, NEW c \in Calls, AccessStep(c), rq' = rq,
           UNCHANGED <<fsvars, hist>>, NEW d \in Calls, d # c, rq[d].pc = "rename_mv"
    PROVE  MvTree(d)' /\ MvStale(d)' /\ MvCarried(d)' /\ MvOver(d)'
<1> DEFINE p == rq[d].p
           q == rq[d].q
<1>1. NInv /\ call'[d] = call[d]
  BY DEF AInv, AccessStep
<1>2. tree' = tree /\ given' = given /\ displaced' = displaced /\ dropped' = dropped
      /\ Known' = Known
  BY DEF fsvars, hist, Known
<1>3. Settled(rq[d]) /\ p \in Paths /\ q \in Paths
  BY <1>1, SettledPaths DEF Settled
<1>4. /\ fh'[p] = fh[p] /\ fh'[q] = fh[q]
      /\ \A h \in Handles : fn'[h] = p => fn[h] = p
      /\ \A h \in Handles : fn'[h] = q => fn[h] = q
  BY <1>3, AccessLeaves
<1>5. MvTree(d) /\ MvStale(d) /\ MvCarried(d) /\ MvOver(d)
  BY DEF Moving
<1>6. MvTree(d)'
  BY <1>2, <1>5 DEF MvTree, Exists
<1>7. MvStale(d)'
  BY <1>1, <1>2, <1>4, <1>5 DEF MvStale, Stale, HandlesNaming, Known
<1>8. MvCarried(d)'
  <2>1. SUFFICES ASSUME call[d].pc = "mv_cleanup", call[d].h \notin displaced
                 PROVE  fn'[call[d].h] = fn[call[d].h]
    BY <1>1, <1>2, <1>4, <1>5 DEF MvCarried
  <2>2. call[d].h \in Handles
    BY <1>1, <2>1, RequestFacts DEF Store!LocalOK
  <2>3. fh[q] = call[d].h /\ fn[call[d].h] = q
    BY <1>5, <2>1 DEF MvCarried
  <2>4. SUFFICES ASSUME fn'[call[d].h] # fn[call[d].h] PROVE FALSE
    OBVIOUS
  <2>5. Follows(c) \/ Erases(c)
    BY <1>3, <2>2, <2>3, <2>4, NameChanges
  <2>6. rq[c].p = q
    BY <2>1, <2>2, <2>3, <2>4, <1>3, NameChanges
  <2>7. Settled(rq[c]) /\ rq[c].p \in Paths
    BY <1>1, <2>5, SettledPaths DEF Follows, Erases, Settled
  <2>8. QED
    BY <1>3, <2>6, <2>7, SettledApart
<1>9. MvOver(d)'
  BY <1>1, <1>2, <1>4, <1>5 DEF MvOver, HandlesNaming, Known
<1>10. QED
  BY <1>6, <1>7, <1>8, <1>9

LEMMA AccessOwnMv ==
    ASSUME AInv, Missed, Forward, Backward, Moving, NEW c \in Calls, AccessStep(c),
           rq' = rq, UNCHANGED <<fsvars, hist>>, rq[c].pc = "rename_mv"
    PROVE  MvTree(c)' /\ MvStale(c)' /\ MvCarried(c)' /\ MvOver(c)'
<1> DEFINE p == rq[c].p
           q == rq[c].q
           g == call[c].h
<1>1. NInv /\ call[c].pc \in Store!MvPcs
  BY RequestFacts, AtMv DEF AInv, AccessStep, InLookup, Store!DelPcs, Store!MvPcs
<1>2. tree' = tree /\ given' = given /\ displaced' = displaced /\ dropped' = dropped
      /\ Known' = Known
  BY DEF fsvars, hist, Known
<1>3. /\ Settled(rq[c]) /\ p \in Paths /\ q \in Paths
      /\ call[c].p = p /\ call[c].q = q
      /\ fh \in [Paths -> Handles \cup {None}] /\ fn \in [Handles -> Paths \cup {None}]
      /\ None \notin Paths \cup Handles
  BY <1>1, CallSettled, SettledPaths, StoreAssumptions DEF NInv, Store!TypeOK
<1>4. MvTree(c) /\ MvStale(c) /\ MvCarried(c) /\ MvOver(c)
  BY DEF Moving
<1>5. MvTree(c)'
  BY <1>2, <1>4 DEF MvTree, Exists
<1>6. Known \subseteq Handles
  BY DEF Known
<1>7. CASE Steady
  <2>1. ~(call'[c].pc = "done" /\ call'[c].ok)
    <3>1. g = None \/ call[c].pc \notin FoundPcs \cup FreshPcs \/ g \in Handles
      BY <1>1, RequestFacts DEF Store!LocalOK, FoundPcs, FreshPcs
    <3>2. ~Cleans(c)
      <4>1. call[c].pc = "mv_cleanup" => fh[p] = g /\ g \in Handles
        BY <1>1, <1>3, RequestFacts DEF AInv, FoundStill, FoundPcs, Store!LocalOK
      <4>2. QED
        BY <1>3, <1>7, <4>1 DEF Cleans, Steady
    <3>3. ~(Carries(c) /\ call[c].pc = "mv_write_new")
      <4>1. call[c].pc = "mv_write_new" => g \in Handles /\ \A x \in Paths : fh[x] # g
        BY FreshUnseen DEF FreshPcs
      <4>2. QED
        BY <1>3, <1>7, <4>1 DEF Carries, Steady, DB!PutBoth
    <3>4. QED
      BY <1>1, <3>2, <3>3 DEF AccessStep, CallFails, GetsPath, Hits, Misses, Finds, Draws,
         Records, Carries, Removes, Ended, Store!MvPcs
  <2>2. call'[c].pc # "mv_cleanup" \/ Follows(c)
    <3>1. call'[c].pc = "mv_cleanup" => Carries(c) /\ call[c].pc = "mv_write"
      BY <1>1 DEF AccessStep, CallFails, GetsPath, Hits, Misses, Finds, Draws,
         Records, Carries, Cleans, Removes, Ended, Store!MvPcs
    <3>2. call[c].pc = "mv_write" => fh[p] = g /\ g \in Handles
      BY <1>1, <1>3, RequestFacts DEF AInv, FoundStill, FoundPcs, Store!LocalOK
    <3>3. Carries(c) => Puts(q, g) /\ call'[c].h = g
      BY <1>1, <1>3, RequestFacts DEF Carries, DB!PutBoth, Puts, Store!LocalOK
    <3>4. QED
      BY <3>1, <3>2, <3>3 DEF Follows
  <2>3. Stale(call'[c]) => Stale(call[c])
    BY <1>1 DEF AccessStep, CallFails, GetsPath, Hits, Misses, Finds, Draws,
       Records, Carries, Cleans, Removes, Ended, Store!MvPcs, Stale
  <2>4. MvStale(c)'
    BY <1>2, <1>4, <1>7, <2>3 DEF MvStale, Steady, HandlesNaming, Known, Stale
  <2>5. MvOver(c)'
    BY <2>1 DEF MvOver
  <2>6. MvCarried(c)'
    <3>1. SUFFICES ASSUME call'[c].pc = "mv_cleanup"
                   PROVE  /\ fh'[q] = call'[c].h
                          /\ call'[c].h \notin displaced => fn'[call'[c].h] = q /\ p # q
      BY <1>2 DEF MvCarried
    <3>2. Follows(c)
      BY <2>2, <3>1
    <3>3. g \in Handles
      BY <1>1, <3>2, RequestFacts DEF Follows, Store!LocalOK
    <3>4. g \notin displaced => fn[g] = p
      BY <1>3, <3>2, FoundNamed DEF Follows
    <3>5. p = q => g \in displaced \/ fn[g] # p
      BY <1>4, <3>2, <3>3 DEF Follows, MvStale, Stale, HandlesNaming
    <3>6. QED
      BY <1>3, <3>2, <3>3, <3>4, <3>5 DEF Follows, Puts
  <2>7. QED
    BY <1>5, <2>4, <2>5, <2>6
<1>8. CASE ~Steady /\ Enters(c)
  <2>1. /\ call[c].pc = "mv_write_new" /\ Puts(q, g) /\ g \in Handles /\ fh[p] = None
        /\ g \notin Known
    BY <1>1, <1>3, <1>8, FreshUnseen DEF Enters, FreshPcs, LookPcs, Store!MvPcs, Missed
  <2>2. MvOver(c)'
    <3>1. p # q => fh'[p] = None /\ fh'[q] # None
      BY <1>3, <2>1 DEF Puts
    <3>2. ASSUME NEW h \in Handles, fn'[h] = p, h \in Known PROVE h \in displaced
      BY <1>3, <2>1, <3>2 DEF Puts, Backward
    <3>3. QED
      BY <1>2, <3>1, <3>2 DEF MvOver, HandlesNaming
  <2>3. MvStale(c)' /\ MvCarried(c)'
    BY <1>8 DEF MvStale, MvCarried, Enters, Ended, Stale
  <2>4. QED
    BY <1>5, <2>2, <2>3
<1>9. CASE ~Steady /\ Follows(c)
  <2>1. g \in Handles
    BY <1>1, <1>9, RequestFacts DEF Follows, Store!LocalOK
  <2>2. g \notin displaced => fn[g] = p
    BY <1>3, <1>9, FoundNamed DEF Follows
  <2>3. p = q => g \in displaced \/ fn[g] # p
    BY <1>4, <1>9, <2>1 DEF Follows, MvStale, Stale, HandlesNaming
  <2>4. MvCarried(c)'
    BY <1>2, <1>3, <1>9, <2>1, <2>2, <2>3 DEF Follows, Puts, MvCarried
  <2>5. MvStale(c)' /\ MvOver(c)'
    BY <1>9 DEF MvStale, MvOver, Follows, Stale
  <2>6. QED
    BY <1>5, <2>4, <2>5
<1>10. CASE ~Steady /\ Clears(c)
  <2>1. /\ fh[p] = g /\ g \in Handles /\ fh[q] = g
        /\ g \notin displaced => fn[g] = q /\ p # q
    BY <1>1, <1>4, <1>10, RequestFacts DEF Clears, Store!LocalOK, MvCarried
  <2>2. MvOver(c)'
    <3>1. /\ \A x \in Paths : fh'[x] = IF x = p THEN None ELSE fh[x]
          /\ fn' = fn
      BY <1>10 DEF Clears
    <3>2. p # q => fh'[p] = None /\ fh'[q] # None
      BY <1>3, <2>1, <3>1
    <3>3. ASSUME NEW h \in Handles, fn[h] = p, h \notin displaced PROVE FALSE
      <4>1. fh[p] = h
        BY <1>3, <3>3 DEF Backward
      <4>2. QED
        BY <2>1, <3>3, <4>1
    <3>4. QED
      BY <1>2, <3>1, <3>2, <3>3 DEF MvOver, HandlesNaming
  <2>3. MvStale(c)' /\ MvCarried(c)'
    BY <1>10 DEF MvStale, MvCarried, Clears, Ended, Stale
  <2>4. QED
    BY <1>5, <2>2, <2>3
<1>11. QED
  BY <1>1, <1>7, <1>8, <1>9, <1>10, WriteKinds DEF Erases, Store!MvPcs

LEMMA AccessMoving ==
    ASSUME AInv, Missed, Forward, Backward, Moving, NEW c \in Calls, AccessStep(c),
           rq' = rq, UNCHANGED <<fsvars, hist>>
    PROVE  Moving'
BY AccessOtherMv, AccessOwnMv DEF Moving

LEMMA AccessGood ==
    ASSUME AInv, Forward, Moving, Gone, HandleStaysGood, NEW c \in Calls, AccessStep(c),
           rq' = rq, UNCHANGED <<fsvars, hist>>
    PROVE  HandleStaysGood'
<1>1. NInv
  BY DEF AInv
<1>2. tree' = tree /\ given' = given /\ displaced' = displaced /\ dropped' = dropped
      /\ Known' = Known
  BY DEF fsvars, hist, Known
<1>3. \A x : GivingUp(x)' = GivingUp(x)
  BY DEF GivingUp
<1>4. ASSUME NEW h \in Known \ (displaced \cup dropped)
      PROVE  fn'[h] # None /\ (tree[fn'[h]] = given[h].i \/ GivingUp(fn'[h]))
  <2>1. h \in Handles /\ fn[h] # None /\ (tree[fn[h]] = given[h].i \/ GivingUp(fn[h]))
    BY DEF HandleStaysGood, Known
  <2>2. CASE fn'[h] = fn[h]
    BY <2>1, <2>2
  <2>3. CASE fn'[h] # fn[h]
    <3>1. /\ h = call[c].h /\ fn[h] = rq[c].p
          /\ Follows(c) \/ Erases(c)
      BY <2>1, <2>3, NameChanges
    <3>2. CASE Follows(c)
      <4>1. fn'[h] = rq[c].q /\ rq[c].q # None
        BY <1>1, <2>1, <3>1, <3>2, SettledPaths, StoreAssumptions
           DEF Follows, Puts, Settled
      <4>2. tree[rq[c].q] = given[h].i
        BY <3>1, <3>2 DEF Follows, Moving, MvStale, Stale
      <4>3. QED
        BY <4>1, <4>2
    <3>3. CASE Erases(c)
      BY <2>1, <3>1, <3>3 DEF Erases, Gone, HandlesNaming
    <3>4. QED
      BY <3>1, <3>2, <3>3
  <2>4. QED
    BY <2>2, <2>3
<1>5. QED
  BY <1>2, <1>3, <1>4 DEF HandleStaysGood

LEMMA AccessHolds ==
    ASSUME HInv, "get" \notin Faults, NEW c \in Calls, Access(c)
    PROVE  HInv'
<1>1. NInv /\ AInv'
  BY AccessApart DEF HInv, AInv
<1>2. /\ AccessStep(c) /\ rq' = rq /\ UNCHANGED <<fsvars, hist>>
      /\ given' = given /\ displaced' = displaced /\ dropped' = dropped
  BY <1>1, AccessIs, AccessKinds DEF hist
<1>3. Missed' /\ Answered' /\ DroppedDrawn'
  BY <1>1, <1>2, AccessMissed, AccessAnswered, AccessDrawn DEF HInv, AInv
<1>4. Forward' /\ Backward'
  BY <1>2, AccessForward, AccessBackward DEF HInv
<1>5. Dropping' /\ Gone'
  BY <1>2, AccessDropping, AccessGone DEF HInv
<1>6. Moving' /\ HandleStaysGood'
  BY <1>2, AccessMoving, AccessGood DEF HInv
<1>7. Givens'
  BY <1>2 DEF HInv, Givens, Known
<1>8. QED
  BY <1>1, <1>3, <1>4, <1>5, <1>6, <1>7 DEF HInv

-----------------------------------------------------------------------------
(* A handler.                                                              *)

LEMMA HandlerLeaves ==
    ASSUME AInv, NEW c \in Calls, HandlerStep(c), NEW d \in Calls, d # c,
           Settled(rq[d]), NEW x \in {rq[d].p, rq[d].q} \cap Paths
    PROVE  tree'[x] = tree[x]
<1>1. NInv /\ None \notin Paths
  BY StoreAssumptions DEF AInv
<1>2. CASE Holding(rq[d])
  <2>1. rq[d].q = None
    BY <1>1, <1>2, SettledPaths DEF Holding, LookPcs, StatPcs
  <2>2. QED
    BY <1>1, <1>2, <2>1, HeldStays
<1>3. CASE ~Holding(rq[d])
  <2>1. rq[d].pc \notin RacePcs
    BY <1>3 DEF Holding, Settled, RacePcs, DelOfPcs
  <2>2. Active(d) /\ Active(c)
    BY <1>1, SettledPaths, HandlerCalls
  <2>3. Apart(rq[d], rq[c])
    BY <1>1, <2>1, <2>2, Alone DEF AInv
  <2>4. x \in Targets(rq[d])
    BY <1>1, SettledPaths
  <2>5. SUFFICES ASSUME tree'[x] # tree[x] PROVE FALSE
    OBVIOUS
  <2>6. PICK a \in {rq[c].p, rq[c].q} : a \in Paths /\ IsPrefix(a, x)
    BY <1>1, <2>5, HandlerTree
  <2>7. a \in Targets(rq[c])
    BY <1>1, <2>6, HandlerOwnPaths
  <2>8. QED
    BY <2>3, <2>4, <2>6, <2>7 DEF Apart
<1>4. QED
  BY <1>2, <1>3

(* The handler that waits for a del or an mv only ends.                    *)
LEMMA FinisherEnds ==
    ASSUME NEW c \in Calls, HandlerStep(c), rq[c].pc \in DelOfPcs \cup {"rename_mv"}
    PROVE  Ends(c)
BY DEF HandlerStep, Goes, Joins, JoinsFirst, JoinsSecond, Looks, Takes, Deletes, Renamed,
   Linked, DelOfPcs, MidPcs, OnePcs, TwoPcs, SecondPcs, LookPcs

LEMMA HandlerKeeps ==
    ASSUME AInv, NEW c \in Calls, HandlerStep(c)
    PROVE  /\ UNCHANGED <<fh, fn, issued>>
           /\ displaced \subseteq displaced' /\ dropped \subseteq dropped'
           /\ call[c].pc \in {"idle", "done"} /\ call'[c].pc \in StartPcs
           /\ \A d \in Calls : d # c => rq'[d] = rq[d] /\ call'[d] = call[d]
           /\ dropped' # dropped => Deletes(c)
           /\ Known \subseteq Known'
           /\ \A h \in Known : given'[h] = given[h]
<1>1. Only(c) /\ call[c].pc \in {"idle", "done"} /\ call'[c].pc \in StartPcs
  BY HandlerCalls DEF AInv
<1>2. displaced \subseteq displaced' /\ dropped \subseteq dropped'
      /\ (dropped' # dropped => Deletes(c))
  BY DEF HandlerStep, Ends, Goes, Joins, JoinsFirst, JoinsSecond, Looks, Takes, Deletes,
     Renamed, Linked, hist
<1>3. \/ UNCHANGED given
      \/ Ends(c) /\ Give(Offered(c), rq[c].p)
  <2>1. CASE Ends(c)
    BY <2>1 DEF Ends
  <2>2. CASE ~Ends(c)
    BY <2>2 DEF HandlerStep, Goes, Joins, JoinsFirst, JoinsSecond, Looks, Takes, Deletes,
       Renamed, Linked, hist
  <2>3. QED
    BY <2>1, <2>2
<1>4. \A h \in Known : given'[h] = given[h]
  BY <1>3 DEF Give, Known, AInv, NInv, HistOK
<1>5. QED
  BY <1>1, <1>2, <1>4 DEF Only, Known

LEMMA HandlerMissed ==
    ASSUME AInv, Missed, NEW c \in Calls, HandlerStep(c)
    PROVE  Missed'
<1>1. UNCHANGED fh /\ call'[c].pc \in StartPcs
      /\ \A d \in Calls : d # c => call'[d] = call[d]
  BY HandlerKeeps
<1>2. QED
  BY <1>1 DEF Missed, StartPcs, FreshPcs

LEMMA HandlerAnswered ==
    ASSUME AInv, NInv', Answered, NEW c \in Calls, HandlerStep(c)
    PROVE  Answered'
<1>1. NInv /\ UNCHANGED fh /\ call'[c].pc \in StartPcs
      /\ \A d \in Calls : d # c => rq'[d] = rq[d] /\ call'[d] = call[d]
  BY HandlerKeeps DEF AInv
<1>2. ASSUME NEW d \in Calls, d # c, Offered(d)' # None
      PROVE  fh'[rq'[d].p] = Offered(d)'
  <2>1. Offered(d)' = Offered(d)
    BY <1>1, <1>2 DEF Offered
  <2>2. QED
    BY <1>1, <1>2, <2>1 DEF Answered
<1>3. ASSUME Offered(c)' # None
      PROVE  fh'[rq'[c].p] = Offered(c)'
  <2>1. rq'[c].obj # None /\ Offered(c)' = rq'[c].obj
    BY <1>1, <1>3 DEF Offered, StartPcs
  <2>2. rq'[c].pc \in StatPcs
    <3>1. Locals(rq[c])'
      BY <1>1, RequestFacts, PTL
    <3>2. QED
      BY <2>1, <3>1 DEF Locals
  <2>3. Takes(c)
    BY <2>2 DEF HandlerStep, Ends, Goes, Joins, JoinsFirst, JoinsSecond, Looks, Takes,
       Deletes, Renamed, Linked, StatPcs, MidPcs, SecondPcs, LookPcs, DelOfPcs, Idle
  <2>4. Offered(c) = call[c].h /\ rq'[c].obj = call[c].h /\ rq'[c].p = rq[c].p
    <3>1. rq[c].obj = None
      BY <1>1, <2>3, RequestFacts, AtLook DEF Takes
    <3>2. QED
      BY <2>3, <3>1 DEF Takes, Keeps, Offered, LookPcs
  <2>5. QED
    BY <1>1, <2>1, <2>4 DEF Answered
<1>4. QED
  BY <1>2, <1>3 DEF Answered

LEMMA HandlerForward ==
    ASSUME AInv, Forward, NEW c \in Calls, HandlerStep(c)
    PROVE  Forward'
<1>1. /\ UNCHANGED <<fh, fn>> /\ displaced \subseteq displaced'
      /\ \A d \in Calls : d # c => rq'[d] = rq[d] /\ call'[d] = call[d]
      /\ call[c].pc \in {"idle", "done"}
  BY HandlerKeeps
<1> SUFFICES ASSUME NEW x \in Paths, fh[x] # None, fh[x] \notin displaced',
                    NEW d \in Calls, Moved(d, x)
             PROVE  Moved(d, x)'
  BY <1>1 DEF Forward
<1>2. CASE d # c
  BY <1>1, <1>2 DEF Moved
<1>3. CASE d = c
  <2>1. rq[c].pc = "rename_mv" /\ rq[c].p = x /\ ~call[c].ok
    BY <1>1, <1>3 DEF Moved
  <2>2. displaced' = displaced \cup HandlesOf(x)
    BY <2>1, FinisherEnds DEF Ends
  <2>3. QED
    BY <2>2 DEF HandlesOf
<1>4. QED
  BY <1>2, <1>3

LEMMA HandlerBackward ==
    ASSUME AInv, Backward, NEW c \in Calls, HandlerStep(c)
    PROVE  Backward'
BY HandlerKeeps DEF Backward

LEMMA HandlerDrawn ==
    ASSUME AInv, DroppedDrawn, NEW c \in Calls, HandlerStep(c)
    PROVE  DroppedDrawn'
<1>1. /\ UNCHANGED <<fh, fn, issued>> /\ call'[c].pc \in StartPcs
      /\ \A d \in Calls : d # c => call'[d] = call[d]
      /\ dropped' # dropped => Deletes(c)
  BY HandlerKeeps
<1>2. \A h : Secret(h)' => Secret(h)
  BY <1>1 DEF Secret, StartPcs, FreshPcs
<1>3. ASSUME NEW h \in dropped', h \notin dropped
      PROVE  h \in issued /\ ~Secret(h)
  <2>1. Deletes(c)
    BY <1>1, <1>3
  <2>2. h \in HandlesNaming(rq[c].p) /\ rq[c].p \in Paths
    BY <1>3, <2>1 DEF Deletes
  <2>3. h \in Handles /\ fn[h] # None
    BY <2>2, StoreAssumptions DEF HandlesNaming
  <2>4. h \in issued
    BY <2>3 DEF AInv, Store!IInv, Store!AllIssued
  <2>5. ~Secret(h)
    BY <2>3 DEF Secret, AInv, Store!IInv, Store!FreshHeld, FreshPcs
  <2>6. QED
    BY <2>4, <2>5
<1>4. QED
  BY <1>1, <1>2, <1>3 DEF DroppedDrawn

LEMMA HandlerDropping ==
    ASSUME AInv, Backward, Dropping, NEW c \in Calls, HandlerStep(c)
    PROVE  Dropping'
<1>1. /\ UNCHANGED <<fh, fn>> /\ displaced \subseteq displaced'
      /\ \A d \in Calls : d # c => rq'[d] = rq[d] /\ call'[d] = call[d]
      /\ call[c].pc \in {"idle", "done"}
      /\ dropped' # dropped => Deletes(c)
      /\ NInv /\ dropped \subseteq Handles
  BY HandlerKeeps DEF AInv, NInv, HistOK
<1> SUFFICES ASSUME NEW h \in dropped' \ displaced', fn[h] # None
             PROVE  \E d \in Calls : /\ rq'[d].pc \in DelOfPcs /\ rq'[d].p = fn[h]
                                     /\ call'[d].pc = "done" => ~call'[d].ok
  BY <1>1 DEF Dropping
<1>2. CASE h \in dropped
  <2>1. PICK d \in Calls : /\ rq[d].pc \in DelOfPcs /\ rq[d].p = fn[h]
                           /\ call[d].pc = "done" => ~call[d].ok
    BY <1>1, <1>2 DEF Dropping
  <2>2. CASE d = c
    <3>1. call[c].pc = "done"
      BY <1>1, <2>1, <2>2, RequestFacts, AtDel
    <3>2. displaced' = displaced \cup HandlesOf(fn[h])
      BY <2>1, <2>2, <3>1, FinisherEnds DEF Ends
    <3>3. QED
      BY <1>1, <1>2, <3>2 DEF HandlesOf, HandlesNaming
  <2>3. QED
    BY <1>1, <2>1, <2>2
<1>3. CASE h \notin dropped
  <2>1. Deletes(c)
    BY <1>1, <1>3
  <2>2. rq'[c].pc \in DelOfPcs /\ rq'[c].p = rq[c].p /\ call'[c].pc = "del_get"
    BY <2>1 DEF Deletes, Keeps, Store!Idle
  <2>3. fn[h] = rq[c].p
    BY <1>3, <2>1 DEF Deletes, HandlesNaming
  <2>4. QED
    BY <2>2, <2>3
<1>4. QED
  BY <1>2, <1>3

LEMMA HandlerGone ==
    ASSUME AInv, Gone, NEW c \in Calls, HandlerStep(c)
    PROVE  Gone'
<1>1. /\ UNCHANGED <<fh, fn>> /\ dropped \subseteq dropped'
      /\ \A d \in Calls : d # c => rq'[d] = rq[d] /\ call'[d] = call[d]
      /\ NInv
  BY HandlerKeeps DEF AInv
<1>2. ASSUME NEW d \in Calls, rq'[d].pc \in DelOfPcs
      PROVE  /\ ~(rq'[d].p \in Paths /\ tree'[rq'[d].p] # None)
             /\ HandlesNaming(rq'[d].p) \subseteq dropped'
             /\ call'[d].pc = "done" /\ call'[d].ok => fh[rq'[d].p] = None
  <2>1. CASE d # c
    <3>1. rq'[d] = rq[d] /\ call'[d] = call[d] /\ Settled(rq[d]) /\ rq[d].p \in Paths
      BY <1>1, <1>2, <2>1, SettledPaths DEF Settled
    <3>2. tree'[rq[d].p] = tree[rq[d].p]
      BY <2>1, <3>1, HandlerLeaves
    <3>3. QED
      BY <1>1, <1>2, <3>1, <3>2 DEF Gone, Exists
  <2>2. CASE d = c
    <3>1. Deletes(c)
      BY <1>2, <2>2 DEF HandlerStep, Ends, Goes, Joins, JoinsFirst, JoinsSecond, Looks,
         Takes, Renamed, Linked, StatPcs, MidPcs, SecondPcs, LookPcs, DelOfPcs, Idle
    <3>2. tree \in [Paths -> Inodes \cup {None}]
      BY <1>1 DEF NInv, TreeOK, TreeTypeOK
    <3>3. tree'[rq[c].p] = None /\ rq'[c].p = rq[c].p /\ call'[c].pc = "del_get"
          /\ HandlesNaming(rq[c].p) \subseteq dropped'
      BY <3>1, <3>2 DEF Deletes, Keeps, Drop, Store!Idle, Exists, fsvars
    <3>4. QED
      BY <2>2, <3>3
  <2>3. QED
    BY <2>1, <2>2
<1>3. QED
  BY <1>1, <1>2 DEF Gone, Exists, HandlesNaming

(* A handle that becomes known is that of the request's path.              *)
LEMMA HandlerGives ==
    ASSUME AInv, Answered, Forward, NEW c \in Calls, HandlerStep(c),
           NEW h \in Known', h \notin Known
    PROVE  /\ Ends(c) /\ rq[c].pc \in LookPcs \cup StatPcs
           /\ Settled(rq[c]) /\ rq[c].p \in Paths /\ h \in Handles
           /\ given'[h].i = tree[rq[c].p] /\ Exists(rq[c].p)
           /\ h \notin displaced => fn[h] = rq[c].p
<1>1. NInv /\ given \in [Handles -> [p : Paths, i : Inodes \cup {None}] \cup {None}]
      /\ None \notin Handles
  BY StoreAssumptions DEF AInv, NInv, HistOK
<1>2. given' # given /\ h \in Handles /\ given[h] = None
  BY DEF Known
<1>3. Ends(c)
  BY <1>2 DEF HandlerStep, Goes, Joins, JoinsFirst, JoinsSecond, Looks, Takes, Deletes,
     Renamed, Linked, hist
<1>4. Offered(c) # None /\ Give(Offered(c), rq[c].p)
  BY <1>2, <1>3 DEF Ends
<1>5. /\ Settled(rq[c]) /\ rq[c].pc \in LookPcs \cup StatPcs
      /\ Offered(c) \in Handles /\ rq[c].p \in Paths
  BY <1>1, <1>4, OfferedBy
<1>6. h = Offered(c) /\ given'[h] = [p |-> rq[c].p, i |-> tree[rq[c].p]]
  <2>1. given' = [given EXCEPT ![Offered(c)] =
                    IF @ = None THEN [p |-> rq[c].p, i |-> tree[rq[c].p]] ELSE @]
    BY <1>4 DEF Give
  <2>2. given'[h] # None
    BY DEF Known
  <2>3. h = Offered(c)
    BY <1>1, <1>2, <1>5, <2>1, <2>2
  <2>4. QED
    BY <1>1, <1>2, <2>1, <2>3
<1>7. Exists(rq[c].p)
  BY <1>5 DEF AInv, MadeThere, Holding
<1>8. fh[rq[c].p] = h
  BY <1>4, <1>6 DEF Answered
<1>9. ~Moved(c, rq[c].p)
  BY <1>5 DEF Moved, LookPcs, StatPcs
<1>10. h \notin displaced => fn[h] = rq[c].p
  BY <1>1, <1>2, <1>5, <1>8, <1>9, NamedBy
<1>11. QED
  BY <1>2, <1>3, <1>5, <1>6, <1>7, <1>10

LEMMA HandlerGivens ==
    ASSUME AInv, Answered, Forward, Givens, NEW c \in Calls, HandlerStep(c)
    PROVE  Givens'
<1>1. tree \in [Paths -> Inodes \cup {None}]
  BY DEF AInv, NInv, TreeOK, TreeTypeOK
<1>2. ASSUME NEW h \in Known' PROVE given'[h].i \in Inodes
  <2>1. CASE h \in Known
    BY <2>1, HandlerKeeps DEF Givens
  <2>2. CASE h \notin Known
    BY <1>1, <2>2, HandlerGives DEF Exists
  <2>3. QED
    BY <2>1, <2>2
<1>3. QED
  BY <1>2 DEF Givens

LEMMA HandlerOtherMv ==
    ASSUME AInv, Answered, Forward, Moving, NEW c \in Calls, HandlerStep(c),
           NEW d \in Calls, d # c, rq[d].pc = "rename_mv"
    PROVE  MvTree(d)' /\ MvStale(d)' /\ MvCarried(d)' /\ MvOver(d)'
<1> DEFINE p == rq[d].p
           q == rq[d].q
<1>1. /\ NInv /\ UNCHANGED <<fh, fn>>
      /\ displaced \subseteq displaced' /\ dropped \subseteq dropped'
      /\ rq'[d] = rq[d] /\ call'[d] = call[d]
      /\ Known \subseteq Known' /\ \A h \in Known : given'[h] = given[h]
  BY HandlerKeeps DEF AInv
<1>2. Settled(rq[d]) /\ p \in Paths /\ q \in Paths
  BY <1>1, SettledPaths DEF Settled
<1>3. tree'[p] = tree[p] /\ tree'[q] = tree[q]
  BY <1>2, HandlerLeaves
<1>4. MvTree(d) /\ MvStale(d) /\ MvCarried(d) /\ MvOver(d)
  BY DEF Moving
<1>5. ASSUME NEW h \in Known', h \notin Known, h \notin displaced
      PROVE  fn[h] # p
  <2>1. Settled(rq[c]) /\ rq[c].p \in Paths /\ fn[h] = rq[c].p
    BY <1>5, HandlerGives
  <2>2. QED
    BY <1>2, <2>1, SettledApart
<1>6. MvTree(d)'
  BY <1>1, <1>2, <1>3, <1>4 DEF MvTree, Exists
<1>7. MvStale(d)'
  <2>1. SUFFICES ASSUME Stale(call[d])
                 PROVE  /\ HandlesNaming(q)' \subseteq displaced'
                        /\ \A h \in Known' \ (displaced' \cup dropped') :
                                fn[h] = p => tree'[q] = given'[h].i
    BY <1>1 DEF MvStale, Stale
  <2>2. HandlesNaming(q)' \subseteq displaced'
    BY <1>1, <1>4, <2>1 DEF MvStale, HandlesNaming
  <2>3. ASSUME NEW h \in Known', h \notin displaced', h \notin dropped', fn[h] = p
        PROVE  tree'[q] = given'[h].i
    <3>1. h \in Known /\ given'[h] = given[h]
      BY <1>1, <1>5, <2>3
    <3>2. QED
      BY <1>1, <1>3, <1>4, <2>1, <2>3, <3>1 DEF MvStale
  <2>4. QED
    BY <2>2, <2>3
<1>8. MvCarried(d)'
  BY <1>1, <1>4 DEF MvCarried
<1>9. MvOver(d)'
  <2>1. SUFFICES ASSUME call[d].pc = "done", call[d].ok
                 PROVE  HandlesNaming(p)' \cap Known' \subseteq displaced'
    BY <1>1, <1>4 DEF MvOver
  <2>2. ASSUME NEW h \in Known', h \in Handles, fn[h] = p
        PROVE  h \in displaced'
    BY <1>1, <1>4, <1>5, <2>1, <2>2 DEF MvOver, HandlesNaming
  <2>3. QED
    BY <1>1, <2>2 DEF HandlesNaming
<1>10. QED
  BY <1>6, <1>7, <1>8, <1>9

LEMMA HandlerOwnMv ==
    ASSUME AInv, HandleStaysGood, NEW c \in Calls, HandlerStep(c), rq'[c].pc = "rename_mv"
    PROVE  MvTree(c)' /\ MvStale(c)' /\ MvCarried(c)' /\ MvOver(c)'
<1> DEFINE p == rq[c].p
           q == rq[c].q
<1>1. NInv /\ TreeOK
  BY DEF AInv, NInv
<1>2. Renamed(c)
  BY DEF HandlerStep, Ends, Goes, Joins, JoinsFirst, JoinsSecond, Looks, Takes, Deletes,
     Linked, StatPcs, MidPcs, SecondPcs, LookPcs, DelOfPcs, Idle
<1>3. /\ RenameOk(p, q) /\ Rename(p, q) /\ rq[c].pc = "rename"
      /\ rq'[c].p = p /\ rq'[c].q = q /\ call'[c].pc = "mv_get"
      /\ displaced' = displaced \cup HandlesNaming(q) \cup HandlesBelow(p)
      /\ UNCHANGED <<given, dropped, fn>>
  BY <1>2 DEF Renamed, Keeps, Only, Store!Idle
<1>4. /\ p \in Paths /\ q \in Paths /\ Exists(q)'
      /\ tree'[q] = tree[p] /\ (Exists(p)' => tree'[p] = tree'[q])
  BY <1>1, <1>3, TreeRename, RenameMoves
<1>5. MvTree(c)'
  BY <1>3, <1>4 DEF MvTree, Exists
<1>6. MvCarried(c)' /\ MvOver(c)'
  BY <1>3 DEF MvCarried, MvOver
<1>7. ~GivingUp(p)
  <2>1. ASSUME NEW d \in Calls, Settled(rq[d]), rq[d].pc \in DelOfPcs \cup {"rename_mv"},
               rq[d].p = p
        PROVE  FALSE
    <3>1. d # c /\ Active(d) /\ Active(c) /\ rq[c].pc \notin RacePcs
      BY <1>3, <2>1 DEF DelOfPcs, RacePcs, Active
    <3>2. Apart(rq[c], rq[d])
      BY <1>1, <3>1, Alone DEF AInv
    <3>3. p \in Targets(rq[c]) /\ p \in AllPaths
      BY <1>1, <1>4, HandlerOwnPaths, PathsLong DEF AllPaths
    <3>4. p \in Targets(rq[d])
      BY <1>1, <2>1, SettledPaths
    <3>5. QED
      BY <3>2, <3>3, <3>4, ApartDiffer
  <2>2. QED
    BY <2>1 DEF GivingUp, Settled, DelOfPcs
<1>8. ASSUME NEW h \in Known, h \notin displaced, h \notin dropped, fn[h] = p
      PROVE  tree'[q] = given[h].i
  BY <1>4, <1>7, <1>8 DEF HandleStaysGood
<1>9. HandlesNaming(q)' = HandlesNaming(q) /\ Known' = Known
  BY <1>3 DEF HandlesNaming, Known
<1>10. MvStale(c)'
  BY <1>3, <1>8, <1>9 DEF MvStale
<1>11. QED
  BY <1>5, <1>6, <1>10

LEMMA HandlerMoving ==
    ASSUME AInv, Answered, Forward, Moving, HandleStaysGood, NEW c \in Calls, HandlerStep(c)
    PROVE  Moving'
<1>1. \A d \in Calls : d # c => rq'[d] = rq[d]
  BY HandlerKeeps
<1>2. QED
  BY <1>1, HandlerOtherMv, HandlerOwnMv DEF Moving

(* Where a good handle's file may go.                                      *)
LEMMA HandlerFile ==
    ASSUME AInv, NEW c \in Calls, HandlerStep(c), NEW h \in Handles, NEW x \in Paths,
           fn[h] = x, Exists(x), tree'[x] # tree[x]
    PROVE  h \in displaced' \cup dropped' \/ GivingUp(x)'
<1>1. TreeOK /\ tree \in [Paths -> Inodes \cup {None}] /\ x # None
  BY StoreAssumptions DEF AInv, NInv, TreeOK, TreeTypeOK
<1>2. Looks(c) \/ Deletes(c) \/ Renamed(c) \/ Linked(c)
  BY DEF HandlerStep, Ends, Goes, Joins, JoinsFirst, JoinsSecond, Takes, fsvars
<1>3. ~Looks(c) /\ ~Linked(c)
  BY <1>1 DEF Looks, Linked, MakeOk, Make, LinkOk, Link, fsvars, Exists
<1>4. CASE Deletes(c)
  BY <1>1, <1>4 DEF Deletes, Drop, HandlesNaming, fsvars
<1>5. CASE Renamed(c)
  <2>1. /\ RenameOk(rq[c].p, rq[c].q) /\ Rename(rq[c].p, rq[c].q)
        /\ rq'[c].pc = "rename_mv" /\ rq'[c].p = rq[c].p
        /\ displaced' = displaced \cup HandlesNaming(rq[c].q) \cup HandlesBelow(rq[c].p)
    BY <1>5 DEF Renamed, Keeps
  <2>2. x = rq[c].q \/ IsPrefix(rq[c].p, x)
    BY <1>1, <2>1, RenameMoves
  <2>3. CASE x = rq[c].q
    BY <2>1, <2>3 DEF HandlesNaming
  <2>4. CASE x = rq[c].p
    BY <2>1, <2>4 DEF GivingUp
  <2>5. CASE IsPrefix(rq[c].p, x) /\ x # rq[c].p
    BY <1>1, <2>1, <2>5 DEF HandlesBelow, IsStrictPrefix
  <2>6. QED
    BY <2>2, <2>3, <2>4, <2>5
<1>6. QED
  BY <1>2, <1>3, <1>4, <1>5

LEMMA HandlerGivesUp ==
    ASSUME AInv, Gone, Moving, NEW c \in Calls, HandlerStep(c), NEW h \in Known,
           fn[h] # None, GivingUp(fn[h])
    PROVE  h \in displaced' \cup dropped' \/ GivingUp(fn[h])'
<1>1. /\ NInv /\ UNCHANGED fn /\ displaced \subseteq displaced' /\ dropped \subseteq dropped'
      /\ \A d \in Calls : d # c => rq'[d] = rq[d]
      /\ call[c].pc \in {"idle", "done"} /\ h \in Handles
  BY HandlerKeeps DEF AInv, Known
<1>2. PICK d \in Calls : rq[d].pc \in DelOfPcs \cup {"rename_mv"} /\ rq[d].p = fn[h]
  BY DEF GivingUp, DelOfPcs
<1>3. CASE d # c
  BY <1>1, <1>2, <1>3 DEF GivingUp, DelOfPcs
<1>4. CASE d = c /\ rq[c].pc \in DelOfPcs
  BY <1>1, <1>2, <1>4 DEF Gone, HandlesNaming
<1>5. CASE d = c /\ rq[c].pc = "rename_mv"
  <2>1. Ends(c) /\ call[c].pc = "done"
    BY <1>1, <1>5, FinisherEnds, RequestFacts, AtMv DEF Store!MvPcs
  <2>2. CASE call[c].ok
    BY <1>1, <1>2, <1>5, <2>1, <2>2 DEF Moving, MvOver, HandlesNaming
  <2>3. CASE ~call[c].ok
    BY <1>1, <1>2, <1>5, <2>1, <2>3 DEF Ends, HandlesOf, HandlesNaming
  <2>4. QED
    BY <2>2, <2>3
<1>6. QED
  BY <1>2, <1>3, <1>4, <1>5

LEMMA HandlerGood ==
    ASSUME AInv, Answered, Forward, Gone, Moving, Givens, HandleStaysGood,
           NEW c \in Calls, HandlerStep(c)
    PROVE  HandleStaysGood'
<1>1. /\ NInv /\ UNCHANGED fn /\ displaced \subseteq displaced' /\ dropped \subseteq dropped'
      /\ \A h \in Known : given'[h] = given[h]
  BY HandlerKeeps DEF AInv
<1>2. fn \in [Handles -> Paths \cup {None}] /\ None \notin Paths /\ None \notin Inodes
  BY <1>1, StoreAssumptions, FileSystemAssumption DEF NInv, Store!TypeOK
<1>3. ASSUME NEW h \in Known', h \notin displaced', h \notin dropped'
      PROVE  fn[h] # None /\ (tree'[fn[h]] = given'[h].i \/ GivingUp(fn[h])')
  <2>1. CASE h \notin Known
    <3>1. /\ Ends(c) /\ rq[c].p \in Paths
          /\ given'[h].i = tree[rq[c].p] /\ fn[h] = rq[c].p
      BY <1>1, <1>3, <2>1, HandlerGives
    <3>2. tree' = tree
      BY <3>1 DEF Ends, fsvars
    <3>3. QED
      BY <1>2, <3>1, <3>2
  <2>2. CASE h \in Known
    <3>1. /\ h \in Handles /\ fn[h] # None
          /\ tree[fn[h]] = given[h].i \/ GivingUp(fn[h])
      BY <1>1, <1>3, <2>2 DEF HandleStaysGood, Known
    <3>2. fn[h] \in Paths /\ given'[h] = given[h] /\ given[h].i \in Inodes
      BY <1>1, <1>2, <2>2, <3>1 DEF Givens
    <3>3. CASE GivingUp(fn[h])
      BY <1>3, <2>2, <3>1, <3>3, HandlerGivesUp
    <3>4. CASE tree[fn[h]] = given[h].i
      <4>1. Exists(fn[h])
        BY <1>2, <3>2, <3>4 DEF Exists
      <4>2. tree'[fn[h]] = tree[fn[h]] \/ GivingUp(fn[h])'
        <5>1. ASSUME tree'[fn[h]] # tree[fn[h]]
              PROVE  \A x \in Paths : x = fn[h] => GivingUp(x)'
          BY <1>3, <3>1, <3>2, <4>1, <5>1, HandlerFile
        <5>2. \A x : GivingUp(x)' = (\E d \in Calls :
                        /\ rq'[d].pc \in {"rename_mv", "rmdir_del", "remove_del"}
                        /\ rq'[d].p = x)
          BY DEF GivingUp
        <5>3. GivingUp(fn[h])' = (\E d \in Calls :
                        /\ rq'[d].pc \in {"rename_mv", "rmdir_del", "remove_del"}
                        /\ rq'[d].p = fn[h])
          BY <1>1 DEF GivingUp
        <5>4. QED
          BY <3>2, <5>1, <5>2, <5>3
      <4>3. QED
        BY <3>1, <3>2, <3>4, <4>2
    <3>5. QED
      BY <3>1, <3>3, <3>4
  <2>3. QED
    BY <2>1, <2>2
<1>4. QED
  BY <1>1, <1>3 DEF HandleStaysGood

LEMMA HandlerHolds ==
    ASSUME HInv, NEW c \in Calls, Handler(c)
    PROVE  HInv'
<1>1. AInv' /\ NInv'
  BY HandlerApart DEF HInv, AInv
<1>2. HandlerStep(c)
  BY HandlerKinds DEF HInv, AInv, Races
<1>3. Missed' /\ Answered' /\ DroppedDrawn'
  BY <1>1, <1>2, HandlerMissed, HandlerAnswered, HandlerDrawn DEF HInv
<1>4. Forward' /\ Backward'
  BY <1>2, HandlerForward, HandlerBackward DEF HInv
<1>5. Dropping' /\ Gone'
  BY <1>2, HandlerDropping, HandlerGone DEF HInv
<1>6. Moving' /\ HandleStaysGood' /\ Givens'
  BY <1>2, HandlerMoving, HandlerGood, HandlerGivens DEF HInv
<1>7. QED
  BY <1>1, <1>3, <1>4, <1>5, <1>6 DEF HInv

-----------------------------------------------------------------------------
(* A request begins, and a restart forgets all of them.                    *)

LEMMA RequestBegins ==
    ASSUME NInv, NEW c \in Calls, Request(c)
    PROVE  /\ rq[c].pc = "idle" /\ call[c].pc = "idle"
           /\ rq'[c].pc \in FirstPcs \cup {"mount"} /\ rq'[c].obj = None
           /\ call'[c].pc \in {"idle", "fhandle_get"}
           /\ \A d \in Calls : d # c => rq'[d] = rq[d] /\ call'[d] = call[d]
           /\ UNCHANGED <<fh, fn, issued, fsvars, hist>>
<1>1. CASE MNT(c)
  <2> DEFINE r == [Idle EXCEPT !.pc = "mount", !.p = Root]
  <2>1. ~Active(c) /\ Set(c, r) /\ UNCHANGED <<fsvars, hist>> /\ UNCHANGED dbvars
    BY <1>1 DEF MNT, Begin
  <2>2. r.pc = "mount" /\ r.obj = None
    BY DEF Idle
  <2> HIDE DEF r
  <2>3. rq'[c] = r /\ \A d \in Calls : d # c => rq'[d] = rq[d]
    BY <2>1, SetIs
  <2>4. rq[c].pc = "idle" /\ call[c].pc = "idle"
    BY <2>1, RequestFacts, AtIdle DEF Active
  <2>5. call' = call /\ UNCHANGED <<fh, fn, issued>>
    BY <2>1 DEF dbvars
  <2>6. QED
    BY <2>1, <2>2, <2>3, <2>4, <2>5
<1>2. ASSUME NEW r, Begun(c, r)
      PROVE  /\ rq[c].pc = "idle" /\ call[c].pc = "idle"
             /\ rq'[c].pc \in FirstPcs \cup {"mount"} /\ rq'[c].obj = None
             /\ call'[c].pc \in {"idle", "fhandle_get"}
             /\ \A d \in Calls : d # c => rq'[d] = rq[d] /\ call'[d] = call[d]
             /\ UNCHANGED <<fh, fn, issued, fsvars, hist>>
  <2>1. ~Active(c) /\ Set(c, r) /\ UNCHANGED <<fsvars, hist>>
    BY <1>2 DEF Begun, Begin
  <2>2. /\ call'[c] = [Store!Idle EXCEPT !.pc = "fhandle_get", !.h = r.h]
        /\ \A d \in Calls : d # c => call'[d] = call[d]
        /\ UNCHANGED <<fh, fn, issued, retired, torn>>
    BY <1>2, BeginIs, SameIdle DEF Begun, DB!StartFhandle
  <2>3. call'[c].pc = "fhandle_get"
    BY <2>2 DEF Store!Idle
  <2>4. r.pc \in FirstPcs /\ Locals(r)
    BY <1>2 DEF Begun
  <2>5. r.obj = None
    BY <2>4 DEF Locals, FirstPcs, OnePcs, TwoPcs, StatPcs
  <2>6. rq'[c] = r /\ \A d \in Calls : d # c => rq'[d] = rq[d]
    BY <2>1, SetIs
  <2>7. rq[c].pc = "idle" /\ call[c].pc = "idle"
    BY <2>1, RequestFacts, AtIdle DEF Active
  <2>8. QED
    BY <2>1, <2>2, <2>3, <2>4, <2>5, <2>6, <2>7
<1>3. QED
  BY <1>1, <1>2, RequestIs

LEMMA RequestHolds ==
    ASSUME HInv, Overlap = "disjoint", NEW c \in Calls, Request(c)
    PROVE  HInv'
<1>1. NInv /\ AInv'
  BY RequestApart DEF HInv, AInv
<1>2. /\ rq[c].pc = "idle" /\ call[c].pc = "idle"
      /\ rq'[c].pc \in FirstPcs \cup {"mount"} /\ rq'[c].obj = None
      /\ call'[c].pc \in {"idle", "fhandle_get"}
      /\ \A d \in Calls : d # c => rq'[d] = rq[d] /\ call'[d] = call[d]
      /\ UNCHANGED <<fh, fn, issued>> /\ UNCHANGED <<tree, kind>>
      /\ UNCHANGED <<given, displaced, dropped>>
  BY <1>1, RequestBegins DEF fsvars, hist
<1>3. /\ rq'[c].pc \notin LookPcs \cup StatPcs \cup DelOfPcs \cup {"rename_mv"}
      /\ rq[c].pc \notin LookPcs \cup StatPcs \cup DelOfPcs \cup {"rename_mv"}
  BY <1>2 DEF FirstPcs, OnePcs, TwoPcs, LookPcs, StatPcs, DelOfPcs
<1>4. Missed'
  BY <1>2 DEF HInv, Missed, FreshPcs
<1>5. Answered'
  <2>1. Offered(c)' = None
    BY <1>2, <1>3 DEF Offered, LookPcs
  <2>2. \A d \in Calls : d # c => Offered(d)' = Offered(d)
    BY <1>2 DEF Offered
  <2>3. QED
    BY <1>2, <2>1, <2>2 DEF HInv, Answered
<1>6. Forward' /\ Backward'
  <2>1. \A d \in Calls, p \in Paths : Moved(d, p) => Moved(d, p)'
    BY <1>2, <1>3 DEF Moved
  <2>2. QED
    BY <1>2, <2>1 DEF HInv, Forward, Backward
<1>7. DroppedDrawn'
  BY <1>2 DEF HInv, DroppedDrawn, Secret, FreshPcs
<1>8. Dropping'
  <2>1. ASSUME NEW h \in dropped', h \notin displaced', fn'[h] # None
        PROVE  \E d \in Calls : /\ rq'[d].pc \in DelOfPcs /\ rq'[d].p = fn'[h]
                                /\ call'[d].pc = "done" => ~call'[d].ok
    <3>1. PICK d \in Calls : /\ rq[d].pc \in DelOfPcs /\ rq[d].p = fn[h]
                             /\ call[d].pc = "done" => ~call[d].ok
      BY <1>2, <2>1 DEF HInv, Dropping
    <3>2. d # c
      BY <1>3, <3>1
    <3>3. QED
      BY <1>2, <3>1, <3>2
  <2>2. QED
    BY <2>1 DEF Dropping
<1>9. Gone'
  BY <1>2, <1>3 DEF HInv, Gone, Exists, HandlesNaming
<1>10. Moving'
  <2>1. ASSUME NEW d \in Calls, rq'[d].pc = "rename_mv"
        PROVE  MvTree(d)' /\ MvStale(d)' /\ MvCarried(d)' /\ MvOver(d)'
    <3>1. d # c /\ rq'[d] = rq[d] /\ call'[d] = call[d]
      BY <1>2, <1>3, <2>1
    <3>2. MvTree(d) /\ MvStale(d) /\ MvCarried(d) /\ MvOver(d)
      BY <2>1, <3>1 DEF HInv, Moving
    <3>3. QED
      BY <1>2, <3>1, <3>2
         DEF MvTree, MvStale, MvCarried, MvOver, Exists, HandlesNaming, Known
  <2>2. QED
    BY <2>1 DEF Moving
<1>11. Givens' /\ HandleStaysGood'
  <2>1. \A x : GivingUp(x) <=> GivingUp(x)'
    BY <1>2, <1>3 DEF GivingUp, DelOfPcs
  <2>2. Known' = Known
    BY <1>2 DEF Known
  <2>3. QED
    BY <1>2, <2>1, <2>2 DEF HInv, Givens, HandleStaysGood
<1>12. QED
  BY <1>1, <1>4, <1>5, <1>6, <1>7, <1>8, <1>9, <1>10, <1>11 DEF HInv

LEMMA RestartHolds ==
    ASSUME HInv, Crash
    PROVE  HInv'
<1>1. NInv /\ AInv'
  BY RestartApart DEF HInv, AInv
<1>2. /\ \A c \in Calls : rq'[c].pc = "idle" /\ rq'[c].obj = None /\ call'[c].pc = "idle"
      /\ UNCHANGED <<fh, fn, issued, tree, given, dropped>>
      /\ displaced' = displaced \cup UNION {HandlesOf(p) : p \in {s \in Paths : GivingUp(s)}}
  BY DEF Crash, DB!Crash, DB!Idle, Idle, fsvars
<1>3. /\ displaced \subseteq displaced'
      /\ \A p \in Paths : GivingUp(p) =>
            /\ HandlesNaming(p) \subseteq displaced'
            /\ fh[p] # None => fh[p] \in displaced'
  BY <1>2 DEF HandlesOf
<1>4. fn \in [Handles -> Paths \cup {None}] /\ None \notin Paths
  BY <1>1, StoreAssumptions DEF NInv, Store!TypeOK
<1>5. Missed' /\ Answered'
  <2>1. \A c \in Calls : Offered(c)' = None
    BY <1>2 DEF Offered
  <2>2. QED
    BY <1>2, <2>1 DEF Missed, Answered, FreshPcs
<1>6. Forward'
  <2>1. \A c \in Calls, p \in Paths : Moved(c, p) => GivingUp(p)
    BY DEF Moved, GivingUp
  <2>2. QED
    BY <1>2, <1>3, <2>1 DEF HInv, Forward
<1>7. Backward'
  BY <1>2, <1>3 DEF HInv, Backward
<1>8. DroppedDrawn' /\ Givens'
  BY <1>2 DEF HInv, DroppedDrawn, Givens, Secret, FreshPcs, Known
<1>9. Dropping'
  <2>1. ASSUME NEW h \in dropped', h \notin displaced', fn'[h] # None
        PROVE  FALSE
    <3>1. h \in Handles
      BY <1>1, <1>2, <2>1 DEF NInv, HistOK
    <3>2. fn[h] \in Paths /\ GivingUp(fn[h])
      BY <1>2, <1>3, <1>4, <2>1, <3>1 DEF HInv, Dropping, GivingUp, DelOfPcs
    <3>3. QED
      BY <1>3, <2>1, <3>1, <3>2 DEF HandlesNaming
  <2>2. QED
    BY <2>1 DEF Dropping
<1>10. Gone' /\ Moving'
  BY <1>2 DEF Gone, Moving, DelOfPcs
<1>11. HandleStaysGood'
  <2>1. ASSUME NEW h \in Known', h \notin displaced', h \notin dropped'
        PROVE  fn'[h] # None /\ tree'[fn'[h]] = given'[h].i
    <3>1. h \in Known /\ h \in Handles
      BY <1>2, <2>1 DEF Known
    <3>2. fn[h] # None /\ (tree[fn[h]] = given[h].i \/ GivingUp(fn[h]))
      BY <1>2, <1>3, <2>1, <3>1 DEF HInv, HandleStaysGood
    <3>3. ~GivingUp(fn[h])
      BY <1>3, <1>4, <2>1, <3>1, <3>2 DEF HandlesNaming
    <3>4. QED
      BY <1>2, <3>2, <3>3
  <2>2. QED
    BY <2>1 DEF HandleStaysGood
<1>12. QED
  BY <1>1, <1>5, <1>6, <1>7, <1>8, <1>9, <1>10, <1>11 DEF HInv

LEMMA InitHolds == Init => HInv
<1> SUFFICES ASSUME Init PROVE HInv
  OBVIOUS
<1>1. AInv
  BY ApartInit
<1>2. /\ \A c \in Calls : rq[c].pc = "idle" /\ rq[c].obj = None /\ call[c].pc = "idle"
      /\ \A p \in Paths : fh[p] = None
      /\ \A h \in Handles : fn[h] = None
      /\ dropped = {} /\ Known = {}
  BY DEF Init, DB!Init, DB!Idle, Idle, Known
<1>3. \A c \in Calls : Offered(c) = None
  BY <1>2 DEF Offered
<1>4. Missed /\ Answered /\ Forward /\ Backward
  BY <1>2, <1>3 DEF Missed, Answered, Forward, Backward, FreshPcs
<1>5. DroppedDrawn /\ Dropping /\ Gone /\ Moving
  BY <1>2 DEF DroppedDrawn, Dropping, Gone, Moving, DelOfPcs
<1>6. Givens /\ HandleStaysGood
  BY <1>2 DEF Givens, HandleStaysGood
<1>7. QED
  BY <1>1, <1>4, <1>5, <1>6 DEF HInv

LEMMA QuietHolds ==
    ASSUME HInv, Overlap = "disjoint", UNCHANGED nsvars
    PROVE  HInv'
<1>1. AInv'
  BY ApartNext DEF HInv
<1>2. UNCHANGED <<fh, fn, issued, call, rq, tree, given, displaced, dropped>>
  BY DEF nsvars, dbvars, hist, fsvars
<1>3. Known' = Known /\ (\A x : GivingUp(x)' <=> GivingUp(x))
      /\ \A c \in Calls : Offered(c)' = Offered(c)
  BY <1>2 DEF Known, GivingUp, Offered
<1>4. Missed' /\ Answered' /\ DroppedDrawn' /\ Dropping' /\ Backward' /\ Givens'
  BY <1>2, <1>3 DEF HInv, Missed, Answered, DroppedDrawn, Dropping, Backward, Givens,
     Secret
<1>5. Forward'
  <2>1. \A c \in Calls, p \in Paths : Moved(c, p) => Moved(c, p)'
    BY <1>2 DEF Moved
  <2>2. QED
    BY <1>2, <2>1 DEF HInv, Forward
<1>6. Gone' /\ HandleStaysGood'
  BY <1>2, <1>3 DEF HInv, Gone, HandleStaysGood, Exists, HandlesNaming
<1>7. Moving'
  <2>1. ASSUME NEW c \in Calls, rq'[c].pc = "rename_mv"
        PROVE  MvTree(c)' /\ MvStale(c)' /\ MvCarried(c)' /\ MvOver(c)'
    <3>1. MvTree(c) /\ MvStale(c) /\ MvCarried(c) /\ MvOver(c)
      BY <1>2, <2>1 DEF HInv, Moving
    <3>2. QED
      BY <1>2, <1>3, <3>1 DEF MvTree, MvStale, MvCarried, MvOver, Exists, HandlesNaming
  <2>2. QED
    BY <2>1 DEF Moving
<1>8. QED
  BY <1>1, <1>4, <1>5, <1>6, <1>7 DEF HInv

LEMMA HandlesHold ==
    ASSUME Overlap = "disjoint", "get" \notin Faults
    PROVE  Spec => []HInv
<1>1. HInv /\ [Next]_nsvars => HInv'
  BY RequestHolds, HandlerHolds, AccessHolds, RestartHolds, QuietHolds DEF Next, Quiet
<1>2. QED
  BY <1>1, InitHolds, PTL DEF Spec

(* Between clients that use different files, a handle that a client was    *)
(* given goes on standing for the file it was given for, through renames,  *)
(* until that name is removed; only handles counted as displaced lose it.  *)
THEOREM HandlesStayGood ==
    ASSUME Overlap = "disjoint", "get" \notin Faults
    PROVE  Spec => []HandleStaysGood
BY HandlesHold, PTL DEF HInv

(* The handle of a removed name has no path left once the removal is       *)
(* answered, and until then no file is found through it.                   *)
THEOREM DroppedHandlesDie ==
    ASSUME Overlap = "disjoint", "get" \notin Faults
    PROVE  Spec => []DroppedHandleDies
<1>1. HInv => DroppedHandleDies
  BY DEF HInv, Dropping, Gone, DroppedHandleDies, GivingUp, DelOfPcs
<1>2. QED
  BY <1>1, HandlesHold, PTL

-----------------------------------------------------------------------------
(* What a reply says.                                                      *)

LEMMA FinishSays ==
    ASSUME NEW c \in Calls, NEW at, Finish(c, at)
    PROVE  /\ said' \in {[c |-> c, ok |-> TRUE], [c |-> c, ok |-> FALSE]}
           /\ rq[c].pc = at /\ call[c].pc = "done"
           /\ said' = [c |-> c, ok |-> TRUE] => call[c].ok
BY DEF Finish, Called, At, Error, Reply

(* Only its own handler answers a request, and the callbacks of del() and  *)
(* mv() with OK only when the call did not fail.                           *)
LEMMA HandlerSays ==
    ASSUME NEW c \in Calls, Handler(c)
    PROVE  /\ said' \in {None, [c |-> c, ok |-> TRUE], [c |-> c, ok |-> FALSE]}
           /\ rq[c].pc \in DelOfPcs \cup {"rename_mv"} =>
                /\ call[c].pc = "done"
                /\ said' = [c |-> c, ok |-> TRUE] => call[c].ok
<1> DEFINE Says == said' \in {None, [c |-> c, ok |-> TRUE], [c |-> c, ok |-> FALSE]}
           Other == rq[c].pc \notin DelOfPcs \cup {"rename_mv"}
<1>1. CASE mount(c) \/ stat_file(c) \/ do_create(c) \/ mkdir(c) \/ symlink(c)
  <2>1. Says
    BY <1>1 DEF mount, stat_file, do_create, mkdir, symlink, ThenLookup, Goto, Set,
                Refused, Error, Reply
  <2>2. Other
    BY <1>1 DEF mount, stat_file, do_create, mkdir, symlink, At, DelOfPcs
  <2>3. QED
    BY <2>1, <2>2
<1>2. CASE mount_lookup(c) \/ lookup(c)
  <2>1. Says /\ Other
    BY <1>2 DEF mount_lookup, lookup, SendFound, ReplyWith, Error, Reply, Called, At,
                DelOfPcs
  <2>2. QED
    BY <2>1
<1>3. CASE \/ lookup_dir(c) \/ mkdir_lookup_dir(c) \/ symlink_lookup_dir(c)
           \/ rmdir_lookup_dir(c) \/ remove_lookup_dir(c) \/ create_lookup_dir(c)
  <2>1. Says /\ Other
    BY <1>3 DEF lookup_dir, mkdir_lookup_dir, symlink_lookup_dir, rmdir_lookup_dir,
                remove_lookup_dir, create_lookup_dir, ResolveDir, Set, Error, Reply,
                Called, At, DelOfPcs
  <2>2. QED
    BY <2>1
<1>4. CASE \/ stat_dir(c) \/ mkdir_stat_dir(c) \/ rmdir_stat_dir(c)
           \/ remove_stat_dir(c) \/ create(c)
  <2>1. Says /\ Other
    BY <1>4 DEF stat_dir, mkdir_stat_dir, rmdir_stat_dir, remove_stat_dir, create,
                Check, Goto, Set, Error, Reply, At, DelOfPcs
  <2>2. QED
    BY <2>1
<1>5. CASE create_lookup(c) \/ mkdir_lookup(c) \/ symlink_lookup(c)
  <2>1. Says /\ Other
    BY <1>5 DEF create_lookup, mkdir_lookup, symlink_lookup, TakeObj, Set, Error, Reply,
                Called, At, DelOfPcs
  <2>2. QED
    BY <2>1
<1>6. CASE create_stat(c) \/ mkdir_stat_newdir(c) \/ symlink_stat(c)
  <2>1. Says /\ Other
    BY <1>6 DEF create_stat, mkdir_stat_newdir, symlink_stat, SendObj, ReplyWith, Error,
                Reply, At, DelOfPcs
  <2>2. QED
    BY <2>1
<1>7. CASE rmdir(c) \/ remove(c) \/ rename(c)
  <2>1. Says
    BY <1>7 DEF rmdir, remove, rename, ThenDel, Goto, Set, Refused, Error, Reply
  <2>2. Other
    BY <1>7 DEF rmdir, remove, rename, At, DelOfPcs
  <2>3. QED
    BY <2>1, <2>2
<1>8. CASE rmdir_del(c) \/ remove_del(c) \/ rename_mv(c)
  BY <1>8, FinishSays DEF rmdir_del, remove_del, rename_mv
<1>9. CASE \/ rename_get_from_dir(c) \/ rename_get_to_dir(c)
           \/ link_lookup_file(c) \/ link_lookup_dir(c)
  <2>1. Says /\ Other
    BY <1>9 DEF rename_get_from_dir, rename_get_to_dir, link_lookup_file, link_lookup_dir,
                Set, Error, Reply, Called, At, DelOfPcs
  <2>2. QED
    BY <2>1
<1>10. CASE link(c) \/ link_stat(c)
  <2>1. Says
    BY <1>10 DEF link, link_stat, Goto, Set, Refused, Error, Reply
  <2>2. Other
    BY <1>10 DEF link, link_stat, At, DelOfPcs
  <2>3. QED
    BY <2>1, <2>2
<1>11. QED
  BY <1>1, <1>2, <1>3, <1>4, <1>5, <1>6, <1>7, <1>8, <1>9, <1>10 DEF Handler

LEMMA RequestSays ==
    ASSUME NEW c \in Calls, Request(c)
    PROVE  said' = None
<1>1. CASE MNT(c)
  BY <1>1 DEF MNT, Begin, Set
<1>2. ASSUME NEW r, Begun(c, r)
      PROVE  said' = None
  BY <1>2 DEF Begun, Begin, Set
<1>3. QED
  BY <1>1, <1>2, RequestIs

(* So an OK reply to c is its own handler's, and if that is the callback   *)
(* of del() or mv(), the call has succeeded.                               *)
LEMMA OkReply ==
    ASSUME Next, ~UNCHANGED nsvars, NEW c \in Calls, said' = [c |-> c, ok |-> TRUE],
           rq[c].pc \in DelOfPcs \cup {"rename_mv"}
    PROVE  call[c].pc = "done" /\ call[c].ok
<1>1. said' # None
  <2>1. said' \in [c : Calls, ok : BOOLEAN]
    OBVIOUS
  <2>2. QED
    BY <2>1, NamespaceAssumption
<1>2. ~Crash /\ ~Quiet
  BY <1>1 DEF Crash, Quiet
<1>3. PICK d \in Calls : Request(d) \/ Handler(d) \/ Access(d)
  BY <1>2 DEF Next
<1>4. ~Request(d) /\ ~Access(d)
  BY <1>1, RequestSays DEF Access
<1>5. \A b \in BOOLEAN : said' = [c |-> d, ok |-> b] => d = c
  <2>1. ASSUME NEW b \in BOOLEAN, said' = [c |-> d, ok |-> b]
        PROVE  d = c
    <3>1. said'.c = d /\ said'.c = c
      BY <2>1
    <3>2. QED
      BY <3>1
  <2>2. QED
    BY <2>1
<1>6. d = c
  BY <1>1, <1>3, <1>4, <1>5, HandlerSays
<1>7. QED
  BY <1>3, <1>4, <1>6, HandlerSays

Truth(c) ==
    LET p == rq[c].p  q == rq[c].q  h == Offered(c)
    IN  /\ h # None => Exists(p) /\ fh[p] = h
        /\ h # None /\ h \notin displaced => fn[h] = p
        /\ rq[c].pc \in {"rmdir_del", "remove_del"} => ~Exists(p) /\ fh[p] = None
        /\ rq[c].pc = "rename_mv" /\ p # q =>
                /\ Exists(q) /\ fh[q] # None
                /\ fh[q] \notin displaced => fn[fh[q]] = q
                /\ fh[p] = None
                /\ Exists(p) => tree[p] = tree[q]

LEMMA ReplyTrue ==
    ASSUME HInv, NEW c \in Calls,
           rq[c].pc \in DelOfPcs \cup {"rename_mv"} => call[c].pc = "done" /\ call[c].ok
    PROVE  Truth(c)
<1> DEFINE p == rq[c].p
           q == rq[c].q
           h == Offered(c)
<1>1. NInv /\ AInv
  BY DEF HInv, AInv
<1>2. ASSUME h # None
      PROVE  /\ Exists(p) /\ fh[p] = h
             /\ h \notin displaced => fn[h] = p
  <2>1. Settled(rq[c]) /\ rq[c].pc \in LookPcs \cup StatPcs
    BY <1>1, <1>2, OfferedBy
  <2>2. Exists(p) /\ fh[p] = h /\ p \in Paths
    BY <1>1, <1>2, <2>1, SettledPaths DEF HInv, Answered, AInv, MadeThere, Holding
  <2>3. ~Moved(c, p)
    BY <2>1 DEF Moved, LookPcs, StatPcs
  <2>4. QED
    BY <1>1, <1>2, <2>1, <2>2, <2>3, NamedBy DEF HInv
<1>3. ASSUME rq[c].pc \in DelOfPcs
      PROVE  ~Exists(p) /\ fh[p] = None
  BY <1>3 DEF HInv, Gone
<1>4. ASSUME rq[c].pc = "rename_mv", p # q
      PROVE  /\ Exists(q) /\ fh[q] # None
             /\ fh[q] \notin displaced => fn[fh[q]] = q
             /\ fh[p] = None
             /\ Exists(p) => tree[p] = tree[q]
  <2>1. MvTree(c) /\ MvOver(c)
    BY <1>4 DEF HInv, Moving
  <2>2. Settled(rq[c]) /\ q \in Paths
    BY <1>1, <1>4, SettledPaths DEF Settled
  <2>3. ~Moved(c, q)
    BY <1>4 DEF Moved
  <2>4. fh[q] # None /\ fh[p] = None
    BY <1>4, <2>1 DEF MvOver
  <2>5. QED
    BY <1>1, <2>1, <2>2, <2>3, <2>4, NamedBy DEF HInv, MvTree
<1>5. QED
  BY <1>2, <1>3, <1>4 DEF Truth, DelOfPcs

(* Of an OK reply both stores say what it says: the handle in it leads to  *)
(* the name and the name to it, a removed name is gone from both, and a    *)
(* renamed file is found under its new name only.                          *)
THEOREM RepliesTellTruth ==
    ASSUME Overlap = "disjoint", "get" \notin Faults
    PROVE  Spec => ReplyTellsTruth
<1>1. HInv /\ [Next]_nsvars =>
        [\A c \in Calls : Active(c) /\ said' = [c |-> c, ok |-> TRUE] => Truth(c)]_nsvars
  <2> SUFFICES ASSUME HInv, Next, ~UNCHANGED nsvars,
                      NEW c \in Calls, said' = [c |-> c, ok |-> TRUE]
               PROVE  Truth(c)
    OBVIOUS
  <2>1. rq[c].pc \in DelOfPcs \cup {"rename_mv"} => call[c].pc = "done" /\ call[c].ok
    BY OkReply
  <2>2. QED
    BY <2>1, ReplyTrue
<1>2. Spec => [][\A c \in Calls :
                    Active(c) /\ said' = [c |-> c, ok |-> TRUE] => Truth(c)]_nsvars
  BY <1>1, HandlesHold, PTL DEF Spec
<1>3. QED
  BY <1>2 DEF ReplyTellsTruth, Truth

-----------------------------------------------------------------------------
(* Exclusive creates, whatever overlaps and whatever fails.                *)

LEMMA RacesNext ==
    ASSUME NInv, Races, [Next]_nsvars
    PROVE  Races'
<1>1. CASE UNCHANGED nsvars \/ Quiet
  BY <1>1 DEF nsvars, Quiet, Races, RacesThere
<1>2. CASE Crash
  BY <1>2, IdleRaces DEF Crash, Races
<1>3. ASSUME NEW c \in Calls, Access(c)
      PROVE  Races'
  BY <1>3 DEF Access, Races
<1>4. ASSUME NEW c \in Calls, Handler(c)
      PROVE  Races'
  <2>1. HandlerStep(c)
    BY <1>4, HandlerKinds DEF Races
  <2>2. Only(c)
    BY <2>1 DEF HandlerStep, Ends, Goes, Joins, JoinsFirst, JoinsSecond, Looks, Takes,
                Deletes, Renamed, Linked, Keeps
  <2>3. QED
    BY <2>2 DEF Only, Races
<1>5. ASSUME NEW c \in Calls, Request(c)
      PROVE  Races'
  <2>1. CASE MNT(c)
    <3> DEFINE r == [Idle EXCEPT !.pc = "mount", !.p = Root]
    <3>1. Set(c, r)
      BY <2>1 DEF MNT, Begin
    <3>2. RacesThere(r)
      BY NamespaceAssumption DEF Idle, RacesThere
    <3> HIDE DEF r
    <3>3. QED
      BY <3>1, <3>2, SetIs DEF Races
  <2>2. ASSUME NEW r, Begun(c, r)
        PROVE  Races'
    <3>1. Set(c, r) /\ RacesThere(r)
      BY <2>2 DEF Begun, Begin, RacesThere, RacePcs
    <3>2. QED
      BY <3>1, SetIs DEF Races
  <2>3. QED
    BY <1>5, <2>1, <2>2, RequestIs
<1>6. QED
  BY <1>1, <1>2, <1>3, <1>4, <1>5 DEF Next

LEMMA ExclusiveStep ==
    ASSUME NInv, Races, Next, ~UNCHANGED nsvars, NEW c \in Calls,
           rq[c].how = "EXCLUSIVE", rq'[c].pc = "create_lookup",
           rq[c].pc # "create_lookup"
    PROVE  ~Exists(rq[c].p)
<1>1. ~Crash /\ ~Quiet
  BY DEF Crash, Quiet, Idle
<1>2. PICK d \in Calls : Request(d) \/ Handler(d) \/ Access(d)
  BY <1>1 DEF Next
<1>3. ~Access(d)
  BY DEF Access
<1>4. ~Request(d)
  BY RequestBegins DEF FirstPcs, OnePcs, TwoPcs
<1>5. HandlerStep(d)
  BY <1>2, <1>3, <1>4, HandlerKinds DEF Races
<1>6. d = c
  <2>1. Only(d)
    BY <1>5 DEF HandlerStep, Ends, Goes, Joins, JoinsFirst, JoinsSecond, Looks, Takes,
                Deletes, Renamed, Linked, Keeps
  <2>2. QED
    BY <2>1 DEF Only
<1>7. Looks(c)
  BY <1>5, <1>6 DEF HandlerStep, Ends, Goes, Joins, JoinsFirst, JoinsSecond, Takes,
     Deletes, Renamed, Linked, Idle, MidPcs, SecondPcs, StatPcs, DelOfPcs
<1>8. rq[c].pc \in RacePcs
  BY DEF Races, RacesThere
<1>9. QED
  BY <1>7, <1>8 DEF Looks, MakeOk, Missing

(* An exclusive create only ever makes its file, also when other requests  *)
(* run between its stat and its open; for any requests and any failures.   *)
THEOREM ExclusiveCreatesMake == Spec => ExclusiveMakes
<1>1. Init => NInv /\ Races
  BY TypesInit, ApartInit DEF AInv
<1>2. NInv /\ Races /\ [Next]_nsvars => NInv' /\ Races'
  BY TypesNext, RacesNext
<1>3. NInv /\ Races /\ [Next]_nsvars =>
        [\A c \in Calls :
            rq[c].how = "EXCLUSIVE" /\ rq'[c].pc = "create_lookup"
            /\ rq[c].pc # "create_lookup" => ~Exists(rq[c].p)]_nsvars
  BY ExclusiveStep
<1>4. QED
  BY <1>1, <1>2, <1>3, PTL DEF Spec, ExclusiveMakes
=============================================================================
