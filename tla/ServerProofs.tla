---------------------------- MODULE ServerProofs ----------------------------
(***************************************************************************)
(* Theorems about Server, for every set of configurations and clients:     *)
(* a daemon that serves has its database and can be found, and an orderly  *)
(* exit leaves nothing with the host's portmapper.                         *)
(***************************************************************************)
EXTENDS Server, TLAPS

-----------------------------------------------------------------------------
(* The inductive invariant. *)

(* Start-up waits for the database, and only a signal closes it.            *)
StartsInOrder ==
    /\ db \in {"null", "opening"} <=> boot = "open"
    /\ boot # "open" /\ ~seen.signal => db = "open"
    /\ url => boot # "open"
    /\ listening # {} => boot = "servers"

(* A clean-up follows a signal; unless that came early the start-up is over *)
(* and registers nothing any more.                                         *)
CleansAfterSignal ==
    \A s \in Signals : clean[s] # "no" =>
        seen.signal /\ (seen.early \/ boot = "servers")

(* A daemon that is not registered with the host's portmapper has kept that *)
(* from coming up.                                                         *)
OwnPortmapper ==
    /\ boot \in {"connect", "set mnt", "set nfs"} => usehost
    /\ Up /\ boot = "servers" /\ ~usehost => "portmapd" \in listening
    /\ "portmapd" \in listening => hostpmap = None

(* The first unset has been done where the second is next.                  *)
HalfUnset ==
    ~seen.early /\ ~seen.unset =>
        \A s \in Signals : clean[s] = "unset nfs" => mntmapping \notin Table

IInv == /\ TypeOK /\ StartsInOrder /\ CleansAfterSignal /\ OwnPortmapper
        /\ HalfUnset /\ CleanExit /\ OneGate

-----------------------------------------------------------------------------
LEMMA MappingsDiffer == mntmapping # nfsmapping
BY DEF mntmapping, nfsmapping, Prog

(* A life of the process begins in a good state, whatever the host's        *)
(* portmapper holds from an earlier one.                                   *)
LEMMA StartIsGood ==
    ASSUME NEW c \in Configurations, Table' \subseteq {mntmapping, nfsmapping},
           mounted' \subseteq Hosts,
           conf' = c, exit' = None, db' = "null", boot' = "open",
           clean' = [s \in Signals |-> "no"], usehost' = (c.usehost \/ c.sunos),
           url' = FALSE, listening' = {}, gate' = [h \in Hosts |-> None],
           seen' = Fresh
    PROVE  IInv'
<1>1. Configuration(c) /\ None \notin Nat
  BY ServerAssumption
<1>2. TypeOK'
  <2>1. usehost' \in BOOLEAN
    BY <1>1 DEF Configuration
  <2>2. Configuration(conf)'
    BY <1>1 DEF Configuration
  <2>3. clean' \in [Signals -> {"no", "close", "connect", "unset mnt", "unset nfs"}]
        /\ (\A s \in Signals : clean'[s] = "no")
        /\ gate' \in [Hosts -> BOOLEAN \cup {None}]
    OBVIOUS
  <2>4. QED
    BY <2>1, <2>2, <2>3 DEF TypeOK, StagesOK, ProcessOK, CleansOK, OutsideOK,
       Fresh
<1>3. StartsInOrder' /\ CleansAfterSignal' /\ OwnPortmapper' /\ HalfUnset'
  BY DEF StartsInOrder, CleansAfterSignal, OwnPortmapper, HalfUnset, Signals, Up
<1>4. CleanExit' /\ OneGate'
  BY ServerAssumption DEF CleanExit, OneGate
<1>5. QED
  BY <1>2, <1>3, <1>4 DEF IInv

-----------------------------------------------------------------------------
(* Each action keeps it. *)

LEMMA ExitKeeps ==
    ASSUME IInv, NEW code \in {"exit 1", "died"}, Up, Exit(code)
    PROVE  IInv'
BY ServerAssumption
   DEF IInv, TypeOK, StagesOK, ProcessOK, CleansOK, OutsideOK,
       StartsInOrder, CleansAfterSignal, OwnPortmapper, HalfUnset,
       CleanExit, OneGate, ensure_allowed, local, Up, Table,
       Exit, End

LEMMA OpenKeeps ==
    ASSUME IInv, open
    PROVE  IInv'
BY ServerAssumption
   DEF IInv, TypeOK, StagesOK, ProcessOK, CleansOK, OutsideOK,
       StartsInOrder, CleansAfterSignal, OwnPortmapper, HalfUnset,
       CleanExit, OneGate, ensure_allowed, local, Up, Table,
       open

LEMMA ReadyKeeps ==
    ASSUME IInv, onReady
    PROVE  IInv'
BY ServerAssumption
   DEF IInv, TypeOK, StagesOK, ProcessOK, CleansOK, OutsideOK,
       StartsInOrder, CleansAfterSignal, OwnPortmapper, HalfUnset,
       CleanExit, OneGate, ensure_allowed, local, Up, Table,
       onReady, Exit, End, register_with_pmap

LEMMA ListenKeeps ==
    ASSUME IInv, pmapd_listen
    PROVE  IInv'
BY ServerAssumption
   DEF IInv, TypeOK, StagesOK, ProcessOK, CleansOK, OutsideOK,
       StartsInOrder, CleansAfterSignal, OwnPortmapper, HalfUnset,
       CleanExit, OneGate, ensure_allowed, local, Up, Table,
       pmapd_listen, Exit, End, register_with_pmap

LEMMA ConnectKeeps ==
    ASSUME IInv, pmap_connect
    PROVE  IInv'
BY ServerAssumption
   DEF IInv, TypeOK, StagesOK, ProcessOK, CleansOK, OutsideOK,
       StartsInOrder, CleansAfterSignal, OwnPortmapper, HalfUnset,
       CleanExit, OneGate, ensure_allowed, local, Up, Table,
       pmap_connect, Exit, End

(* A set comes before the start-up is over, so before any unset that an     *)
(* orderly exit counts on.                                                 *)
LEMMA SetKeeps ==
    ASSUME IInv, NEW m \in {mntmapping, nfsmapping},
           NEW at \in {"set mnt", "set nfs"}, NEW next \in {"set nfs", "servers"},
           set(at, m, next)
    PROVE  IInv'
<1>1. TypeOK'
  BY ServerAssumption DEF IInv, TypeOK, StagesOK, ProcessOK, CleansOK,
     OutsideOK, Up, Table, set, Exit, End, local
<1>2. StartsInOrder'
  BY ServerAssumption DEF IInv, TypeOK, StagesOK, ProcessOK, StartsInOrder, set,
     Exit, End, local
<1>3. CleansAfterSignal'
  BY ServerAssumption DEF IInv, CleansAfterSignal, set, Exit, End, local
<1>4. OwnPortmapper'
  BY ServerAssumption DEF IInv, OwnPortmapper, Up, set, Exit, End, local
<1>5. HalfUnset'
  BY ServerAssumption DEF IInv, TypeOK, StagesOK, ProcessOK, CleansOK,
     OutsideOK, CleansAfterSignal, HalfUnset, set, Exit, End, local
<1>6. CleanExit'
  BY ServerAssumption DEF IInv, TypeOK, StagesOK, ProcessOK, OutsideOK,
     CleanExit, Up, set, Exit, End, local
<1>7. OneGate'
  BY ServerAssumption DEF IInv, OneGate, ensure_allowed, set, Exit, End, local
<1>8. QED
  BY <1>1, <1>2, <1>3, <1>4, <1>5, <1>6, <1>7 DEF IInv

LEMMA RunKeeps ==
    ASSUME IInv, NEW d \in Daemons, run_servers(d)
    PROVE  IInv'
<1>1. CASE Exit("exit 1")
  BY <1>1, ExitKeeps DEF run_servers
<1>2. CASE ~Exit("exit 1")
  <2>1. /\ Up /\ boot = "servers" /\ listening' = listening \cup {d}
        /\ UNCHANGED <<exit, db, boot, clean, hostpmap, seen, local>>
    BY <1>2 DEF run_servers
  <2>2. d # "portmapd"
    BY DEF Daemons
  <2>3. TypeOK'
    BY <2>1 DEF IInv, TypeOK, StagesOK, ProcessOK, CleansOK, OutsideOK, local,
       Up, Table
  <2>4. OwnPortmapper'
    BY <2>1, <2>2 DEF IInv, OwnPortmapper, local, Up
  <2>5. StartsInOrder' /\ CleansAfterSignal' /\ HalfUnset' /\ CleanExit' /\ OneGate'
    BY <2>1 DEF IInv, StartsInOrder, CleansAfterSignal, HalfUnset, CleanExit,
       OneGate, ensure_allowed, local, Up, Table
  <2>6. QED
    BY <2>3, <2>4, <2>5 DEF IInv
<1>3. QED
  BY <1>1, <1>2

LEMMA CloseKeeps ==
    ASSUME IInv, close
    PROVE  IInv'
BY ServerAssumption
   DEF IInv, TypeOK, StagesOK, ProcessOK, CleansOK, OutsideOK,
       StartsInOrder, CleansAfterSignal, OwnPortmapper, HalfUnset,
       CleanExit, OneGate, ensure_allowed, local, Up, Table,
       close

LEMMA SignalKeeps ==
    ASSUME IInv, NEW s \in Signals, cleanup(s)
    PROVE  IInv'
<1> USE DEF cleanup
<1>1. CASE db = "null"
  <2>1. boot = "open" /\ ~url /\ seen'.early /\ Up
        /\ exit' \in {"exit 0", "died"} /\ listening' = {}
        /\ UNCHANGED <<db, boot, clean, local, hostpmap>>
    BY <1>1 DEF IInv, TypeOK, StagesOK, ProcessOK, OutsideOK, StartsInOrder,
       cleanup_closed, End
  <2>2. seen' \in [signal : BOOLEAN, early : BOOLEAN, unset : BOOLEAN, lost : BOOLEAN]
        /\ seen'.signal
    BY DEF IInv, TypeOK, OutsideOK
  <2>3. TypeOK'
    BY <2>1, <2>2, ServerAssumption DEF IInv, TypeOK, StagesOK, ProcessOK,
       CleansOK, OutsideOK, local, Up, Table
  <2>4. StartsInOrder' /\ CleansAfterSignal' /\ OwnPortmapper'
    BY <2>1, <2>2, ServerAssumption
       DEF IInv, StartsInOrder, CleansAfterSignal, OwnPortmapper, local, Up
  <2>5. HalfUnset' /\ CleanExit' /\ OneGate'
    BY <2>1, <2>2 DEF IInv, HalfUnset, CleanExit, OneGate, ensure_allowed, local
  <2>6. QED
    BY <2>3, <2>4, <2>5 DEF IInv
<1>2. CASE db # "null"
  <2>1. TypeOK'
    <3>1. clean' \in [Signals -> {"no", "close", "connect", "unset mnt", "unset nfs"}]
      BY <1>2 DEF IInv, TypeOK, CleansOK
    <3>2. \A t \in Signals : clean'[t] \notin {"no", "close"} => url /\ usehost /\ db = "closed"
      BY <1>2 DEF IInv, TypeOK, CleansOK
    <3>3. seen' \in [signal : BOOLEAN, early : BOOLEAN, unset : BOOLEAN, lost : BOOLEAN]
      BY <1>2 DEF IInv, TypeOK, OutsideOK
    <3>4. db' \in {"closing", db} /\ (db = "closed" => db' = "closed")
      BY <1>2
    <3>5. QED
      BY <1>2, <3>1, <3>2, <3>3, <3>4 DEF IInv, TypeOK, StagesOK, ProcessOK,
         CleansOK, OutsideOK, local, Up, Table
  <2>2. StartsInOrder' /\ CleansAfterSignal' /\ OwnPortmapper'
    BY <1>2 DEF IInv, TypeOK, StagesOK, ProcessOK, CleansOK, OutsideOK,
       StartsInOrder, CleansAfterSignal, OwnPortmapper, local, Up
  <2>3. HalfUnset' /\ CleanExit' /\ OneGate'
    BY <1>2, ServerAssumption
       DEF IInv, TypeOK, StagesOK, ProcessOK, CleansOK, OutsideOK, HalfUnset,
           CleanExit, OneGate, ensure_allowed, local, Up, Table
  <2>4. QED
    BY <2>1, <2>2, <2>3 DEF IInv
<1>3. QED
  BY <1>1, <1>2

(* Where the server has its own portmapper there is nothing to take back.   *)
LEMMA OnCloseKeeps ==
    ASSUME IInv, NEW s \in Signals, on_close(s)
    PROVE  IInv'
<1>1. TypeOK'
  BY ServerAssumption DEF IInv, TypeOK, StagesOK, ProcessOK, CleansOK,
     OutsideOK, Up, Table, on_close, cleanup_closed, End, local
<1>2. StartsInOrder'
  BY ServerAssumption DEF IInv, TypeOK, StagesOK, ProcessOK, StartsInOrder,
     on_close, cleanup_closed, End, local
<1>3. CleansAfterSignal'
  BY ServerAssumption DEF IInv, TypeOK, StagesOK, ProcessOK, CleansOK,
     OutsideOK, CleansAfterSignal, on_close, cleanup_closed, End, local
<1>4. OwnPortmapper'
  BY ServerAssumption DEF IInv, TypeOK, StagesOK, ProcessOK, OwnPortmapper, Up,
     on_close, cleanup_closed, End, local
<1>5. HalfUnset'
  BY ServerAssumption DEF IInv, TypeOK, StagesOK, ProcessOK, CleansOK,
     OutsideOK, HalfUnset, Table, on_close, cleanup_closed, End, local
<1>6. CleanExit'
  BY ServerAssumption DEF IInv, TypeOK, StagesOK, ProcessOK, OutsideOK,
     CleanExit, CleansAfterSignal, OwnPortmapper, Table, Up, on_close,
     cleanup_closed, End, local
<1>7. OneGate'
  BY ServerAssumption DEF IInv, OneGate, ensure_allowed, on_close,
     cleanup_closed, End, local
<1>8. QED
  BY <1>1, <1>2, <1>3, <1>4, <1>5, <1>6, <1>7 DEF IInv

LEMMA CleanupConnectKeeps ==
    ASSUME IInv, NEW s \in Signals, cleanup_connect(s)
    PROVE  IInv'
<1> USE DEF cleanup_connect
<1>1. CASE Exit("died")
  BY <1>1, ExitKeeps
<1>2. CASE ~Exit("died")
  <2>1. TypeOK'
    BY <1>2 DEF IInv, TypeOK, StagesOK, ProcessOK, CleansOK, OutsideOK, local,
       Up, Table
  <2>2. CleansAfterSignal' /\ HalfUnset'
    BY <1>2 DEF IInv, TypeOK, StagesOK, ProcessOK, CleansOK, OutsideOK,
       CleansAfterSignal, HalfUnset, Table
  <2>3. StartsInOrder' /\ OwnPortmapper'
    <3>1. UNCHANGED <<db, boot, seen, listening, url, usehost, exit, hostpmap>>
      BY <1>2 DEF local
    <3>2. QED
      BY <3>1 DEF IInv, StartsInOrder, OwnPortmapper, Up
  <2>4. CleanExit' /\ OneGate'
    BY <1>2 DEF IInv, CleanExit, OneGate, ensure_allowed, local, Table
  <2>5. QED
    BY <2>1, <2>2, <2>3, <2>4 DEF IInv
<1>3. QED
  BY <1>1, <1>2

LEMMA UnsetMntKeeps ==
    ASSUME IInv, NEW s \in Signals, unset_mnt(s)
    PROVE  IInv'
BY ServerAssumption, MappingsDiffer
   DEF IInv, TypeOK, StagesOK, ProcessOK, CleansOK, OutsideOK,
       StartsInOrder, CleansAfterSignal, OwnPortmapper, HalfUnset,
       CleanExit, OneGate, ensure_allowed, local, Up, Table,
       unset_mnt, Unset

(* The exit of a clean-up that did both: the table is empty.                *)
LEMMA UnsetNfsKeeps ==
    ASSUME IInv, NEW s \in Signals, unset_nfs(s)
    PROVE  IInv'
BY ServerAssumption, MappingsDiffer
   DEF IInv, TypeOK, StagesOK, ProcessOK, CleansOK, OutsideOK,
       StartsInOrder, CleansAfterSignal, OwnPortmapper, HalfUnset,
       CleanExit, OneGate, ensure_allowed, local, Up, Table,
       unset_nfs, Unset, End

LEMMA HostDownKeeps ==
    ASSUME IInv, HostDown
    PROVE  IInv'
BY ServerAssumption
   DEF IInv, TypeOK, StagesOK, ProcessOK, CleansOK, OutsideOK,
       StartsInOrder, CleansAfterSignal, OwnPortmapper, HalfUnset,
       CleanExit, OneGate, ensure_allowed, local, Up, Table,
       HostDown

LEMMA HostUpKeeps ==
    ASSUME IInv, HostUp
    PROVE  IInv'
<1>1. Table' = {} /\ hostpmap = None /\ "portmapd" \notin listening
  BY DEF HostUp, Table
<1>2. UNCHANGED <<conf, exit, db, boot, clean, usehost, url, listening,
                  mounted, gate, seen>>
  BY DEF HostUp, local
<1>3. TypeOK'
  <2>1. StagesOK' /\ ProcessOK'
    BY <1>2 DEF IInv, TypeOK, StagesOK, ProcessOK, Up
  <2>2. CleansOK'
    BY <1>2 DEF IInv, TypeOK, CleansOK
  <2>3. OutsideOK'
    BY <1>1, <1>2 DEF IInv, TypeOK, OutsideOK
  <2>4. QED
    BY <2>1, <2>2, <2>3 DEF TypeOK
<1>4. StartsInOrder' /\ CleansAfterSignal' /\ OwnPortmapper'
  BY <1>1, <1>2 DEF IInv, StartsInOrder, CleansAfterSignal, OwnPortmapper, Up
<1>5. HalfUnset' /\ CleanExit' /\ OneGate'
  BY <1>1, <1>2 DEF IInv, HalfUnset, CleanExit, OneGate, ensure_allowed
<1>6. QED
  BY <1>3, <1>4, <1>5 DEF IInv

LEMMA MountKeeps ==
    ASSUME IInv, NEW h \in Hosts, mount(h)
    PROVE  IInv'
BY ServerAssumption
   DEF IInv, TypeOK, StagesOK, ProcessOK, CleansOK, OutsideOK,
       StartsInOrder, CleansAfterSignal, OwnPortmapper, HalfUnset,
       CleanExit, OneGate, ensure_allowed, local, Up, Table,
       mount

(* The two gates ask the same of the same lists.                           *)
LEMMA RequestKeeps ==
    ASSUME IInv, NEW h \in Hosts, request(h)
    PROVE  IInv'
BY ServerAssumption
   DEF IInv, TypeOK, StagesOK, ProcessOK, CleansOK, OutsideOK,
       StartsInOrder, CleansAfterSignal, OwnPortmapper, HalfUnset,
       CleanExit, OneGate, ensure_allowed, local, Up, Table,
       request, host_allowed, nfs

-----------------------------------------------------------------------------
LEMMA InitGood == Init => IInv
<1> SUFFICES ASSUME Init PROVE IInv
  OBVIOUS
<1>1. PICK c \in Configurations :
        /\ conf = c /\ exit = None /\ db = "null" /\ boot = "open"
        /\ clean = [s \in Signals |-> "no"] /\ usehost = (c.usehost \/ c.sunos)
        /\ url = FALSE /\ listening = {} /\ gate = [h \in Hosts |-> None]
        /\ seen = Fresh
  BY DEF Init, StartWith
<1>2. Configuration(conf) /\ usehost \in BOOLEAN /\ Table = {} /\ mounted = {}
  BY <1>1, ServerAssumption DEF Configuration, Init, Table
<1>3. clean \in [Signals -> {"no", "close", "connect", "unset mnt", "unset nfs"}]
      /\ (\A s \in Signals : clean[s] = "no")
      /\ gate \in [Hosts -> BOOLEAN \cup {None}]
  BY <1>1
<1>4. TypeOK
  BY <1>1, <1>2, <1>3 DEF TypeOK, StagesOK, ProcessOK, CleansOK, OutsideOK, Fresh
<1>5. StartsInOrder /\ CleansAfterSignal /\ OwnPortmapper /\ HalfUnset
  BY <1>1, <1>3 DEF StartsInOrder, CleansAfterSignal, OwnPortmapper, HalfUnset
<1>6. CleanExit /\ OneGate
  BY <1>1, <1>2, ServerAssumption DEF CleanExit, OneGate
<1>7. QED
  BY <1>4, <1>5, <1>6 DEF IInv

LEMMA StartKeeps == ASSUME IInv, Start PROVE IInv'
<1>1. PICK c \in Configurations :
        /\ conf' = c /\ exit' = None /\ db' = "null" /\ boot' = "open"
        /\ clean' = [s \in Signals |-> "no"] /\ usehost' = (c.usehost \/ c.sunos)
        /\ url' = FALSE /\ listening' = {} /\ gate' = [h \in Hosts |-> None]
        /\ seen' = Fresh
  BY DEF Start, StartWith
<1>2. Table' \subseteq {mntmapping, nfsmapping} /\ mounted' \subseteq Hosts
  BY DEF Start, IInv, TypeOK, OutsideOK, Table
<1>3. QED
  BY <1>1, <1>2, StartIsGood

LEMMA StutterKeeps ==
    ASSUME IInv, UNCHANGED vars
    PROVE  IInv'
<1>1. StagesOK' /\ ProcessOK'
  BY DEF vars, IInv, TypeOK, StagesOK, ProcessOK, Up
<1>2. CleansOK' /\ CleansAfterSignal'
  BY DEF vars, IInv, TypeOK, CleansOK, CleansAfterSignal
<1>3. OutsideOK'
  BY DEF vars, IInv, TypeOK, OutsideOK, Table
<1>4. StartsInOrder' /\ OwnPortmapper'
  BY DEF vars, IInv, StartsInOrder, OwnPortmapper, Up
<1>5. HalfUnset' /\ CleanExit'
  BY DEF vars, IInv, HalfUnset, CleanExit, Table
<1>6. OneGate'
  BY DEF vars, IInv, OneGate, ensure_allowed
<1>7. QED
  BY <1>1, <1>2, <1>3, <1>4, <1>5, <1>6 DEF IInv, TypeOK

LEMMA NextKeeps == IInv /\ [Next]_vars => IInv'
<1> SUFFICES ASSUME IInv, [Next]_vars PROVE IInv'
  OBVIOUS
<1>1. CASE Boot
  <2>1. CASE open \/ onReady \/ pmapd_listen \/ pmap_connect
    BY <2>1, OpenKeeps, ReadyKeeps, ListenKeeps, ConnectKeeps
  <2>2. CASE onError
    BY <2>2, ExitKeeps DEF onError
  <2>3. CASE set_mnt \/ set_nfs
    BY <2>3, SetKeeps DEF set_mnt, set_nfs
  <2>4. QED
    BY <1>1, <2>1, <2>2, <2>3 DEF Boot
<1>2. CASE close \/ Start \/ HostDown \/ HostUp
  BY <1>2, CloseKeeps, StartKeeps, HostDownKeeps, HostUpKeeps
<1>3. CASE Kill
  BY <1>3, ExitKeeps DEF Kill
<1>4. ASSUME NEW d \in Daemons, run_servers(d) PROVE IInv'
  BY <1>4, RunKeeps
<1>5. ASSUME NEW s \in Signals, cleanup(s) \/ Cleanup(s) PROVE IInv'
  BY <1>5, SignalKeeps, OnCloseKeeps, CleanupConnectKeeps, UnsetMntKeeps,
     UnsetNfsKeeps DEF Cleanup
<1>6. ASSUME NEW h \in Hosts, mount(h) \/ request(h) PROVE IInv'
  BY <1>6, MountKeeps, RequestKeeps
<1>7. CASE UNCHANGED vars
  BY <1>7, StutterKeeps
<1>8. QED
  BY <1>1, <1>2, <1>3, <1>4, <1>5, <1>6, <1>7 DEF Next

LEMMA InvariantHolds == Spec => []IInv
BY InitGood, NextKeeps, PTL DEF Spec

(* The types, for every set of configurations and clients.                  *)
THEOREM TypesHold == Spec => []TypeOK
<1>1. IInv => TypeOK
  BY DEF IInv
<1>2. QED
  BY <1>1, InvariantHolds, PTL

(* A daemon that serves has an open database behind it, whatever the        *)
(* interleaving of the start-up with signals and other processes.           *)
THEOREM DaemonsHaveDatabase == Spec => []HasDatabase
<1>1. IInv => HasDatabase
  BY DEF IInv, StartsInOrder, HasDatabase, Serving
<1>2. QED
  BY <1>1, InvariantHolds, PTL

(* An orderly exit leaves no registration behind, with any number of lives, *)
(* configurations and clean-ups.                                            *)
THEOREM OrderlyExitIsClean == Spec => []CleanExit
<1>1. IInv => CleanExit
  BY DEF IInv
<1>2. QED
  BY <1>1, InvariantHolds, PTL

(* nfsd's gate agrees with mountd's, for all lists and lives.               *)
THEOREM GatesAgree == Spec => []OneGate
<1>1. IInv => OneGate
  BY DEF IInv
<1>2. QED
  BY <1>1, InvariantHolds, PTL

-----------------------------------------------------------------------------
(* Findable.  The tables that configurations give our own portmapper send   *)
(* clients to the ports at which the daemons listen by themselves, as the   *)
(* one does that configure() makes.                                        *)
DefaultPort(d) == IF d = "mountd" THEN 1892 ELSE 2049
TablesAgree ==
    \A c \in Configurations, d \in Daemons :
        c.mappings # None /\ c.port[d] = None =>
            get_port(c.mappings, Prog[d]) = DefaultPort(d)

LEMMA BuiltinAgrees == \A d \in Daemons : get_port(Builtin, Prog[d]) = DefaultPort(d)
<1>1. {m \in Builtin : m.prog = Prog.mountd /\ m.vers = 3} = {mntmapping}
  BY DEF Builtin, Prog, mntmapping
<1>2. {m \in Builtin : m.prog = Prog.nfsd /\ m.vers = 3} = {nfsmapping}
  BY DEF Builtin, Prog, nfsmapping
<1>3. {mntmapping} # {} /\ (CHOOSE m \in {mntmapping} : TRUE) = mntmapping
  OBVIOUS
<1>4. {nfsmapping} # {} /\ (CHOOSE m \in {nfsmapping} : TRUE) = nfsmapping
  OBVIOUS
<1>5. get_port(Builtin, Prog.mountd) = mntmapping.port
  BY <1>1, <1>3 DEF get_port
<1>6. get_port(Builtin, Prog.nfsd) = nfsmapping.port
  BY <1>2, <1>4 DEF get_port
<1>7. QED
  BY <1>5, <1>6 DEF Daemons, Prog, DefaultPort, mntmapping, nfsmapping

(* How far the registration has come, as long as nothing takes it back; and *)
(* our own portmapper, if it runs, has a table.                            *)
Registered ==
    /\ conf \in Configurations
    /\ boot = "listen" \/ "portmapd" \in listening => conf.mappings # None
    /\ boot = "listen" => ~usehost
    /\ Up /\ ~seen.lost /\ ~seen.signal =>
        /\ boot = "set nfs" => mntmapping \in Table
        /\ boot = "servers" /\ "portmapd" \notin listening =>
                mntmapping \in Table /\ nfsmapping \in Table

LEMMA EndRegisters ==
    ASSUME Registered, NEW code \in {"exit 0", "exit 1", "died"}, End(code)
    PROVE  Registered'
<1>1. UNCHANGED <<conf, boot, usehost>> /\ listening' = {} /\ ~Up'
  BY ServerAssumption DEF End, local, Up
<1>2. QED
  BY <1>1 DEF Registered

(* A set adds to the table of the host's portmapper.                       *)
LEMMA SetAdds ==
    ASSUME IInv, hostpmap # None, NEW m \in {mntmapping, nfsmapping},
           hostpmap' = hostpmap \cup {m}
    PROVE  m \in Table' /\ Table \subseteq Table'
<1>1. hostpmap \subseteq {mntmapping, nfsmapping} /\ Table = hostpmap
  BY DEF IInv, TypeOK, OutsideOK, Table
<1>2. hostpmap' \in {{mntmapping}, {nfsmapping}, {mntmapping, nfsmapping}}
  BY <1>1
<1>3. Table' = hostpmap'
  BY <1>2, NoneIsNoTable DEF Table
<1>4. QED
  BY <1>1, <1>3

(* A step of the start-up other than a set.                                *)
LEMMA StepRegisters ==
    ASSUME IInv, Registered, UNCHANGED <<conf, exit, hostpmap, seen>>,
           \/ boot' \in {boot, "listen", "connect", "set mnt"}
           \/ boot' = "servers" /\ "portmapd" \in listening',
           boot' = "listen" \/ "portmapd" \in listening' => conf.mappings # None,
           boot' = "listen" => ~usehost',
           "portmapd" \in listening => "portmapd" \in listening'
    PROVE  Registered'
<1>1. Table' = Table /\ (Up' <=> Up)
  BY DEF Table, Up
<1>2. boot' \notin {"set nfs", "servers"} \/ boot' = boot \/ "portmapd" \in listening'
  OBVIOUS
<1>3. boot' = "set nfs" => boot = "set nfs"
  OBVIOUS
<1>4. QED
  BY <1>1, <1>2, <1>3 DEF Registered

LEMMA BootRegisters ==
    ASSUME IInv, Registered, Boot
    PROVE  Registered'
<1>1. ASSUME NEW code \in {"exit 0", "exit 1", "died"}, Exit(code) PROVE Registered'
  BY <1>1, EndRegisters DEF Exit
<1>2. CASE open
  BY <1>2, StepRegisters DEF open, local, Registered
<1>3. CASE onReady
  <2>1. CASE Exit("died")
    BY <1>1, <2>1
  <2>2. CASE ~Exit("died")
    <3>1. /\ UNCHANGED <<conf, exit, usehost, listening, hostpmap, seen>>
          /\ IF usehost THEN boot' = "connect" ELSE boot' = "listen"
          /\ usehost \/ conf.mappings # None
      BY <1>3, <2>2 DEF onReady, register_with_pmap
    <3>2. boot = "open" /\ "portmapd" \notin listening
      BY <1>3 DEF onReady, IInv, StartsInOrder
    <3>3. QED
      BY <3>1, <3>2, StepRegisters
  <2>3. QED
    BY <2>1, <2>2
<1>4. CASE onError
  BY <1>1, <1>4 DEF onError
<1>5. CASE pmapd_listen
  <2>1. CASE Exit("exit 1")
    BY <1>1, <2>1
  <2>2. CASE ~Exit("exit 1")
    <3>1. /\ UNCHANGED <<conf, exit, hostpmap, seen>> /\ boot = "listen"
          /\ \/ boot' = "servers" /\ listening' = {"portmapd"}
             \/ boot' = "connect" /\ listening' = listening
      BY <1>5, <2>2 DEF pmapd_listen, register_with_pmap, local
    <3>2. QED
      BY <3>1, StepRegisters DEF Registered
  <2>3. QED
    BY <2>1, <2>2
<1>6. CASE pmap_connect
  <2>1. CASE Exit("exit 1")
    BY <1>1, <2>1
  <2>2. CASE ~Exit("exit 1")
    <3>1. /\ UNCHANGED <<conf, exit, hostpmap, seen, listening>> /\ boot' = "set mnt"
      BY <1>6, <2>2 DEF pmap_connect, local
    <3>2. QED
      BY <3>1, StepRegisters DEF Registered
  <2>3. QED
    BY <2>1, <2>2
<1>7. CASE set_mnt
  <2>1. CASE End("exit 1")
    BY <2>1, EndRegisters
  <2>2. CASE ~End("exit 1")
    <3>1. /\ UNCHANGED <<conf, exit, seen, listening>> /\ boot' = "set nfs"
          /\ hostpmap # None /\ hostpmap' = hostpmap \cup {mntmapping}
      BY <1>7, <2>2 DEF set_mnt, set, Exit, local
    <3>2. mntmapping \in Table'
      BY <3>1, SetAdds
    <3>3. /\ boot' # "listen" /\ boot' # "servers"
          /\ "portmapd" \in listening' => conf'.mappings # None
          /\ conf' \in Configurations
      BY <3>1 DEF Registered
    <3>4. QED
      BY <3>2, <3>3 DEF Registered
  <2>3. QED
    BY <2>1, <2>2
<1>8. CASE set_nfs
  <2>1. CASE End("exit 1")
    BY <2>1, EndRegisters
  <2>2. CASE ~End("exit 1")
    <3>1. /\ UNCHANGED <<conf, exit, seen, listening>> /\ boot' = "servers"
          /\ hostpmap # None /\ hostpmap' = hostpmap \cup {nfsmapping}
          /\ boot = "set nfs"
      BY <1>8, <2>2 DEF set_nfs, set, Exit, local
    <3>2. nfsmapping \in Table' /\ (mntmapping \in Table => mntmapping \in Table')
      BY <3>1, SetAdds
    <3>3. QED
      BY <3>1, <3>2 DEF Registered, Up
  <2>3. QED
    BY <2>1, <2>2
<1>9. QED
  BY <1>2, <1>3, <1>4, <1>5, <1>6, <1>7, <1>8 DEF Boot

LEMMA RunRegisters ==
    ASSUME IInv, Registered, NEW d \in Daemons, run_servers(d)
    PROVE  Registered'
<1>1. CASE Exit("exit 1")
  BY <1>1, EndRegisters DEF Exit
<1>2. CASE ~Exit("exit 1")
  <2>1. /\ UNCHANGED <<conf, exit, hostpmap, seen, boot, usehost>>
        /\ listening' = listening \cup {d} /\ d # "portmapd"
    BY <1>2 DEF run_servers, local, Daemons
  <2>2. QED
    BY <2>1, StepRegisters DEF Registered
<1>3. QED
  BY <1>1, <1>2

(* A clean-up only begins with a signal.                                   *)
LEMMA CleanupRegisters ==
    ASSUME IInv, Registered, NEW s \in Signals, cleanup(s) \/ Cleanup(s)
    PROVE  Registered'
<1>1. seen'.signal
  <2>1. CASE cleanup(s)
    BY <2>1 DEF cleanup, IInv, TypeOK, OutsideOK
  <2>2. CASE Cleanup(s)
    <3>1. clean[s] # "no"
      BY <2>2 DEF Cleanup, on_close, cleanup_connect, unset_mnt, unset_nfs
    <3>2. seen'.signal = seen.signal
      BY <2>2 DEF Cleanup, on_close, cleanup_connect, unset_mnt, unset_nfs,
         Unset, Exit, IInv, TypeOK, OutsideOK
    <3>3. QED
      BY <3>1, <3>2 DEF IInv, CleansAfterSignal
  <2>3. QED
    BY <2>1, <2>2
<1>2. /\ UNCHANGED <<conf, boot, usehost>>
      /\ listening' = listening \/ listening' = {}
  BY DEF Cleanup, cleanup, on_close, cleanup_connect, unset_mnt, unset_nfs,
     cleanup_closed, Exit, End, local
<1>3. QED
  BY <1>1, <1>2 DEF Registered

(* The host's portmapper, while it does not go down, keeps its mappings.    *)
LEMMA OutsideRegisters ==
    ASSUME IInv, Registered, HostDown \/ HostUp
    PROVE  Registered'
<1>1. CASE HostDown
  BY <1>1 DEF HostDown, Registered, Up, local, IInv, TypeOK, OutsideOK
<1>2. CASE HostUp
  BY <1>2 DEF HostUp, Registered, Up, Table, local
<1>3. QED
  BY <1>1, <1>2

LEMMA NextRegisters == IInv /\ Registered /\ [Next]_vars => Registered'
<1> SUFFICES ASSUME IInv, Registered, [Next]_vars PROVE Registered'
  OBVIOUS
<1>1. CASE Boot
  BY <1>1, BootRegisters
<1>2. CASE close
  BY <1>2, StepRegisters DEF close, Registered, local
<1>3. CASE Kill
  BY <1>3, EndRegisters DEF Kill, Exit
<1>4. CASE Start
  BY <1>4 DEF Start, StartWith, Registered
<1>5. CASE HostDown \/ HostUp
  BY <1>5, OutsideRegisters
<1>6. ASSUME NEW d \in Daemons, run_servers(d) PROVE Registered'
  BY <1>6, RunRegisters
<1>7. ASSUME NEW s \in Signals, cleanup(s) \/ Cleanup(s) PROVE Registered'
  BY <1>7, CleanupRegisters
<1>8. ASSUME NEW h \in Hosts, mount(h) \/ request(h) PROVE Registered'
  <2>1. UNCHANGED <<conf, exit, boot, usehost, listening, hostpmap, seen>>
    BY <1>8 DEF mount, request
  <2>2. QED
    BY <2>1, StepRegisters DEF Registered
<1>9. CASE UNCHANGED vars
  BY <1>9, StepRegisters DEF vars, Registered
<1>10. QED
  BY <1>1, <1>2, <1>3, <1>4, <1>5, <1>6, <1>7, <1>8, <1>9 DEF Next

(* get_port on what the host's portmapper has been told.                    *)
LEMMA BothFound ==
    ASSUME mntmapping \in Table, nfsmapping \in Table,
           Table \subseteq {mntmapping, nfsmapping}
    PROVE  \A d \in Daemons : get_port(Table, Prog[d]) = DefaultPort(d)
<1>1. {m \in Table : m.prog = Prog.mountd /\ m.vers = 3} = {mntmapping}
  BY DEF Prog, mntmapping, nfsmapping
<1>2. {m \in Table : m.prog = Prog.nfsd /\ m.vers = 3} = {nfsmapping}
  BY DEF Prog, mntmapping, nfsmapping
<1>3. {mntmapping} # {} /\ (CHOOSE m \in {mntmapping} : TRUE) = mntmapping
  OBVIOUS
<1>4. {nfsmapping} # {} /\ (CHOOSE m \in {nfsmapping} : TRUE) = nfsmapping
  OBVIOUS
<1>5. get_port(Table, Prog.mountd) = mntmapping.port
  BY <1>1, <1>3 DEF get_port
<1>6. get_port(Table, Prog.nfsd) = nfsmapping.port
  BY <1>2, <1>4 DEF get_port
<1>7. QED
  BY <1>5, <1>6 DEF Daemons, Prog, DefaultPort, mntmapping, nfsmapping

LEMMA FoundByRegistered ==
    ASSUME TablesAgree
    PROVE  IInv /\ Registered => Findable
<1> SUFFICES ASSUME IInv, Registered, NEW d \in Daemons, Serving(d),
                    conf.port[d] = None, ~seen.lost
             PROVE  get_port(IF "portmapd" \in listening THEN conf.mappings
                             ELSE Table, Prog[d]) = DefaultPort(d)
  BY DEF Findable, Port, DefaultPort
<1>1. boot = "servers" /\ Up /\ ~seen.signal
  BY DEF Serving, IInv, StartsInOrder, TypeOK, ProcessOK
<1>2. CASE "portmapd" \in listening
  BY <1>2 DEF Registered, TablesAgree
<1>3. CASE "portmapd" \notin listening
  BY <1>1, <1>3, BothFound DEF Registered, IInv, TypeOK, OutsideOK
<1>4. QED
  BY <1>2, <1>3

(* A daemon that serves can be found by asking the portmapper, ours or the  *)
(* host's: with any configurations whose tables agree with the daemons,     *)
(* whichever portmapper wins the port and whatever an earlier life of the   *)
(* process has left with the host's.                                       *)
THEOREM DaemonsAreFound ==
    ASSUME TablesAgree
    PROVE  Spec => []Findable
<1>1. Init => Registered
  BY DEF Init, StartWith, Registered
<1>2. Spec => [](IInv /\ Registered)
  BY <1>1, NextRegisters, InvariantHolds, PTL DEF Spec
<1>3. IInv /\ Registered => Findable
  BY FoundByRegistered
<1>4. QED
  BY <1>2, <1>3, PTL
=============================================================================
