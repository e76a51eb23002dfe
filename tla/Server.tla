------------------------------- MODULE Server -------------------------------
(***************************************************************************)
(* The life of the server process (server.js): it opens the file handle    *)
(* database, registers its two daemons with the host's portmapper or runs  *)
(* a portmapper of its own, starts the daemons, and on SIGTERM or SIGINT   *)
(* closes the database, takes its registrations back and exits.  Start-up  *)
(* and each clean-up are chains of callbacks; a signal does not stop the   *)
(* start-up, and a second signal starts a second clean-up.                 *)
(*                                                                         *)
(* The process may be started again, with another configuration; what the  *)
(* host's portmapper was told outlives it.                                 *)
(***************************************************************************)
EXTENDS Naturals, FiniteSets

CONSTANTS
    Configurations, \* what configure() may return, see Configuration
    Hosts,          \* addresses of clients
    None            \* an option or a value left undefined

Daemons == {"mountd", "nfsd"}
Signals == {"SIGTERM", "SIGINT"}
Prog == [mountd |-> 100005, nfsd |-> 100003, portmapd |-> 100000]

Mapping == [prog : Nat, vers : Nat, port : Nat]

(* mappings: the table of our own portmapper; port: where a daemon is told  *)
(* to listen, if anywhere.  On sunos the host's portmapper must be used.   *)
Configuration(c) ==
    /\ c.usehost \in BOOLEAN /\ c.sunos \in BOOLEAN
    /\ c.mappings = None \/ \A m \in c.mappings : m \in Mapping
    /\ c.port \in [Daemons -> Nat \cup {None}]
    /\ c.hosts_allow = None \/ c.hosts_allow \subseteq Hosts
    /\ c.hosts_deny = None \/ c.hosts_deny \subseteq Hosts

(* The table that configure() makes when no portmap section is given, and   *)
(* the mappings that main() registers with the host's portmapper.          *)
Builtin == {[prog |-> Prog.mountd,   vers |-> 3, port |-> 1892],
            [prog |-> Prog.mountd,   vers |-> 1, port |-> 1892],
            [prog |-> Prog.nfsd,     vers |-> 3, port |-> 2049],
            [prog |-> Prog.portmapd, vers |-> 2, port |-> 111]}
mntmapping == [prog |-> Prog.mountd, vers |-> 3, port |-> 1892]
nfsmapping == [prog |-> Prog.nfsd,   vers |-> 3, port |-> 2049]

ASSUME ServerAssumption ==
    /\ \A c \in Configurations : Configuration(c)
    /\ None \notin Nat /\ None \notin {"exit 0", "exit 1", "died"}
ASSUME NoneIsNoTable ==
    None \notin {{}, {mntmapping}, {nfsmapping}, {mntmapping, nfsmapping}}

VARIABLES
    conf,       \* the configuration of this life of the process
    exit,       \* None while the process runs; then its exit code or "died"
    db,         \* null, opening, open, closing, closed
    boot,       \* where the start-up is
    clean,      \* clean[s]: where the clean-up for signal s is
    usehost,    \* cfg.portmap.usehost
    url,        \* is cfg.portmap.url set?
    listening,  \* what listens: the daemons, our portmapper
    hostpmap,   \* the host's portmapper: its mappings, None while it is down
    mounted,    \* hosts that have mounted, in this life or an earlier one
    gate,       \* what nfsd answered a host last in this life
    seen        \* history of this life: see Fresh

vars == <<conf, exit, db, boot, clean, usehost, url, listening, hostpmap,
          mounted, gate, seen>>
local == <<conf, usehost, url, mounted, gate>>

(* early: a signal came before the start-up had registered the daemons;     *)
(* unset: an unset failed; lost: the host's portmapper went down.          *)
Fresh == [signal |-> FALSE, early |-> FALSE, unset |-> FALSE, lost |-> FALSE]

Up == exit = None
Table == IF hostpmap = None THEN {} ELSE hostpmap
Port(d) == IF conf.port[d] # None THEN conf.port[d]
           ELSE IF d = "mountd" THEN 1892 ELSE 2049

StartWith(c) ==
    [conf |-> c, exit |-> None, db |-> "null", boot |-> "open",
     clean |-> [s \in Signals |-> "no"], usehost |-> c.usehost \/ c.sunos,
     url |-> FALSE, listening |-> {}, gate |-> [h \in Hosts |-> None], seen |-> Fresh]

Init == /\ hostpmap \in {None, {}} /\ mounted = {}
        /\ \E c \in Configurations : LET s == StartWith(c) IN
             /\ conf = s.conf /\ exit = s.exit /\ db = s.db /\ boot = s.boot
             /\ clean = s.clean /\ usehost = s.usehost /\ url = s.url
             /\ listening = s.listening /\ gate = s.gate /\ seen = s.seen

-----------------------------------------------------------------------------
(* Ends of the process: process.exit and uncaught exceptions.              *)
End(code) == /\ exit' = code /\ listening' = {}
             /\ UNCHANGED <<db, boot, clean, local>>
Exit(code) == End(code) /\ UNCHANGED <<hostpmap, seen>>

(* It is started again.                                                     *)
Start == /\ ~Up
         /\ \E c \in Configurations : LET s == StartWith(c) IN
              /\ conf' = s.conf /\ exit' = s.exit /\ db' = s.db /\ boot' = s.boot
              /\ clean' = s.clean /\ usehost' = s.usehost /\ url' = s.url
              /\ listening' = s.listening /\ gate' = s.gate /\ seen' = s.seen
         /\ UNCHANGED <<hostpmap, mounted>>

(* The process is killed, at any point.                                     *)
Kill == Up /\ Exit("died")

-----------------------------------------------------------------------------
(* fhdb.open: after the two mkdirs levelup is created and opens.            *)
openEarly ==                 \* mutant: start-up does not wait for 'ready'
    /\ Up /\ db = "null"
    /\ db' = "opening" /\ boot' = "listen"
    /\ UNCHANGED <<exit, clean, listening, hostpmap, seen, local>>
open == /\ Up /\ db = "null"
        /\ db' = "opening"
        /\ UNCHANGED <<exit, boot, clean, listening, hostpmap, seen, local>>

register_with_pmap == /\ url' = TRUE /\ boot' = "connect"

(* 'ready': start-up goes on, even if the database closes at once because a *)
(* clean-up waited for it to be open.  Our own portmapper needs a table.   *)
onReady ==
    /\ Up /\ db = "opening"
    /\ IF ~usehost /\ conf.mappings = None THEN Exit("died")
       ELSE /\ db' = IF seen.signal THEN "closing" ELSE "open"
            /\ IF usehost THEN register_with_pmap
               ELSE boot' = "listen" /\ UNCHANGED url
            /\ UNCHANGED <<conf, exit, clean, usehost, listening, hostpmap,
                           mounted, gate, seen>>
onError == Up /\ db = "opening" /\ Exit("exit 1")

(* pmapd.listen: the port is taken while the host's portmapper is up.       *)
pmapd_listenAnyway ==        \* mutant: a portmapper runs, so go on
    /\ Up /\ boot = "listen"
    /\ \/ /\ boot' = "servers"
          /\ UNCHANGED <<exit, db, clean, listening, hostpmap, seen, local>>
       \/ Exit("exit 1")
pmapd_listen ==
    /\ Up /\ boot = "listen"
    /\ \/ /\ hostpmap = None
          /\ listening' = {"portmapd"} /\ boot' = "servers"
          /\ UNCHANGED <<exit, db, clean, hostpmap, seen, local>>
       \/ /\ hostpmap # None
          /\ usehost' = TRUE /\ register_with_pmap
          /\ UNCHANGED <<conf, exit, db, clean, listening, hostpmap, mounted, gate, seen>>
       \/ Exit("exit 1")

pmap_connectNoError ==       \* mutant: no listener for 'error', and no throw
    /\ Up /\ boot = "connect" /\ hostpmap # None
    /\ boot' = "set mnt"
    /\ UNCHANGED <<exit, db, clean, listening, hostpmap, seen, local>>
pmap_connect ==
    /\ Up /\ boot = "connect"
    /\ \/ hostpmap = None /\ Exit("exit 1")
       \/ /\ hostpmap # None /\ boot' = "set mnt"
          /\ UNCHANGED <<exit, db, clean, listening, hostpmap, seen, local>>

(* A set that fails may have been done, its answer lost.                    *)
set(at, mapping, next) ==
    /\ Up /\ boot = at
    /\ \/ /\ hostpmap # None /\ hostpmap' = hostpmap \cup {mapping}
          /\ \/ /\ boot' = next
                /\ UNCHANGED <<exit, db, clean, listening, seen, local>>
             \/ End("exit 1") /\ UNCHANGED seen
       \/ Exit("exit 1")
set_mnt == set("set mnt", mntmapping, "set nfs")
set_nfs == set("set nfs", nfsmapping, "servers")

(* run_servers: both daemons are told to listen, each comes up on its own.  *)
run_servers(d) ==
    /\ Up /\ boot = "servers" /\ d \notin listening
    /\ \/ /\ listening' = listening \cup {d}
          /\ UNCHANGED <<exit, db, boot, clean, hostpmap, seen, local>>
       \/ Exit("exit 1")

-----------------------------------------------------------------------------
(* The clean-up once the database is closed.  An undefined url fails an     *)
(* assertion in createPortmapClient.                                       *)
cleanup_closedStays(s) ==    \* mutant: exits only where the host's portmapper is used
    /\ clean' = [clean EXCEPT ![s] = IF usehost /\ url THEN "connect" ELSE "close"]
    /\ UNCHANGED <<exit, db, boot, listening, local>>
cleanup_closed(s) ==
    IF ~usehost THEN End("exit 0")
    ELSE IF ~url THEN End("died")
    ELSE /\ clean' = [clean EXCEPT ![s] = "connect"]
         /\ UNCHANGED <<exit, db, boot, listening, local>>

(* A signal.  fhdb.close calls back at once if there is no database yet;    *)
(* while that opens levelup puts the close off.                            *)
cleanupNoClose(s) ==         \* mutant: the database is not closed first
    /\ Up /\ clean[s] = "no"
    /\ seen' = [seen EXCEPT !.signal = TRUE, !.early = @ \/ boot # "servers"]
    /\ cleanup_closed(s)
    /\ UNCHANGED hostpmap
cleanup(s) ==
    /\ Up /\ clean[s] = "no"
    /\ seen' = [seen EXCEPT !.signal = TRUE, !.early = @ \/ boot # "servers"]
    /\ IF db = "null" THEN cleanup_closed(s)
       ELSE /\ clean' = [clean EXCEPT ![s] = "close"]
            /\ db' = IF db = "open" THEN "closing" ELSE db
            /\ UNCHANGED <<exit, boot, listening, local>>
    /\ UNCHANGED hostpmap

(* levelup has closed the database, and calls back whoever waits for it.    *)
close == /\ Up /\ db = "closing" /\ db' = "closed"
         /\ UNCHANGED <<exit, boot, clean, listening, hostpmap, seen, local>>
on_close(s) == /\ Up /\ clean[s] = "close" /\ db = "closed"
               /\ cleanup_closed(s)
               /\ UNCHANGED <<hostpmap, seen>>

(* The client of the clean-up has no listener for 'error', which then is    *)
(* thrown.                                                                 *)
cleanup_connectSkips(s) ==   \* mutant: only nfsd is unregistered
    /\ Up /\ clean[s] = "connect"
    /\ hostpmap # None
    /\ clean' = [clean EXCEPT ![s] = "unset nfs"]
    /\ UNCHANGED <<exit, db, boot, listening, hostpmap, seen, local>>
cleanup_connect(s) ==
    /\ Up /\ clean[s] = "connect"
    /\ \/ hostpmap = None /\ Exit("died")
       \/ /\ hostpmap # None
          /\ clean' = [clean EXCEPT ![s] = "unset mnt"]
          /\ UNCHANGED <<exit, db, boot, listening, hostpmap, seen, local>>

(* What fails here is only logged.                                          *)
Unset(mapping) ==
    \/ hostpmap # None /\ hostpmap' = hostpmap \ {mapping} /\ UNCHANGED seen
    \/ UNCHANGED hostpmap /\ seen' = [seen EXCEPT !.unset = TRUE]
unset_mnt(s) == /\ Up /\ clean[s] = "unset mnt"
                /\ Unset(mntmapping)
                /\ clean' = [clean EXCEPT ![s] = "unset nfs"]
                /\ UNCHANGED <<exit, db, boot, listening, local>>
unset_nfs(s) == Up /\ clean[s] = "unset nfs" /\ Unset(nfsmapping) /\ End("exit 0")

-----------------------------------------------------------------------------
(* The host's portmapper goes down, and its mappings with it; it comes up   *)
(* where it finds its port free.                                           *)
HostDown == /\ hostpmap # None /\ hostpmap' = None
            /\ seen' = [seen EXCEPT !.lost = TRUE]
            /\ UNCHANGED <<exit, db, boot, clean, listening, local>>
HostUp == /\ hostpmap = None /\ "portmapd" \notin listening /\ hostpmap' = {}
          /\ UNCHANGED <<exit, db, boot, clean, listening, seen, local>>

(* get_port of our own portmapper; the host's is taken to do the same.      *)
get_port(mappings, prog) ==
    LET found == {m \in mappings : m.prog = prog /\ m.vers = 3}
    IN  IF found = {} THEN 0 ELSE (CHOOSE m \in found : TRUE).port

(* The gates of the two daemons; nfsd's lists are copied from mountd's.     *)
ensure_allowed(h) == /\ conf.hosts_deny # None => h \notin conf.hosts_deny
                     /\ conf.hosts_allow # None => h \in conf.hosts_allow
nfsNoDeny ==                 \* mutant: hosts_deny is not handed on
    [hosts_allow |-> conf.hosts_allow, hosts_deny |-> None]
nfs == [hosts_allow |-> conf.hosts_allow, hosts_deny |-> conf.hosts_deny]
host_allowed(h) == /\ nfs.hosts_deny # None => h \notin nfs.hosts_deny
                   /\ nfs.hosts_allow # None => h \in nfs.hosts_allow

mount(h) == /\ Up /\ "mountd" \in listening /\ db = "open" /\ ensure_allowed(h)
            /\ mounted' = mounted \cup {h}
            /\ UNCHANGED <<conf, exit, db, boot, clean, usehost, url, listening,
                           hostpmap, gate, seen>>

(* A request on a handle that the host got when it mounted.                 *)
request(h) == /\ Up /\ "nfsd" \in listening /\ h \in mounted
              /\ gate' = [gate EXCEPT ![h] = host_allowed(h)]
              /\ UNCHANGED <<conf, exit, db, boot, clean, usehost, url, listening,
                             hostpmap, mounted, seen>>

-----------------------------------------------------------------------------
Boot == open \/ onReady \/ onError \/ pmapd_listen \/ pmap_connect \/ set_mnt \/ set_nfs
Cleanup(s) == on_close(s) \/ cleanup_connect(s) \/ unset_mnt(s) \/ unset_nfs(s)

Next == \/ Boot \/ close \/ Start \/ Kill \/ HostDown \/ HostUp
        \/ \E d \in Daemons : run_servers(d)
        \/ \E s \in Signals : cleanup(s) \/ Cleanup(s)
        \/ \E h \in Hosts : mount(h) \/ request(h)

Spec == Init /\ [][Next]_vars

(* Every call of the process is called back; nobody need send a signal, or  *)
(* start the process again, and the host's portmapper may do as it likes.  *)
Fairness == /\ WF_vars(Boot) /\ WF_vars(close)
            /\ \A d \in Daemons : WF_vars(run_servers(d))
            /\ \A s \in Signals : WF_vars(Cleanup(s))
FairSpec == Spec /\ Fairness

-----------------------------------------------------------------------------
StagesOK == /\ db \in {"null", "opening", "open", "closing", "closed"}
            /\ boot \in {"open", "listen", "connect", "set mnt", "set nfs", "servers"}
ProcessOK ==
    /\ Configuration(conf) /\ exit \in {None, "exit 0", "exit 1", "died"}
    /\ usehost \in BOOLEAN /\ url \in BOOLEAN
    /\ listening \subseteq Daemons \cup {"portmapd"} /\ (listening # {} => Up)
CleansOK ==
    /\ clean \in [Signals -> {"no", "close", "connect", "unset mnt", "unset nfs"}]
    /\ \A s \in Signals : clean[s] \notin {"no", "close"} => url /\ usehost /\ db = "closed"
OutsideOK ==
    /\ Table \subseteq {mntmapping, nfsmapping}
    /\ mounted \subseteq Hosts /\ gate \in [Hosts -> BOOLEAN \cup {None}]
    /\ seen \in [signal : BOOLEAN, early : BOOLEAN, unset : BOOLEAN, lost : BOOLEAN]

(* The variables hold what they should, and go together: a clean-up is past *)
(* the close only if the database is closed, and has the url it needs.      *)
TypeOK == StagesOK /\ ProcessOK /\ CleansOK /\ OutsideOK

Serving(d) == d \in listening /\ ~seen.signal

(* A client that finds a daemon up can also find it by asking the           *)
(* portmapper, whichever runs: the daemons start only after the             *)
(* registration, or after our own portmapper is up, also when that finds    *)
(* its port taken (server.js:223-224, 447-451).  The mappings are           *)
(* constants: a configuration that moves a daemon is not followed.          *)
Findable ==
    \A d \in Daemons :
        Serving(d) /\ conf.port[d] = None /\ ~seen.lost =>
            get_port(IF "portmapd" \in listening THEN conf.mappings ELSE Table,
                     Prog[d]) = Port(d)

(* A daemon that serves has an open database behind it; and only a signal   *)
(* takes that away while it serves (server.js:395, fhdb.js:245).           *)
HasDatabase == \A d \in Daemons : Serving(d) => db = "open"

(* An orderly exit leaves no registration behind, however many signals      *)
(* come and whoever holds the portmapper's port, provided that the signals  *)
(* came after the registration and every unset was answered                 *)
(* (server.js:348-379).  Otherwise clients are sent to ports that nobody    *)
(* listens on until the server is started again.                           *)
CleanExit == exit = "exit 0" /\ ~seen.early /\ ~seen.unset => Table = {}

(* nfsd lets in a host exactly if mountd would let it mount now, under the  *)
(* configuration of this life, whatever that was when the host mounted      *)
(* (nfs/index.js:49-51, server.js:211-212).                                *)
OneGate == \A h \in Hosts : gate[h] # None => gate[h] = ensure_allowed(h)

(* A signal ends the process, whenever it comes: before there is a          *)
(* database, while it opens or closes, in the middle of the registration    *)
(* or of another clean-up (server.js:381-389).                             *)
ShutsDown == seen.signal ~> ~Up

(* A start-up ends with both daemons up or with the process gone.           *)
StartsOrEnds == Up ~> Daemons \subseteq listening \/ ~Up
=============================================================================
