----------------------------- MODULE Namespace ------------------------------
(***************************************************************************)
(* The NFS procedures that create, find, move and remove names (lib/nfs)   *)
(* and MNT (lib/mount.js), over the file system and the file handle        *)
(* database.  A procedure is a chain of handlers; each handler waits for   *)
(* one access to the file system or one call of the database, and between  *)
(* two of them any other request may run.  The two stores are never        *)
(* changed in one step: what this module is about is what the clients'     *)
(* handles mean in between, and after a failure in between.                *)
(*                                                                         *)
(* rq[c].pc is the handler whose callback is outstanding, by its name in   *)
(* the source.  An access to the file system and its callback are one      *)
(* action, since the callback only starts the next access.  A database     *)
(* call runs in FHDB's slot c; the handler's action consumes its answer.   *)
(***************************************************************************)
EXTENDS FileSystem

CONSTANTS
    Calls,      \* slots for requests in flight, each with its database call
    Handles,    \* uuids
    Procs,      \* the procedures the clients use
    Hows,       \* the create modes the clients use
    Overlap,    \* "any", or "disjoint": see Admissible
    Faults      \* those of FHDB, and "fs": a file system access fails

ASSUME NamespaceAssumption ==
    /\ Hows \subseteq {"EXCLUSIVE", "UNCHECKED", "GUARDED"}
    /\ Overlap \in {"any", "disjoint"}
    /\ Faults \subseteq {"get", "write", "cleanup", "crash", "fs"}
    /\ None \notin Handles \cup {"EXCLUSIVE", "UNCHECKED", "GUARDED"}
    /\ None \notin [c : Calls, ok : BOOLEAN]

VARIABLES
    fh, fn, issued, retired, torn, call,    \* the database: see FHDB
    rq,         \* rq[c]: the locals of the request in slot c
    said,       \* the reply that the last step sent, if any
    given,      \* history: given[h]: the path and inode h was first replied for
    displaced,  \* history: handles that have lost their file, see below
    dropped     \* history: handles whose name has been unlinked

dbvars == <<fh, fn, issued, retired, torn, call>>
hist   == <<given, displaced, dropped>>
nsvars == <<fsvars, dbvars, rq, said, hist>>

DB == INSTANCE FHDB WITH
        Renames <- TRUE, Overlap <- "any", Faults <- Faults \ {"fs"}

FsErr == "fs" \in Faults

DbPcs == {"mount_lookup", "lookup_dir", "lookup", "create_lookup_dir",
          "create_lookup", "mkdir_lookup_dir", "mkdir_lookup",
          "rmdir_lookup_dir", "rmdir_del", "remove_lookup_dir", "remove_del",
          "rename_get_from_dir", "rename_get_to_dir", "rename_mv",
          "link_lookup_file", "link_lookup_dir", "symlink_lookup_dir",
          "symlink_lookup"}
FsPcs == {"mount", "stat_dir", "stat_file", "create", "do_create_w",
          "do_create_wx", "create_stat", "mkdir_stat_dir", "mkdir",
          "mkdir_stat_newdir", "rmdir_stat_dir", "rmdir", "remove_stat_dir",
          "remove", "rename", "link", "link_stat", "symlink", "symlink_stat"}

(* h, n and h2, n2: the handles and names of the arguments, until they are *)
(* resolved; p, q: the file names made of them; obj: the handle that the   *)
(* reply will carry.                                                       *)
Idle == [pc |-> "idle", h |-> None, n |-> None, h2 |-> None, n2 |-> None,
         how |-> None, p |-> None, q |-> None, obj |-> None]

Active(c) == rq[c].pc # "idle"
Known == {h \in Handles : given[h] # None}

-----------------------------------------------------------------------------
(* Requests. *)

Set(c, r) == rq' = [rq EXCEPT ![c] = r] /\ said' = None

(* The paths a request is about, as far as they can be told: a handle that *)
(* a failing mv has left behind has an entry under a second path.          *)
Entries(h) == {p \in Paths : fn[h] = p \/ fh[p] = h}
Named(h, n) == IF h = None THEN {}
               ELSE {IF n = None THEN p ELSE Append(p, n) : p \in Entries(h)}
Targets(r) ==
    Named(r.h, r.n) \cup Named(r.h2, r.n2) \cup ({r.p, r.q} \ {None})
Apart(r, s) ==
    \A a \in Targets(r), b \in Targets(s) : ~IsPrefix(a, b) /\ ~IsPrefix(b, a)

(* Which requests are in flight together: the server excludes nothing      *)
(* ("any"); clients may be known to use different files ("disjoint"), but  *)
(* for exclusive creates, by which they settle who gets a name.            *)
Race(r, s) == r.how = "EXCLUSIVE" /\ s.how = "EXCLUSIVE"
Admissible(r) ==
    Overlap = "disjoint" =>
        \A d \in Calls : Active(d) => Apart(r, rq[d]) \/ Race(r, rq[d])

(* Bound of the model: a request that may have to draw a uuid only starts  *)
(* when the pool has one left for it.                                      *)
Undrawing == {"LINK", "REMOVE", "RMDIR"}
MayDraw(c) ==
    Active(c) /\ rq[c].pc \notin
        {"rmdir_lookup_dir", "rmdir_stat_dir", "rmdir", "rmdir_del",
         "remove_lookup_dir", "remove_stat_dir", "remove", "remove_del",
         "link_lookup_file", "link_lookup_dir", "link", "link_stat"}
UuidLeft == Cardinality(issued) + Cardinality({c \in Calls : MayDraw(c)})
                < Cardinality(Handles)

Begin(c, proc, r) ==
    /\ proc \in Procs
    /\ ~Active(c)
    /\ proc \in Undrawing \/ UuidLeft
    /\ Admissible(r)
    /\ Set(c, r)
    /\ UNCHANGED <<fsvars, hist>>

(* All but MNT begin with fhandle() on a handle the client was given. *)
BeginOn(c, proc, h, r) ==
    h \in Known /\ Begin(c, proc, [r EXCEPT !.h = h]) /\ DB!StartFhandle(c, h)

MNT(c) ==
    /\ Begin(c, "MNT", [Idle EXCEPT !.pc = "mount", !.p = Root])
    /\ UNCHANGED dbvars
LOOKUP(c, h, n) ==
    BeginOn(c, "LOOKUP", h, [Idle EXCEPT !.pc = "lookup_dir", !.n = n])
CREATE(c, h, n, how) ==
    BeginOn(c, "CREATE", h,
            [Idle EXCEPT !.pc = "create_lookup_dir", !.n = n, !.how = how])
MKDIR(c, h, n) ==
    BeginOn(c, "MKDIR", h, [Idle EXCEPT !.pc = "mkdir_lookup_dir", !.n = n])
RMDIR(c, h, n) ==
    BeginOn(c, "RMDIR", h, [Idle EXCEPT !.pc = "rmdir_lookup_dir", !.n = n])
REMOVE(c, h, n) ==
    BeginOn(c, "REMOVE", h, [Idle EXCEPT !.pc = "remove_lookup_dir", !.n = n])
SYMLINK(c, h, n) ==
    BeginOn(c, "SYMLINK", h, [Idle EXCEPT !.pc = "symlink_lookup_dir", !.n = n])
RENAME(c, h, n, h2, n2) ==
    /\ h2 \in Known
    /\ BeginOn(c, "RENAME", h, [Idle EXCEPT !.pc = "rename_get_from_dir",
                                            !.n = n, !.h2 = h2, !.n2 = n2])
LINK(c, h, h2, n2) ==
    /\ h2 \in Known
    /\ BeginOn(c, "LINK", h, [Idle EXCEPT !.pc = "link_lookup_file",
                                          !.h2 = h2, !.n2 = n2])

-----------------------------------------------------------------------------
(* What the handlers are made of. *)

At(c, pc)     == rq[c].pc = pc
Called(c, pc) == At(c, pc) /\ call[c].pc = "done"
Goto(c, pc)   == Set(c, [rq[c] EXCEPT !.pc = pc])
Reply(c, ok)  == /\ rq' = [rq EXCEPT ![c] = Idle]
                 /\ said' = [c |-> c, ok |-> ok]
Error(c)      == Reply(c, FALSE)
Fails(ok)     == ~ok \/ FsErr

(* A reply that carries a handle makes it known to the client. *)
Give(h, p) ==
    given' = [given EXCEPT ![h] = IF @ = None THEN [p |-> p, i |-> tree[p]]
                                              ELSE @]
ReplyWith(c, h, p) ==
    Reply(c, TRUE) /\ Give(h, p) /\ UNCHANGED <<displaced, dropped>>

(* Mutant: an error neither replies nor ends the chain. *)
CheckSilent(c, at, ok, pc) ==
    /\ At(c, at)
    /\ \/ ok /\ Goto(c, pc)
       \/ Fails(ok) /\ UNCHANGED <<rq, said>>
    /\ UNCHANGED <<fsvars, dbvars, hist>>

(* A handler that looks at the file system: on to pc, or an error. *)
Check(c, at, ok, pc) ==
    /\ At(c, at)
    /\ \/ ok /\ Goto(c, pc)
       \/ Fails(ok) /\ Error(c)
    /\ UNCHANGED <<fsvars, dbvars, hist>>

(* The callback of fhandle(): the handle's path and the name are joined.   *)
ResolveDir(c, at, pc) ==
    /\ Called(c, at)
    /\ IF call[c].ok
       THEN Set(c, [rq[c] EXCEPT !.pc = pc, !.h = None, !.n = None,
                                 !.p = Append(call[c].p, rq[c].n)])
       ELSE Error(c)
    /\ DB!Return(c)
    /\ UNCHANGED <<fsvars, hist>>

(* The callback of lookup() for a name just made: reply.obj. *)
TakeObj(c, at, pc) ==
    /\ Called(c, at)
    /\ IF call[c].ok THEN Set(c, [rq[c] EXCEPT !.pc = pc, !.obj = call[c].h])
                     ELSE Error(c)
    /\ DB!Return(c)
    /\ UNCHANGED <<fsvars, hist>>

(* The callback of the last stat: the reply is sent with reply.obj. *)
SendObj(c, at, ok) ==
    /\ At(c, at)
    /\ \/ ok /\ ReplyWith(c, rq[c].obj, rq[c].p)
       \/ Fails(ok) /\ Error(c) /\ UNCHANGED hist
    /\ UNCHANGED <<fsvars, dbvars>>

(* The callback of lookup() where the handle is replied at once. *)
SendFound(c, at) ==
    /\ Called(c, at)
    /\ IF call[c].ok THEN ReplyWith(c, call[c].h, rq[c].p)
                     ELSE Error(c) /\ UNCHANGED hist
    /\ DB!Return(c)
    /\ UNCHANGED fsvars

(* Mutant: the next handler waits for a call that nobody makes. *)
ThenNothing(c, pc) == Goto(c, pc) /\ UNCHANGED dbvars

(* A name has been made; its handle is looked up next. *)
ThenLookup(c, pc) == Goto(c, pc) /\ DB!StartLookup(c, rq[c].p)

(* A file system access that changes nothing because it fails. *)
Refused(c, ok) ==
    Fails(ok) /\ Error(c) /\ UNCHANGED <<fsvars, dbvars, hist>>

-----------------------------------------------------------------------------
(* The handlers, in the order of their chains. *)

(* mount.js *)
mount(c) ==
    /\ At(c, "mount")
    /\ \/ StatOk(rq[c].p) /\ ThenLookup(c, "mount_lookup")
                           /\ UNCHANGED <<fsvars, hist>>
       \/ Refused(c, StatOk(rq[c].p))
mount_lookup(c) == SendFound(c, "mount_lookup")

(* lookup.js *)
lookup_dir(c) == ResolveDir(c, "lookup_dir", "stat_dir")
stat_dir(c)   == Check(c, "stat_dir", StatOk(Front(rq[c].p)), "stat_file")
stat_file(c)  ==
    /\ At(c, "stat_file")
    /\ \/ Exists(rq[c].p) /\ ThenLookup(c, "lookup")
                           /\ UNCHANGED <<fsvars, hist>>
       \/ Refused(c, Exists(rq[c].p))
lookup(c) == SendFound(c, "lookup")

(* create.js: an unchecked create opens at once, the other two stat first; *)
(* only an exclusive one opens with 'wx'.                                  *)
create_lookup_dir(c) ==
    ResolveDir(c, "create_lookup_dir",
               IF rq[c].how = "UNCHECKED" THEN "do_create_w" ELSE "create")
createNoX(c) ==     \* mutant: every create opens with 'w'
    Check(c, "create", Missing(rq[c].p) \/ Is(rq[c].p, "symlink"),
          "do_create_w")
create(c) ==
    Check(c, "create", Missing(rq[c].p) \/ Is(rq[c].p, "symlink"),
          IF rq[c].how = "EXCLUSIVE" THEN "do_create_wx" ELSE "do_create_w")
do_create(c) ==
    LET p == rq[c].p
    IN  \/ /\ At(c, "do_create_w")
           /\ \/ /\ OpenWOk(p) /\ OpenW(p)
                 /\ ThenLookup(c, "create_lookup") /\ UNCHANGED hist
              \/ Refused(c, OpenWOk(p))
        \/ /\ At(c, "do_create_wx")
           /\ \/ /\ MakeOk(p) /\ Make(p, "file")
                 /\ ThenLookup(c, "create_lookup") /\ UNCHANGED hist
              \/ Refused(c, MakeOk(p))
create_lookup(c) == TakeObj(c, "create_lookup", "create_stat")
create_stat(c)   == SendObj(c, "create_stat", StatOk(rq[c].p))

(* mkdir.js *)
mkdir_lookup_dir(c) == ResolveDir(c, "mkdir_lookup_dir", "mkdir_stat_dir")
mkdir_stat_dir(c)   ==
    Check(c, "mkdir_stat_dir", Is(Front(rq[c].p), "dir"), "mkdir")
mkdir(c) ==
    /\ At(c, "mkdir")
    /\ \/ /\ MakeOk(rq[c].p) /\ Make(rq[c].p, "dir")
          /\ ThenLookup(c, "mkdir_lookup") /\ UNCHANGED hist
       \/ Refused(c, MakeOk(rq[c].p))
mkdir_lookup(c)      == TakeObj(c, "mkdir_lookup", "mkdir_stat_newdir")
mkdir_stat_newdir(c) == SendObj(c, "mkdir_stat_newdir", StatOk(rq[c].p))

(* symlink.js *)
symlink_lookup_dir(c) == ResolveDir(c, "symlink_lookup_dir", "symlink")
symlink(c) ==
    /\ At(c, "symlink")
    /\ \/ /\ MakeOk(rq[c].p) /\ Make(rq[c].p, "symlink")
          /\ ThenLookup(c, "symlink_lookup") /\ UNCHANGED hist
       \/ Refused(c, MakeOk(rq[c].p))
symlink_lookup(c) == TakeObj(c, "symlink_lookup", "symlink_stat")
symlink_stat(c)   == SendObj(c, "symlink_stat", Exists(rq[c].p))

-----------------------------------------------------------------------------
(* Handlers that take names away.  What happens to the handles is recorded *)
(* in the history variables: a handle whose name is unlinked is dropped;   *)
(* one whose file is replaced by a rename, or lies below a directory that  *)
(* is renamed, or whose entries a failure leaves behind, is displaced.     *)

HandlesNaming(p) == {h \in Handles : fn[h] = p}
HandlesOf(p) ==     \* either entry says so
    HandlesNaming(p) \cup ({fh[p]} \ {None})
HandlesBelow(p) ==
    {h \in Handles : fn[h] # None /\ IsStrictPrefix(p, fn[h])}

ThenDel(c, pc) ==
    /\ Goto(c, pc) /\ DB!StartDel(c, rq[c].p)
    /\ dropped' = dropped \cup HandlesNaming(rq[c].p)
    /\ UNCHANGED <<given, displaced>>

(* Mutant: a failing del or mv is only logged. *)
FinishRegardless(c, at) ==
    /\ Called(c, at)
    /\ Reply(c, TRUE)
    /\ DB!Return(c)
    /\ UNCHANGED <<fsvars, hist>>

(* The callback of del() and of mv(). *)
Finish(c, at) ==
    /\ Called(c, at)
    /\ IF call[c].ok
       THEN Reply(c, TRUE) /\ UNCHANGED hist
       ELSE /\ Error(c)
            /\ displaced' = displaced \cup HandlesOf(rq[c].p)
            /\ UNCHANGED <<given, dropped>>
    /\ DB!Return(c)
    /\ UNCHANGED fsvars

(* rmdir.js: a directory that has gone in the meantime is as good as one   *)
(* removed.                                                                *)
rmdir_lookup_dir(c) == ResolveDir(c, "rmdir_lookup_dir", "rmdir_stat_dir")
rmdir_stat_dir(c)   ==
    Check(c, "rmdir_stat_dir", Is(rq[c].p, "dir"), "rmdir")
rmdirAnyError(c) ==     \* mutant: no error of rmdir(2) stops the handler
    LET p == rq[c].p
    IN  /\ At(c, "rmdir")
        /\ \/ RmdirOk(p) /\ Drop(p)
           \/ ~RmdirOk(p) /\ UNCHANGED fsvars
        /\ ThenDel(c, "rmdir_del")
rmdir(c) ==
    LET p == rq[c].p
    IN  /\ At(c, "rmdir")
        /\ \/ RmdirOk(p) /\ Drop(p) /\ ThenDel(c, "rmdir_del")
           \/ Missing(p) /\ UNCHANGED fsvars /\ ThenDel(c, "rmdir_del")
           \/ Refused(c, RmdirOk(p) \/ Missing(p))
rmdir_del(c) == Finish(c, "rmdir_del")

(* remove.js *)
remove_lookup_dir(c) == ResolveDir(c, "remove_lookup_dir", "remove_stat_dir")
remove_stat_dir(c)   ==
    Check(c, "remove_stat_dir", UnlinkOk(rq[c].p), "remove")
removeKeepsHandle(c) ==     \* mutant: the handle is not deleted
    LET p == rq[c].p
    IN  /\ At(c, "remove")
        /\ \/ /\ UnlinkOk(p) /\ Drop(p) /\ Reply(c, TRUE)
              /\ dropped' = dropped \cup HandlesNaming(p)
              /\ UNCHANGED <<dbvars, given, displaced>>
           \/ Refused(c, UnlinkOk(p))
removeDirHandle(c) ==       \* mutant: _dirname in place of _filename
    LET p == rq[c].p
    IN  /\ At(c, "remove")
        /\ \/ /\ UnlinkOk(p) /\ Drop(p)
              /\ Goto(c, "remove_del") /\ DB!StartDel(c, Front(p))
              /\ dropped' = dropped \cup HandlesNaming(p)
              /\ UNCHANGED <<given, displaced>>
           \/ Refused(c, UnlinkOk(p))
remove(c) ==
    LET p == rq[c].p
    IN  /\ At(c, "remove")
        /\ \/ UnlinkOk(p) /\ Drop(p) /\ ThenDel(c, "remove_del")
           \/ Refused(c, UnlinkOk(p))
remove_del(c) == Finish(c, "remove_del")

(* rename.js *)
rename_get_from_dir(c) ==
    /\ Called(c, "rename_get_from_dir")
    /\ IF call[c].ok
       THEN /\ Set(c, [rq[c] EXCEPT !.pc = "rename_get_to_dir", !.h = None,
                                    !.n = None,
                                    !.p = Append(call[c].p, rq[c].n)])
            /\ DB!StartFhandle(c, rq[c].h2)
       ELSE Error(c) /\ DB!Return(c)
    /\ UNCHANGED <<fsvars, hist>>
rename_get_to_dir(c) ==
    /\ Called(c, "rename_get_to_dir")
    /\ IF call[c].ok
       THEN Set(c, [rq[c] EXCEPT !.pc = "rename", !.h2 = None, !.n2 = None,
                                 !.q = Append(call[c].p, rq[c].n2)])
       ELSE Error(c)
    /\ DB!Return(c)
    /\ UNCHANGED <<fsvars, hist>>
renameSwapped(c) ==     \* mutant: mv(newpath, oldpath)
    LET p == rq[c].p  q == rq[c].q
    IN  /\ At(c, "rename")
        /\ \/ /\ RenameOk(p, q) /\ Rename(p, q)
              /\ Goto(c, "rename_mv") /\ DB!StartMv(c, q, p)
              /\ displaced' = displaced \cup HandlesNaming(q)
                                        \cup HandlesBelow(p)
              /\ UNCHANGED <<given, dropped>>
           \/ Refused(c, RenameOk(p, q))
rename(c) ==
    LET p == rq[c].p  q == rq[c].q
    IN  /\ At(c, "rename")
        /\ \/ /\ RenameOk(p, q) /\ Rename(p, q)
              /\ Goto(c, "rename_mv") /\ DB!StartMv(c, p, q)
              /\ displaced' = displaced \cup HandlesNaming(q)
                                        \cup HandlesBelow(p)
              /\ UNCHANGED <<given, dropped>>
           \/ Refused(c, RenameOk(p, q))
rename_mv(c) == Finish(c, "rename_mv")

(* link.js: the new name is given no handle. *)
link_lookup_file(c) ==
    /\ Called(c, "link_lookup_file")
    /\ IF call[c].ok
       THEN /\ Set(c, [rq[c] EXCEPT !.pc = "link_lookup_dir", !.h = None,
                                    !.p = call[c].p])
            /\ DB!StartFhandle(c, rq[c].h2)
       ELSE Error(c) /\ DB!Return(c)
    /\ UNCHANGED <<fsvars, hist>>
link_lookup_dir(c) ==
    /\ Called(c, "link_lookup_dir")
    /\ IF call[c].ok
       THEN Set(c, [rq[c] EXCEPT !.pc = "link", !.h2 = None, !.n2 = None,
                                 !.q = Append(call[c].p, rq[c].n2)])
       ELSE Error(c)
    /\ DB!Return(c)
    /\ UNCHANGED <<fsvars, hist>>
link(c) ==
    LET p == rq[c].p  q == rq[c].q
    IN  /\ At(c, "link")
        /\ \/ /\ LinkOk(p, q) /\ Link(p, q)
              /\ Goto(c, "link_stat") /\ UNCHANGED <<dbvars, hist>>
           \/ Refused(c, LinkOk(p, q))
link_stat(c) ==
    /\ At(c, "link_stat")
    /\ \/ Exists(rq[c].q) /\ Reply(c, TRUE)
       \/ Fails(Exists(rq[c].q)) /\ Error(c)
    /\ UNCHANGED <<fsvars, dbvars, hist>>

-----------------------------------------------------------------------------

(* An access of the database call that the handler waits for; lookup's     *)
(* lstat asks the file system.                                             *)
Access(c) ==
    /\ \/ DB!FhandleGet(c) \/ DB!LookupGet(c) \/ DB!LookupWrite(c)
       \/ DB!MvGet(c) \/ DB!MvWrite(c) \/ DB!MvCleanup(c)
       \/ DB!DelGet(c) \/ DB!DelWrite(c)
       \/ Exists(call[c].p) /\ DB!LookupLstat(c, TRUE)
       \/ Fails(Exists(call[c].p)) /\ DB!LookupLstat(c, FALSE)
    /\ said' = None
    /\ UNCHANGED <<fsvars, rq, hist>>

Handler(c) ==
    \/ mount(c) \/ mount_lookup(c)
    \/ lookup_dir(c) \/ stat_dir(c) \/ stat_file(c) \/ lookup(c)
    \/ create_lookup_dir(c) \/ create(c) \/ do_create(c) \/ create_lookup(c)
    \/ create_stat(c)
    \/ mkdir_lookup_dir(c) \/ mkdir_stat_dir(c) \/ mkdir(c)
    \/ mkdir_lookup(c) \/ mkdir_stat_newdir(c)
    \/ symlink_lookup_dir(c) \/ symlink(c) \/ symlink_lookup(c)
    \/ symlink_stat(c)
    \/ rmdir_lookup_dir(c) \/ rmdir_stat_dir(c) \/ rmdir(c) \/ rmdir_del(c)
    \/ remove_lookup_dir(c) \/ remove_stat_dir(c) \/ remove(c)
    \/ remove_del(c)
    \/ rename_get_from_dir(c) \/ rename_get_to_dir(c) \/ rename(c)
    \/ rename_mv(c)
    \/ link_lookup_file(c) \/ link_lookup_dir(c) \/ link(c) \/ link_stat(c)

Request(c) ==
    \/ MNT(c)
    \/ \E h \in Known, n \in Names :
        \/ LOOKUP(c, h, n)
        \/ \E how \in Hows : CREATE(c, h, n, how)
        \/ MKDIR(c, h, n)
        \/ RMDIR(c, h, n)
        \/ REMOVE(c, h, n)
        \/ SYMLINK(c, h, n)
        \/ \E h2 \in Known : LINK(c, h, h2, n)
        \/ \E h2 \in Known, n2 \in Names : RENAME(c, h, n, h2, n2)

(* The names that a request has taken from the tree, or moved, and the     *)
(* database does not know of yet.                                          *)
GivingUp(p) ==
    \E c \in Calls : /\ rq[c].pc \in {"rename_mv", "rmdir_del", "remove_del"}
                     /\ rq[c].p = p

(* The process dies and starts again: the requests are forgotten.          *)
Crash ==
    /\ DB!Crash
    /\ rq' = [c \in Calls |-> Idle]
    /\ said' = None
    /\ displaced' = displaced \cup
            UNION {HandlesOf(p) : p \in {s \in Paths : GivingUp(s)}}
    /\ UNCHANGED <<fsvars, given, dropped>>

Init ==
    /\ TreeInit
    /\ DB!Init
    /\ rq = [c \in Calls |-> Idle]
    /\ said = None
    /\ given = [h \in Handles |-> None]
    /\ displaced = {}
    /\ dropped = {}

(* No client asks for anything. *)
Quiet == (\A c \in Calls : ~Active(c)) /\ UNCHANGED nsvars

Next ==
    \/ \E c \in Calls : Request(c) \/ Handler(c) \/ Access(c)
    \/ Crash
    \/ Quiet

Spec == Init /\ [][Next]_nsvars

(* node's event loop and thread pool complete every access.                *)
FairSpec == Spec /\ \A c \in Calls : WF_nsvars(Handler(c) \/ Access(c))

-----------------------------------------------------------------------------

RqState == [pc : {"idle"} \cup DbPcs \cup FsPcs,
            h : Handles \cup {None}, n : Names \cup {None},
            h2 : Handles \cup {None}, n2 : Names \cup {None},
            how : {"EXCLUSIVE", "UNCHECKED", "GUARDED", None},
            p : SeqOf(Names, MaxDepth + 1) \cup {None},
            q : SeqOf(Names, MaxDepth + 1) \cup {None},
            obj : Handles \cup {None}]

(* The tree, the database and the requests have their types, every name    *)
(* that exists is in a directory, and a request waits for the database     *)
(* exactly while its slot of the database is in use.                       *)
TypeOK ==
    /\ TreeTypeOK
    /\ \A p \in Paths \ {Root} : Exists(p) => Is(Front(p), "dir")
    /\ DB!TypeOK
    /\ rq \in [Calls -> RqState]
    /\ said \in [c : Calls, ok : BOOLEAN] \cup {None}
    /\ \A c \in Calls : (call[c].pc # "idle") <=> (rq[c].pc \in DbPcs)
    /\ \A h \in Handles : given[h] # None => given[h].p \in Paths
    /\ displaced \cup dropped \subseteq Handles

(* A handle that is about to be replied to request c. *)
Offered(c) ==
    IF rq[c].obj # None THEN rq[c].obj
    ELSE IF /\ rq[c].pc \in {"mount_lookup", "lookup", "create_lookup",
                             "mkdir_lookup", "symlink_lookup"}
            /\ call[c].pc = "done" /\ call[c].ok
         THEN call[c].h ELSE None

(* Between clients that use different files a handle goes on standing for  *)
(* the file it was replied for, under whatever name a rename gives it,     *)
(* until that name is removed: the only handles to lose their file are     *)
(* those in displaced.                                                     *)
HandleStaysGood ==
    \A h \in Known \ (displaced \cup dropped) :
        /\ fn[h] # None
        /\ tree[fn[h]] = given[h].i \/ GivingUp(fn[h])

(* Once the name is removed the handle dies with it, before any other file *)
(* could be reached through it.                                            *)
DroppedHandleDies ==
    \A h \in dropped \ displaced :
        fn[h] # None => GivingUp(fn[h]) /\ ~Exists(fn[h])

(* An OK reply says what both stores say: the handle replied leads to the  *)
(* name and the name to it; a removed name is gone from both; a renamed    *)
(* file is found under its new name only, with a handle that leads there.  *)
(* A handle that an earlier failure or restart has left behind is excused. *)
ReplyTellsTruth ==
    [][\A c \in Calls :
         Active(c) /\ said' = [c |-> c, ok |-> TRUE] =>
            LET p == rq[c].p  q == rq[c].q  h == Offered(c)
            IN  /\ h # None => Exists(p) /\ fh[p] = h
                /\ h # None /\ h \notin displaced => fn[h] = p
                /\ rq[c].pc \in {"rmdir_del", "remove_del"} =>
                        ~Exists(p) /\ fh[p] = None
                /\ rq[c].pc = "rename_mv" /\ p # q =>
                        /\ Exists(q) /\ fh[q] # None
                        /\ fh[q] \notin displaced => fn[fh[q]] = q
                        /\ fh[p] = None
                        /\ Exists(p) => tree[p] = tree[q]]_nsvars

(* An exclusive create never takes, or truncates, a file that is already   *)
(* there, though other requests run between its stat and its open.         *)
ExclusiveMakes ==
    [][\A c \in Calls :
         rq[c].how = "EXCLUSIVE" /\ rq'[c].pc = "create_lookup"
         /\ rq[c].pc # "create_lookup" => ~Exists(rq[c].p)]_nsvars

(* Every request is answered, whatever it overlaps with and whatever       *)
(* fails.                                                                  *)
EveryRequestAnswered == \A c \in Calls : Active(c) ~> ~Active(c)

(* Requests on different files use the database for different paths at a   *)
(* time, so they are the "disjoint" callers that HandleTable and the       *)
(* theorems about FHDB ask for.                                            *)
UsesDBApart ==
    \A c, d \in Calls :
        c # d /\ DB!Busy(c) /\ DB!Busy(d)
            => DB!Touched(call[c]) \cap DB!Touched(call[d]) = {}
=============================================================================
