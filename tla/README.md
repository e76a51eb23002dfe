# A TLA+ model of sdc-nfs

sdc-nfs is a user-level NFS v3 server for node.js (`server.js`, `lib/`).  This
directory holds TLA+ modules that model it, TLC configurations that check them
on small instances, and proofs that TLAPS checks.

    tlc -config fhdb.cfg MCFHDB                 # one run; PROJECT.json lists all
    tlapm FHDBProofs.tla                        # proofs; every module named *Proofs

## The system

One node process serves three RPC programs: a portmapper, `mountd` and `nfsd`.
A procedure is a *chain* of handlers `(call, reply, next)`; a handler waits for
one asynchronous access (file system or database), and its callback replies,
ends the chain with `next(false)`, or goes on with `next()`.  Nothing orders
two requests: between any two callbacks of one request, callbacks of any others
may run, and accesses handed to node's thread pool complete in any order.

| component | source | state | operations | module |
|---|---|---|---|---|
| file handle database | `lib/fhdb.js` | LevelDB: `:fh:<path>` -> uuid, `:fn:<uuid>` -> path | `fhandle`, `lookup`, `mv`, `del` | FHDB |
| | | open or not | `open`, `close` | Server |
| namespace procedures | `lib/nfs/{lookup,create,mkdir,rmdir,remove,rename,link,symlink}.js` | locals of the request; the file system and the database below | one chain each | Namespace |
| mount daemon | `lib/mount.js` | none (configured exports and hosts) | `MNT`, `UMNT` | Namespace, Server |
| file I/O | `lib/nfs/{read,write,commit}.js`, `common.open` | LRU cache: handle -> `{fd, size}` (`server.js:312`) | `READ`, `WRITE`, `COMMIT`, dispose | FdCache |
| attributes | `lib/nfs/setattr.js` | locals (`_mtime`, `_atime`) | `SETATTR`: mode, owner, size, times in turn | Setattr |
| directory listing | `lib/nfs/readdir{,plus}.js`, `common.hash` | none between calls: the cookie is a position, the verifier a hash | `READDIR`, `READDIRPLUS` | Readdir |
| start-up, shutdown | `server.js` | which servers run | database ready, portmapper or registration, signals | Server |
| portmapper | `lib/portmap.js` | a constant table | `get_port`, `dump`; client: `set`, `unset` | Server |
| server object | `lib/nfs/index.js` | none | check of the host, dispatch | Server (check) |
| queries | `access, getattr, readlink, fsinfo, fsstat, pathconf, mknod` | none | one file system call each | - |

How they interact.  Every procedure but MNT begins with `fhdb.fhandle` on the
handle the client sent.  The namespace procedures change the file system first
and the database second, in two (or, for a rename, three) separate steps.  READ,
WRITE and COMMIT reach the file through the shared descriptor cache, SETATTR and
CREATE reach the same file by name.  A failed `assert`, or a call of node that
throws, ends the process; the service manager (`svc/smf`) starts it again with
the database and the files as they were and everything else gone.  What the
host's portmapper was told outlives the process as well.

What is hard.  Two requests on one path; a database entry or an attribute read
before an access and used after it; a failure or a restart between the two
stores, or between the two batches of `mv`; a descriptor that is closed, by
eviction, expiry, overwrite or end of file, while a request holds it; a size
remembered at open; a directory that changes between two pages of its listing;
a chain that fails half way; a signal in the middle of the start-up.  These are
the hazards of PROJECT.json, and the properties below are aimed at them.

## Modules

| module | models |
|---|---|
| `FHDB` | `lib/fhdb.js`: one action per database access with its callback |
| `HandleTable` | what the database promises: lookup, mv and del as single steps on a table |
| `FHDBRefinement`, `FHDBRefinementProofs` | the mapping under which FHDB implements HandleTable; the proof that it does |
| `FHDBProofs` | theorems about FHDB |
| `FileSystem`, `FileSystemProofs` | external: a tree of names over inodes, as node's `fs` shows it; lemmas about paths and trees |
| `Namespace`, `NamespaceProofs` | MNT, LOOKUP, CREATE, MKDIR, RMDIR, REMOVE, RENAME, LINK, SYMLINK over FileSystem and FHDB; theorems |
| `FdCache`, `FdCacheProofs` | READ, WRITE, COMMIT and the descriptor cache; theorems |
| `Setattr`, `SetattrProofs` | SETATTR on one file that others use; theorems about it |
| `Readdir`, `ReaddirProofs` | READDIR and READDIRPLUS, a client that pages through a directory, `common.hash`; theorems |
| `Server`, `ServerProofs` | lives of the process, the host's portmapper, the checks of hosts; theorems |
| `MC*` | constants and symmetry sets for TLC |

**FHDB.**  `fh` and `fn` are the two key spaces; `call[c].pc` names the access
that call `c` waits for.  `LookupGet`, `LookupLstat`, `LookupWrite` are the three
accesses of `lookup`, and so on.  An error of `db.get` is the same to every
caller whether the key is missing or the read failed, so `GetErr` covers both.
A batch is atomic (LevelDB's promise).  `issued` makes uuids unique; `retired`
and `torn` are history variables: the handles that del removed, and those whose
mv was cut off between its two batches, by a failing batch or a restart - the
code leaves both paths of such a handle in the database and never repairs them.
`Overlap` names what callers may do at once: `"any"`; `"sources"`, where no mv
overlaps with a call that gives up the same path; `"disjoint"`, calls on
different paths.

**Namespace.**  An action per handler, named as in the source; the database call
of the request in slot `c` runs in slot `c` of FHDB, access by access (`Access`).
An access to the file system and its callback are one action, since a callback
only starts the next access.  `given`, `displaced`, `dropped` are history
variables: the file a handle was replied for, the handles that a rename or a
failure has cut off, the handles whose name was removed.  `said` is the reply of
the last step.  The nfs module's `cheat` in lookup.js only sets a field for the
reply's attributes and is left out, as are chmod, chown and close in CREATE,
whose errors the code ignores.  Symbolic links dangle.

**FdCache.**  A descriptor is a number that the system gives again once closed.
`heap` holds the `{fd, size}` objects, which the cache and the requests *share*:
WRITE updates the size through the reference.  `closing` holds the descriptors
whose `fs.close` has been asked for.  `read` and `read_done` are separate: the
first is the access, the second the callback.  `conf` is the configuration,
chosen at the start and never changed: size and time to live of the cache, the
process's limit of descriptors, and what clients and accesses do.

**Setattr.**  `pc` names the access that a request waits for, or `"throw"` where
`utimes` is about to get an undefined time.  `setattr_own` is two actions, its
`lstat` and its `chown`; the two `get` handlers and the start of `setattr_time`
are part of the step before (`Timed`, `ToTime`), as they make no access: the test
in `setattr.js:158` and `:207` is for `null`, `undefined` passes it, and the
`lstat` below it is dead code.  A client's time that is null throws as well: the
lines that would refuse it log an `err` that nothing declares (`setattr.js:138`,
`:187`).  Times are instants that the conversions round down (`Down`): a `Date` to
the millisecond, a client's time to the second (`:144`, `:193`), the times in
`fs.Stats` to `StatUnit`, the second in the node 0.10 that `package.json` asks for or
the millisecond.  `chown` and `truncate` may clear set-id bits (`MayClear`), as they
do on Linux.  The module is about one file that is no symbolic link: of a handle on
a link `lstat` shows the link, while the other four calls follow it to a file that
may be anybody's.  `file` is changed by other requests too (`Write`,
`Read`, a second SETATTR).  `before` and `since` remember what the file was like
when the request began, as long as nobody else has changed it.

**Readdir.**  A name is a number, in the order of `readdir(3)`.  `readdir` passes
over all names in one step, READDIRPLUS takes two accesses for each
(`plus_lstat`, `plus_lookup`); "." and ".." are its entries -1 and 0.  The sizes
are those of the source, `Long` are names that need four bytes more.  `hash`
computes with integers from `-Half` to `Half - 1`; in the code `Half` is 2^31.
The directory's path is `at` in the file system and `known` in the database:
`Rename` (`rename.js:62`) changes the first, `Mv` (`:72`) later the second, and
requests are served in between (`mvs`); `MvLost` is the mv that fails, or a
restart before it.  Every access of a page may fail by itself.  `calm` is history:
it is false once something that refuses a page has happened.  The client asks on
from the last cookie until eof or an error, with either procedure, and asks again
if a reply is lost.

**Server.**  `boot` is where the start-up is, `clean[s]` where the clean-up of
signal `s` is: the two run side by side, and so do two clean-ups.  `hostpmap` is
the table of the host's portmapper, or None while it is down; it and `mounted`
live on when the process ends and is started again, maybe with another
configuration.  A call to the portmapper that fails may have been carried out.
`mount` and `request` are there for the checks of the two daemons only; what
they do is in Namespace and the other modules.

## Runs

Bounds are small because the hazards need few actors: two overlapping requests,
two or three paths, and enough uuids that every path can be given a new handle
after its first one was removed.  A request only starts while a uuid is left for
it (`UuidLeft`), so the bound cuts behaviours short and changes none.

| run | question | size |
|---|---|---|
| `fhdb` | overlapping lookups, dels and `"sources"` mvs, failures, restarts: does a path's handle lead back, does a dead handle stay dead, does a handle change its path only by an mv or a del? | 2 calls, 3 paths, 3 uuids; 1.8 M states |
| `fhdb_atomic` | do calls on different files implement HandleTable? | 2 calls, 3 paths, 3 uuids |
| `ns_flat` | clients on different files, or racing for a name with exclusive creates, failures, restarts: does a handle follow its file and die with it, does an OK reply say what both stores say, does an exclusive create take a file, is the database called as FHDB's `"disjoint"` callers call it? | 2 requests, 2 names, 3 uuids; 0.8 M |
| `ns_tree` | directories: MKDIR, RMDIR, LINK, renames of directories | 1 request, 2 names, depth 2, 4 uuids; 1.7 M |
| `ns_any` | all nine procedures, any overlap, every failure: is every request answered? | 2 requests, 1 name, 2 uuids; 0.2 M |
| `fd` | is each descriptor owned once, the cache within its limit, each access to the file opened, eof truthful? | 2 requests, 2 files; cache of 1 and 2 descriptors, or cache of 2; 2.9 M |
| `fd_live` | is each request answered and each disposed descriptor closed? | 2 requests, 1 file; 0.1 M |
| `readdir` | what may a listing miss or repeat, do its pages come from one path, why is a page refused, does a listing end? | 3 names, 2 paths, 8-bit hash, pages of one and two entries and one too small; 1 addition, 1 removal, 1 mv while it goes on, 1 rename under way, 1 change of procedure; 1.7 M |
| `setattr` | what does a reply mean, is a change of owner lost, is every request answered? | 2 requests of 5 kinds; milliseconds of 2 instants, seconds of 4, a clock from 5 to 6; 0.7 M |
| `server` | can who serves be found, has it a database, does an exit clean up, do both daemons let in the same hosts, do start-up and shutdown end? | 5 configurations, 2 hosts, 2 signals; 0.1 M |

What needs a precondition, and why.

* `ForwardConsistent` with mv needs `"sources"`: two overlapping renames of one
  path really do leave both new names on one handle.
* `HandleStaysGood`, `DroppedHandleDies` and `ReplyTellsTruth` are stated for
  clients that use different files: a CREATE between an unlink and its del
  revives the old handle.  Only exclusive creates may race for a name (`Race`),
  as clients do to take a lock; `ExclusiveMakes` is about them.
* They excuse the handles in `displaced` or `torn`.  A directory rename leaves
  the entries below it behind, a rename onto a file leaves the replaced file's
  handle, and a failure or restart between the file system's change and the
  database's leaves the handle of that name.  After a restart between the two
  batches of mv, a new file at the old name is replied with the renamed file's
  handle; the code repairs none of this, and the properties say that nothing
  else goes wrong.
* `HandleKeepsPath` is about every handle.  One that a failure or a restart between
  mv's batches has left at two paths (`torn`) leads to the new one, and may still be
  moved or ended by an mv or a del of the old one, which the property allows;
  `NoResurrection` and `ForwardConsistent` leave such handles out.
* `FdSafe` needs one user to a file and room in the cache; without them the code
  closes descriptors in use, which `fd_eof_close` shows.  `EofTruthful` needs the
  same (`Roomy`): a write through a descriptor that was closed and given again grows
  a file whose cached size does not follow.  It excludes growth by name in the
  direction that growth breaks and shrinking in the other.
* `ReplyExact` is about a SETATTR that is alone with the file, and says what its
  reply means with the conversions: a client's time is set to the second, the
  server's to the millisecond, and a time that is not set while the other is gets
  what `lstat` showed, to `StatUnit` - the mtime from before its own truncation
  included.  The mode may lose set-id bits to `chown` or `truncate`.  With exact
  times, or with the mode just as asked, it is false of the code.
* `OwnerKept` needs one client at a time to change the owner: of two that
  overlap, one naming the uid and one the gid, the later `chown` undoes the other.
* `AnsweredUnlessEnded`: a request that sets one time and no owner ends the
  process, and so does every repetition of it by its client (`EndsServer`).  A null
  time does the same; the requests of the run have none, the theorems do.
* `MissesBounded` and `RepeatsBounded` count: one name may be missed for every
  removal, one repeated for every addition, and two for every change between
  READDIR and READDIRPLUS, whose cookies differ by two for the same name.
  `OnePath` excuses paths whose hashes are equal or 0; 2^31 can be a verifier
  (the hash whose sign cannot be dropped), and the run has a path of that kind.
  OnePath compares paths: another directory that comes to the old path while the
  handle still leads there is not modelled, and the code would go on with it.
* `ErrorsHaveCause` cannot name the error of an access that fails by itself (a
  failing `get` or batch, any errno): such a page is refused, and is not `calm`.  For
  the rest it says which changes refuse a page.  The time between `fs.rename` and
  `fhdb.mv`, and for ever after a restart there, is one: the handle's path is not the
  directory's.  A bad cookie has one cause only, an mv of the directory.
* `ListingEnds` is about pages with room for the longest name.  A page without is
  answered OK, empty and not the last, and its client asks for ever.
* `Findable` needs the default ports: `mount.port` and `nfs.port` of the
  configuration are not followed by the mappings, which are constants; and that
  the host's portmapper has kept what it was told.
* `CleanExit` needs the signal to come after the registration, which goes on
  during the clean-up, and every `unset` to be answered; a kill cleans nothing.
* `HasDatabase` is about a process without a signal: one that comes while the
  database opens closes it, but 'ready' is emitted and the daemons may start.

`LINK`, whose file and new name both need a place in the tree, runs in `ns_tree`
and, up to its refusal, in `ns_any`; liveness of a request does not depend on how
many names there are, as none of its handlers waits for another request.  With two
uuids, one of which the exported directory takes, only one of two overlapping
requests of `ns_any` may be of a kind that draws another.

In `fd` an entry may expire between `has` and `get`, which both read the clock:
`get` then returns nothing, the handler's assertion (`read.js:22` and its like in
WRITE and COMMIT) fails, and the process ends and starts again (`Die`).  In
`server` the process also dies when a clean-up finds `cfg.portmap.url` unset, when
the clean-up's portmapper client has an error (it has no listener for one), and
when a `portmap` section has neither `usehost` nor `mappings`.

Two runs are expected to find a violation, each of something the repository
says of itself:

* `fhdb_mv_keeps`: renaming a file onto its own name deletes the entry that the
  update has just written ("The new file keeps the old file's fhandle",
  `lib/fhdb.js:130`).
* `fd_eof_close`: READ at end of file closes a descriptor that another request
  holds ("we assume we can close the FD out", `lib/nfs/read.js:37`).

Of the same kind, and visible in `Setattr` but without a run of its own: "already
have mtime from a previous stat" (`setattr.js:157`) where there was no stat; and
FSINFO's `time_delta`, "milliseconds" (`fsinfo.js:34-37`), where SETATTR sets a
client's time to the whole second (`ReplyExact` says so).

**Fairness.**  Liveness assumes weak fairness of each request's next access or
callback, of the restart after a failed assertion or a throw (`Die`), and of each
pending close: libuv completes every access it was given, the event loop runs
every completed callback, and the service manager restarts the service.  In
Server it is assumed of every callback of start-up, close and clean-up, not of
signals, of `Start` or of the host's portmapper.  That includes the calls to the
portmapper, which go over UDP (`server.js:410`): that one without an answer is called
back with an error in the end is an assumption about the oncrpc library, which is
not in the repository, and libuv alone does not give it.  `ShutsDown` and
`StartsOrEnds` say nothing of a process that waits for such a call for ever.  Nothing is assumed about
clients, nor that an access succeeds - but for Readdir, where a listing is the
client's: it goes on asking, and a reply that is sent again and again arrives
(strong fairness of `Receive`).

**Deadlock** is checked in every run.  Namespace has a `Quiet` step for the time
when the uuids of the bound are used up and no request can start.

## Proofs

`FHDBProofs` proves, for every set of calls, paths and uuids:

* `TypeCorrect`: `Spec => []TypeOK`.
* `HandlesLeadBack`: `Spec => []ForwardConsistent`, assuming `Disciplined`:
  nobody renames, or the callers are `"sources"` or `"disjoint"` callers; nothing
  is assumed about failures and restarts.  It is what `UsesDBApart` (run
  `ns_flat`) says of the server's own calls when clients use different files.
* `RemovedHandlesStayDead`: `Spec => []NoResurrection`, same assumption.
* `HandlesKeepTheirPath`: `Spec => HandleKeepsPath`, an action property, same
  assumption: whatever fails, a handle that leads somewhere leads there until an mv
  or a del that found it, under that path or, if it is torn, under the other.

None of these invariants is inductive.  `IInv` (theorem `InvariantHolds`) adds
what the calls hold in their hands: every uuid seen anywhere has been drawn (so a
fresh one collides with none); a fresh uuid is held by one call and is not in the
database; the handle that mv or del found still stands for its path when the
batch is written, or is already dead; no two calls give up the same path when one
is an mv.  `DelHolds` and `MvHolds` are where the discipline is needed: they are
what an overlapping mv breaks.  The proof has a lemma per action.

`FHDBRefinementProofs` proves `ImplementsHandleTable`: `Spec => ImplementsTable`, step
by step under the mapping of FHDBRefinement, assuming that the calls in flight have
no path in common (`Overlap = "disjoint"`) and that a failure is that of a batch.
These are the conditions of the run.  TLC finds the refinement violated when a
restart or a failing batch may come between the two of `mv`, which leaves half of it
done; a failing `get` makes a new handle for a path that has one, which is no
`lookup` of the table.
Its invariant adds to `IInv` that what a `get` found, or did not find, is still so
when the batch is written (`StillSo`).

`FdCacheProofs` proves for every set of configurations, slots and objects every
invariant of the run `fd`: `TypeCorrect`, `EveryFdOwned` (FdOwned),
`CacheStaysBounded`, `AccessesAreSafe` (FdSafe) and `EofIsTruthful`.  Its invariant
adds: the recency list has no repetitions; what the cache or a request holds is a
descriptor (`HeldOpen`), which a request has from its open on (`Stages`); and, where
there is room and one user to an object, that a request's descriptor is the one
cached (`Keeps`) and that the size kept with it is at least the file's, but for a
write whose callback is still to come (`KnowsAll`), and at most (`KnowsNoMore`).
`FreeEntry` counts: with the cache and all other requests there is still an object
for an open to make.  Steps that open and close nothing share one lemma
(`StepsKeep`); opening, closing and dying have their own.

`ServerProofs` proves for every set of configurations and hosts `TypesHold`,
`DaemonsHaveDatabase` (HasDatabase), `OrderlyExitIsClean` (CleanExit) and
`GatesAgree` (OneGate).  The invariant relates the stage of the start-up to the
database, the portmapper in use and the url, and says for each stage of a
clean-up which mapping is gone already: two clean-ups and a start-up may each
have the next word.  `DaemonsAreFound` (Findable) needs one more invariant
(`Registered`: what the host's portmapper holds from each stage of the start-up on,
unless it has lost it) and assumes `TablesAgree`: a configured table that is there
to stand in for the built-in one sends clients to the ports at which the daemons
listen.  `BuiltinAgrees` proves that of the table `configure()` makes.

`SetattrProofs` proves for every set of requests and slots `TypesHold` and
`OwnerIsKept` (OwnerKept).  The invariant says that a request which waits for its
`chown` holds the file's present owner where its client named none
(`ChownKnows`), that no second one is about (`OneOwner`), and that a request still
has to come to its owner's part if it has one (`AllDue`).  `RepliesAreExact`
(ReplyExact) has an invariant of its own, `Progress`: for each `pc`, which
attributes of the file are already as asked and which are still as they were
before, the times with what the request remembers of them, for any units of time
(`DownGood` is all it needs of the rounding) and any of the set-id bits that the
calls clear (`ModeSteps`).

`ReaddirProofs` proves every invariant of the run `readdir`, for any finite set of
names, any paths, widths and sizes of pages and any number of changes, renames under way
and failures: `TypesKept`
(TypeOK), `MissesAreBounded`, `RepeatsAreBounded`, `PagesFromOnePath` (OnePath) and
`ErrorsAreCaused` (ErrorsHaveCause).  The invariant `RInv` says what each request is
at its `pc` (`Phase`) and which listing it belongs to (`Link`), that a page and what is
left of the directory are in order (`Ordered`, `Staged`) and, of a request that
nobody has disturbed, that its names are all there (`Calm`).  Its core counts.  Of the
names that were there all along, `Behind` are those at a position that the listing
has passed, `Ahead` those before it; at most `Missable` names are behind and not
seen, at most `Repeatable` are seen twice or seen and ahead, for the client between
two pages (`Misses`, `Repeats`) and for the request *for every place at which its
page may end* (`Missed`, `Repeated`), as size limits, errors and other requests may
end it anywhere.  A removal moves every position by one at most and so puts one
name behind (`BehindRemoved`); an addition puts one ahead, itself or another
(`AheadAdded`); a change of procedure moves the cookie by two against the positions
(`BehindNext`, `AheadBefore`); and every other step keeps both counts.  `SignedRange`
proves the range of `hash` for strings of any length: by the least index at
which it would fail.

`FileSystemProofs` has the lemmas about the tree: what is a path, a prefix, a parent,
what of a path is moved by a rename (`MovedProperties`), and that each operation
leaves a tree of which every name is in a directory (`TreeMake` to `TreeRename`).

`NamespaceProofs` is about all nine procedures over both stores, for any requests,
uuids, names, inodes and depth.  `TypesKept` (TypeOK) holds for any overlap and any
failure; its invariant `NInv` says what a request holds at each handler (`Locals`)
and what its slot of the database does meanwhile (`Slot`).  The handlers fall into
ten kinds (`HandlerKinds`), and the later proofs go by kinds.

`DatabaseUsedApart` (UsesDBApart) assumes clients that use different files, exclusive
creates of one name excepted, and nothing about failures and restarts.  That
requests on different files call the database for different paths is not evident:
a client names a file by handle, the handle is resolved later, and an exclusive
create that has lost must not get as far as the database.  The invariant `AInv` keeps
the requests apart from their start to their end, although a handle's path may
change meanwhile (`PairsApart`, `Resolved`: only a request that is about the path
changes it); of racing creates only the one that made the name looks its handle up
(`MadeThere`, `WonAlone`); a uuid just drawn is nobody's yet, so no request can be
about it (`SpokenDrawn`).  It holds FHDB's `IInv` as a conjunct: each step of Namespace
is a step of FHDB with `"disjoint"` callers, or none, and `Store!InvNext` of
`FHDBProofs` does the rest.  So `ServedHandlesLeadBack`: ForwardConsistent and
NoResurrection hold in the server, not only of an abstract caller.

`HandlesStayGood` (HandleStaysGood), `DroppedHandlesDie` (DroppedHandleDies) and
`RepliesTellTruth` (ReplyTellsTruth) assume besides that no `get` of the database
fails (`"get" \notin Faults`); writes, clean-ups, the file system and the process may.
The assumption is needed: `lookup` and `mv` take any error of their `get` for "not
found" (`lib/fhdb.js:94`, `:178`) and write a second handle for a path that has one,
and a later rename or removal of the path passes the first by.  With `get` in the
Faults of `ns_flat` TLC finds each of the three violated.
Their invariant `HInv` adds to `AInv`, for handles that nothing has displaced:

* `Forward`, `Backward`: the two entries of a handle agree, but for an mv whose new
  entries are written and whose old one is not yet deleted, or could not be.
* `Missed`: the path that `lookup` or `mv` did not find still has no handle when the
  new one is written; `Answered`: the handle found is still the path's at the reply.
* `Dropping`, `Gone`, `DroppedDrawn`: a handle whose name was unlinked keeps its path
  only while a request is about to delete it, and that name does not come back
  meanwhile.
* `Moving`: where an mv stands.  Before its write, handles of the old name are the
  renamed file's and those of the new name are displaced (`MvStale`); after it both
  names lead to one handle (`MvCarried`); in the end the new one does (`MvOver`).

Each part is about two requests at a time: what a request finds has to outlast every
step of the others.  `SettledApart` and `AccessLeaves`, `HandlerLeaves` say why it
does: requests under way have no path in common.

`ExclusiveCreatesMake` (ExclusiveMakes) needs none of this: it holds for any overlap and
any failure, from `NInv` and `Races` (an exclusive create never reaches `open` with 'w').

The proof changed the model in two places.  `Targets`, by which requests are told
apart, looked at one entry of a handle; a handle that a failing mv has left behind
has two, and a request may be about either.  `Rename` chose among overlapping CASE
guards, of which TLC takes the first and the semantics any; they are an IF now.

The assumptions on constants are `NoneAssumption` and `ParameterAssumption`
(FHDB), `CacheAssumption`, `ServerAssumption`, `NoneIsNoTable` (Server: the value for "no
table" is none of the tables), `SetattrAssumption`, `ReaddirAssumption`, `FileSystemAssumption` and
`NamespaceAssumption`; TLC evaluates them in the runs.

Every conjunct of these inductive invariants was checked by TLC on the instance of
the run before it was proved.  With that a theorem states every
property of the passing runs but the liveness properties, which are out of the
prover's reach and only model-checked.  Out of its reach is also induction with an
operator as its parameter; where a recursive function is reasoned about (`SignedRange`), the
least element of a set of naturals takes its place (`Least`).

## Not modelled

* File contents (only sizes) and the status code of an error.
* ACCESS: a function of one `stat`, on which no state depends.  Its comment says
  'check "other" mode' (`access.js:47`); it tests 0100, 010 and 01, the execute
  bits of owner, group and others.
* The queries GETATTR, READLINK, FSINFO, FSSTAT, PATHCONF and MKNOD: a call and a
  reply, no state.  On an error `fsinfo.js:23` and `pathconf.js` reply twice; what
  the second reply does is the nfs module's affair, which is not in the repository.
* Two overlapping CREATEs of mode GUARDED may both succeed, the second truncating
  (`create.js:95`): nothing in the repository promises otherwise.
* UMNT, which only replies, and the prefix check of `exports` in mountd.
* `lib/auth.js`, logging, parsing of options and configuration, packaging.
* `WRITE` replies FILE_SYNC without an fsync; losing acknowledged data to a power
  failure is not modelled, as it is the operating system's doing.
* A listing of a directory at whose old path another one appears, and a SETATTR on a
  symbolic link (see Readdir and Setattr above).
* The uid and gid of "nobody" (`convert_neg_id`), `vfspath`.

## Plan

Done: all components that keep state.  Left, in order of worth:

1. ACCESS as a function against a reference definition.
2. The abstract table's operations as the specification that Namespace implements, for
   clients on different files.
