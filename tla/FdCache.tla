------------------------------ MODULE FdCache -------------------------------
(***************************************************************************)
(* READ, WRITE and COMMIT (lib/nfs/read.js, write.js, commit.js) over the  *)
(* cache of open files: common.open takes a file descriptor from the cache *)
(* or opens the file and caches the new one; what falls out of the cache   *)
(* is closed by dispose (server.js).  A descriptor is a small number that  *)
(* the system gives again once it is closed, and neither the cache nor the *)
(* handlers know who else is using one.                                    *)
(*                                                                         *)
(* An object (a file handle) stands for one file; of a file only its size  *)
(* is kept.  Every access to the file system is an action; the callbacks   *)
(* of read and write are actions of their own, since they look at what     *)
(* may have changed since the access.                                      *)
(***************************************************************************)
EXTENDS SequencesExt

CONSTANTS
    Calls,      \* slots for requests in flight
    Objects,    \* file handles
    None,
    Configurations      \* what the server may be set up for: see below

(* A configuration, fixed when the process starts.  max: fd_cache.max;     *)
(* limit: the descriptors the process may have; sharing: are there two     *)
(* requests on one object at a time; expiry: do cache entries expire       *)
(* (fd_cache.ttl), and lapse: may one do so between has and get; resizes:  *)
(* how the size of a file changes by name (SETATTR, CREATE); failing: do   *)
(* accesses fail?  bytes is a bound of the model: the largest file.        *)
Configuration == [max : Nat \ {0}, limit : Nat \ {0}, sharing : BOOLEAN,
                  expiry : BOOLEAN, lapse : BOOLEAN,
                  resizes : SUBSET {"shrink", "grow"}, failing : BOOLEAN,
                  bytes : Nat \ {0}]

ASSUME CacheAssumption == /\ \A k \in Configurations : k \in Configuration
                          /\ IsFiniteSet(Configurations) /\ Configurations # {}
                          /\ IsFiniteSet(Calls) /\ IsFiniteSet(Objects)
                          /\ None \notin Objects \cup Nat

AllFds == 1..Max({k.limit : k \in Configurations})
Opens == 1..(Cardinality(Objects) + Cardinality(Calls))

VARIABLES
    conf,       \* the configuration
    size,       \* size[o]: the size of o's file
    table,      \* table[f]: the file that descriptor f is open on
    heap,       \* heap[e]: the object {fd, size} that open() made
    cache,      \* cache[o]: the {fd, size} cached for o
    order,      \* the cached objects, least recently used first
    stale,      \* the cached objects whose ttl has passed
    closing,    \* the descriptors whose close has been asked for
    rq          \* rq[c]: the locals of the request in slot c

fdvars == <<conf, size, table, heap, cache, order, stale, closing, rq>>
cachevars == <<cache, order, stale, closing>>

(* The cache: lru-cache as the handlers use it. *)
Cached(o) == cache[o] # None
Has(o)    == Cached(o) /\ o \notin stale

Nothing == [fd |-> None, size |-> 0]
Idle    == [pc |-> "idle", proc |-> None, o |-> None, off |-> 0, count |-> 0,
            n |-> 0, size |-> 0, e |-> None]
Active(c) == rq[c].pc # "idle"

(* The heap, as h has it, less what neither the cache nor a request refers *)
(* to any more.                                                            *)
Held(e) == \/ \E o \in Objects : cache[o] = e
           \/ \E c \in Calls : rq[c].e = e
Heap(h) == heap' = [e \in Opens |-> IF Held(e)' THEN h[e] ELSE Nothing]

FreeFds   == {f \in AllFds : f <= conf.limit /\ table[f] = None}

-----------------------------------------------------------------------------
FdsOf(os) == {heap[cache[o]].fd : o \in {s \in Objects : s \in os /\ Cached(s)}}

(* The cache's operations.  Whatever leaves it is disposed of: its close   *)
(* is asked for (server.js:313).                                           *)

get(o) == /\ order' = Append(RemoveFirst(order, o), o)
          /\ UNCHANGED <<cache, stale, closing>>

delNoDispose(o) ==      \* mutant: no dispose option
    /\ cache' = [cache EXCEPT ![o] = None]
    /\ order' = RemoveFirst(order, o)
    /\ stale' = stale \ {o}
    /\ UNCHANGED closing

del(o) == /\ cache' = [cache EXCEPT ![o] = None]
          /\ order' = RemoveFirst(order, o)
          /\ stale' = stale \ {o}
          /\ closing' = closing \cup {heap[cache[o]].fd}

setNoMax(o, e) ==       \* mutant: no max option
    /\ cache' = [cache EXCEPT ![o] = e]
    /\ order' = Append(RemoveFirst(order, o), o)
    /\ stale' = stale \ {o}
    /\ closing' = closing \cup FdsOf({o})

(* set disposes of the value it overwrites; otherwise the least recently   *)
(* used entry makes room.                                                  *)
set(o, e) ==
    LET evict == IF Cached(o) \/ Len(order) < conf.max THEN None ELSE Head(order)
        gone  == {evict, o}
    IN  /\ cache' = [s \in Objects |-> CASE s = o     -> e
                                         [] s = evict -> None
                                         [] OTHER     -> cache[s]]
        /\ order' = Append(RemoveFirst(RemoveFirst(order, o), evict), o)
        /\ stale' = stale \ gone
        /\ closing' = closing \cup FdsOf(gone)

-----------------------------------------------------------------------------

Set(c, r)    == rq' = [rq EXCEPT ![c] = r]
Goto(c, pc)  == Set(c, [rq[c] EXCEPT !.pc = pc])
Use(c, e)    == Set(c, [rq[c] EXCEPT !.pc = rq[c].proc, !.e = e, !.size = 0])
Reply(c)     == Set(c, Idle)        \* the answer itself is not kept
Error(c)     == Set(c, Idle)
Fails(ok)    == ~ok \/ conf.failing

Request(c, r) ==
    /\ ~Active(c)
    /\ conf.sharing \/ \A d \in Calls : Active(d) => rq[d].o # r.o
    /\ Set(c, [r EXCEPT !.pc = "fhandle"])
    /\ UNCHANGED <<size, table, heap, cachevars>>

READ(c, o, off, count) ==
    /\ off + count <= conf.bytes
    /\ Request(c, [Idle EXCEPT !.proc = "read", !.o = o, !.off = off, !.count = count])
WRITE(c, o, off, count) ==
    /\ off + count <= conf.bytes
    /\ Request(c, [Idle EXCEPT !.proc = "write", !.o = o, !.off = off, !.count = count])
COMMIT(c, o) == Request(c, [Idle EXCEPT !.proc = "commit", !.o = o])

(* fhandle_to_filename: the database knows the handle or not. *)
fhandle_to_filename(c) ==
    /\ rq[c].pc = "fhandle"
    /\ Goto(c, "open") \/ (conf.failing /\ Error(c))
    /\ UNCHANGED <<size, table, heap, cachevars>>

openTakes(c) ==         \* mutant: a descriptor in use is taken out of the cache
    /\ rq[c].pc = "open"
    /\ \/ Has(rq[c].o) /\ del(rq[c].o) /\ Use(c, cache[rq[c].o])
       \/ ~Has(rq[c].o) /\ Goto(c, "stat") /\ UNCHANGED cachevars
    /\ UNCHANGED <<size, table>> /\ Heap(heap)

(* common.open: has, then get; the entry may expire in between, and get    *)
(* then deletes it and returns nothing, on which the handler asserts.      *)
open(c) ==
    /\ rq[c].pc = "open"
    /\ \/ Has(rq[c].o) /\ get(rq[c].o) /\ Use(c, cache[rq[c].o])
       \/ Has(rq[c].o) /\ conf.lapse /\ del(rq[c].o) /\ Goto(c, "assert")
       \/ ~Has(rq[c].o) /\ Goto(c, "stat") /\ UNCHANGED cachevars
    /\ UNCHANGED <<size, table>> /\ Heap(heap)

open_stat(c) ==
    /\ rq[c].pc = "stat"
    /\ \/ Set(c, [rq[c] EXCEPT !.pc = "open_fd", !.size = size[rq[c].o]])
       \/ conf.failing /\ Error(c)
    /\ UNCHANGED <<size, table, heap, cachevars>>

(* The new descriptor is cached whatever the cache has by now. *)
open_fd(c) ==
    LET e == CHOOSE e \in Opens : ~Held(e)
    IN  /\ rq[c].pc = "open_fd"
        /\ \/ \E f \in FreeFds :
              /\ f = Min(FreeFds)
              /\ table' = [table EXCEPT ![f] = rq[c].o]
              /\ set(rq[c].o, e) /\ Use(c, e)
              /\ Heap([heap EXCEPT ![e] = [fd |-> f, size |-> rq[c].size]])
           \/ /\ Fails(FreeFds # {}) /\ Error(c)        \* EMFILE, EACCES, ...
              /\ UNCHANGED <<table, heap, cachevars>>
        /\ UNCHANGED size

-----------------------------------------------------------------------------

(* The file that a request's descriptor is open on at this moment. *)
FileOf(c) == table[heap[rq[c].e].fd]
FdOpen(c) == FileOf(c) # None
End(c)    == rq[c].off + rq[c].count

readRetries(c) ==       \* mutant: a failing read is tried again
    /\ rq[c].pc = "read"
    /\ UNCHANGED <<size, table, heap, cachevars>>
    /\ \/ FdOpen(c) /\ Goto(c, "read_done")
       \/ Fails(FdOpen(c)) /\ UNCHANGED rq

(* fs.read: as much as the file has, from whatever file it is. *)
read(c) ==
    /\ rq[c].pc = "read"
    /\ UNCHANGED <<size, table, cachevars>>
    /\ \/ /\ FdOpen(c)
          /\ LET left == Max({0, size[FileOf(c)] - rq[c].off})
             IN  Set(c, [rq[c] EXCEPT !.pc = "read_done",
                                      !.n = Min({left, rq[c].count})])
          /\ UNCHANGED heap
       \/ Fails(FdOpen(c)) /\ Error(c) /\ Heap(heap)

(* The callback decides on eof by the size kept at open, and at eof        *)
(* deletes whatever the cache has for the object.                          *)
Eof(c) == heap[rq[c].e].size <= rq[c].off + rq[c].n
read_done(c) ==
    /\ rq[c].pc = "read_done"
    /\ IF Eof(c) /\ Has(rq[c].o) THEN del(rq[c].o) ELSE UNCHANGED cachevars
    /\ Reply(c)
    /\ UNCHANGED <<size, table>> /\ Heap(heap)

write(c) ==
    /\ rq[c].pc = "write"
    /\ UNCHANGED <<table, cachevars>>
    /\ \/ /\ FdOpen(c)
          /\ size' = [size EXCEPT ![FileOf(c)] = Max({@, End(c)})]
          /\ Goto(c, "write_done")
          /\ UNCHANGED heap
       \/ Fails(FdOpen(c)) /\ Error(c) /\ Heap(heap) /\ UNCHANGED size

write_doneNoSize(c) ==  \* mutant: the size kept is that of the open
    /\ rq[c].pc = "write_done" /\ Reply(c)
    /\ UNCHANGED <<size, table, cachevars>> /\ Heap(heap)

write_doneAdds(c) ==    \* mutant: stats.size += n
    /\ rq[c].pc = "write_done" /\ Reply(c)
    /\ UNCHANGED <<size, table, cachevars>>
    /\ Heap([heap EXCEPT ![rq[c].e].size = @ + rq[c].count])

(* The callback keeps the size in the object that the cache shares. *)
write_done(c) ==
    /\ rq[c].pc = "write_done" /\ Reply(c)
    /\ UNCHANGED <<size, table, cachevars>>
    /\ Heap([heap EXCEPT ![rq[c].e].size = Max({@, End(c)})])

commit(c) ==
    /\ rq[c].pc = "commit"
    /\ Reply(c)             \* or an error: the request is over either way
    /\ UNCHANGED <<size, table, cachevars>> /\ Heap(heap)

Empty == /\ table = [f \in AllFds |-> None]
         /\ heap = [e \in Opens |-> Nothing]
         /\ cache = [o \in Objects |-> None]
         /\ order = <<>>
         /\ stale = {} /\ closing = {}
         /\ rq = [c \in Calls |-> Idle]

(* A failed assertion ends the process, and the system starts it again. *)
Die(c) == /\ rq[c].pc = "assert"
          /\ table' = [f \in AllFds |-> None]
          /\ heap' = [e \in Opens |-> Nothing]
          /\ cache' = [o \in Objects |-> None]
          /\ order' = <<>>
          /\ stale' = {} /\ closing' = {}
          /\ rq' = [d \in Calls |-> Idle]
          /\ UNCHANGED size

(* fs.close of a descriptor that was disposed of. *)
cache_close_fd(f) ==
    /\ f \in closing
    /\ table' = [table EXCEPT ![f] = None]
    /\ closing' = closing \ {f}
    /\ UNCHANGED <<size, heap, cache, order, stale, rq>>

Expire(o) ==
    /\ conf.expiry /\ Has(o)
    /\ stale' = stale \cup {o}
    /\ UNCHANGED <<size, table, heap, cache, order, closing, rq>>

(* CREATE of a name that exists, or SETATTR: by name, past the cache. *)
Resize(o) ==
    /\ \/ "shrink" \in conf.resizes /\ \E s \in 0..size[o] - 1 : size' = [size EXCEPT ![o] = s]
       \/ "grow" \in conf.resizes /\ \E s \in size[o] + 1..conf.bytes : size' = [size EXCEPT ![o] = s]
    /\ UNCHANGED <<table, heap, cachevars, rq>>

-----------------------------------------------------------------------------

Init == conf \in Configurations /\ size \in [Objects -> {0, 1}] /\ Empty

Handler(c) ==
    \/ fhandle_to_filename(c) \/ open(c) \/ open_stat(c) \/ open_fd(c)
    \/ read(c) \/ read_done(c) \/ write(c) \/ write_done(c) \/ commit(c)

(* An access is to at least one byte. *)
Next ==
    /\ UNCHANGED conf
    /\ \/ \E c \in Calls, o \in Objects :
            \/ \E off \in 0..conf.bytes, count \in 1..conf.bytes :
                READ(c, o, off, count) \/ WRITE(c, o, off, count)
            \/ COMMIT(c, o)
       \/ \E c \in Calls : Handler(c) \/ Die(c)
       \/ \E f \in AllFds : cache_close_fd(f)
       \/ \E o \in Objects : Expire(o) \/ Resize(o)

Spec == Init /\ [][Next]_fdvars

(* node's thread pool completes every access it was given. *)
FairSpec == /\ Spec
            /\ \A c \in Calls : WF_fdvars((Handler(c) \/ Die(c)) /\ UNCHANGED conf)
            /\ \A f \in AllFds : WF_fdvars(cache_close_fd(f) /\ UNCHANGED conf)
-----------------------------------------------------------------------------

RqState == [pc : {"idle", "fhandle", "open", "assert", "stat", "open_fd",
                  "read", "read_done", "write", "write_done", "commit"},
            proc : {"read", "write", "commit", None}, o : Objects \cup {None},
            off : 0..conf.bytes, count : 0..conf.bytes, n : 0..conf.bytes,
            size : 0..conf.bytes, e : Opens \cup {None}]

(* Types, and: the recency list holds each cached object once, and no      *)
(* object kept at open says more bytes than a file may have.               *)
TypeOK ==
    /\ conf \in Configurations
    /\ size \in [Objects -> 0..conf.bytes]
    /\ table \in [AllFds -> Objects \cup {None}]
    /\ heap \in [Opens -> [fd : AllFds \cup {None}, size : 0..conf.bytes]]
    /\ cache \in [Objects -> Opens \cup {None}]
    /\ ToSet(order) = {o \in Objects : Cached(o)}
    /\ Len(order) = Cardinality(ToSet(order))
    /\ stale \subseteq ToSet(order)
    /\ closing \subseteq AllFds
    /\ rq \in [Calls -> RqState]

(* Every open descriptor has exactly one owner: the cache entry that will  *)
(* be disposed of some day, or one pending close.  So none is leaked, none *)
(* is closed twice, and no close hits a number that has been given again   *)
(* to another file - whatever requests overlap and whatever fails.         *)
FdOwned ==
    /\ \A o \in Objects : Cached(o) =>
            LET f == heap[cache[o]].fd IN table[f] = o /\ f \notin closing
    /\ \A f \in closing : table[f] # None
    /\ \A f \in AllFds : table[f] # None =>
            f \in closing \/ (\E o \in Objects : Cached(o) /\ heap[cache[o]].fd = f)

(* The cache keeps no more files open than it was configured for.          *)
CacheBounded == Len(order) <= conf.max

(* No object has two users at once, and none leaves the cache for another   *)
(* or for its age.                                                         *)
Roomy == ~conf.sharing /\ ~conf.expiry /\ conf.max >= Cardinality(Objects)

InUse(c) == rq[c].pc \in {"read", "write", "commit"}

(* Where no object is used by two requests at once and the cache has room  *)
(* for all, a request reads and writes the file it opened: its descriptor  *)
(* is not closed, nor given to another file, before the access.            *)
FdSafe == Roomy => \A c \in Calls : InUse(c) => FileOf(c) = rq[c].o

(* There a READ that replies eof has reached the end of the file, though   *)
(* the size it goes by was read when the file was opened and writes have   *)
(* come since; and one that reaches the end says so.  The first needs that *)
(* no file grows by name, the second that none shrinks.                    *)
EofTruthful ==
    \A c \in Calls : rq[c].pc = "read_done" /\ Roomy =>
        LET atEnd == size[rq[c].o] <= rq[c].off + rq[c].n
        IN  /\ Eof(c) /\ "grow" \notin conf.resizes => atEnd
            /\ atEnd /\ "shrink" \notin conf.resizes => Eof(c)

(* Every request is answered and every descriptor that left the cache is   *)
(* closed.                                                                 *)
EveryRequestAnswered ==
    /\ \A c \in Calls : Active(c) ~> ~Active(c)
    /\ \A f \in AllFds : f \in closing ~> f \notin closing

(* "If we're at EOF, we assume we can close the FD out" (comment at        *)
(* read.js:37): when a READ closes the descriptor no other request is left *)
(* with it.                                                                *)
EofCloseHarmsNobody ==
    [][\A c, d \in Calls :
         (/\ c # d /\ InUse(d)
          /\ rq[c].pc = "read_done" /\ rq'[c].pc = "idle"
          /\ Cached(rq[c].o) /\ cache'[rq[c].o] = None)
         => rq[d].e # cache[rq[c].o]]_fdvars
=============================================================================
