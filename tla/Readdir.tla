------------------------------ MODULE Readdir -------------------------------
(***************************************************************************)
(* READDIR and READDIRPLUS (lib/nfs/readdir.js, readdirplus.js): a client  *)
(* lists a directory page by page while others add, remove and rename.     *)
(* The server keeps nothing between two pages: the cookie of an entry is   *)
(* its position in the directory as it was then, and the verifier is a     *)
(* hash of the directory's path.                                           *)
(*                                                                         *)
(* A name is a number, in the order in which readdir(3) sorts them.  One   *)
(* listing at a time is enough: listings share nothing.  An access fails   *)
(* for what has gone, and may fail whatever is there.  The handle database *)
(* (module FHDB) is asked for the directory's path and for the handles of  *)
(* its entries; a rename changes the file system first and the database    *)
(* afterwards, if nothing comes between.                                   *)
(***************************************************************************)
EXTENDS Integers, SequencesExt

CONSTANTS
    Names,      \* the names the directory may contain: positive numbers
    Long,       \* those that take four bytes more than the others
    Paths,      \* the paths of the directory: sequences of character codes
    Half,       \* hash computes with integers from -Half, 2^31, to Half - 1
    Rooms,      \* the sizes a client may allow for a page: see below
    MaxChanges  \* bound: how often each change happens during one listing

(* count of READDIR; dircount and maxcount of READDIRPLUS. *)
Room == [count : Nat, dircount : Nat, maxcount : Nat]

ASSUME ReaddirAssumption ==
    /\ Names \subseteq Nat \ {0} /\ IsFiniteSet(Names)
    /\ Rooms \subseteq Room /\ Half \in Nat \ {0}
    /\ \A p \in Paths : p \in Seq(Nat)

VARIABLES
    dir,        \* the names in the directory
    at,         \* the directory's path in the file system
    known,      \* the path that the handle database has for its handle
    mvs,        \* renames of the directory whose fhdb.mv is still to come
    rq,         \* the request for a page, and its reply
    ls,         \* the client's listing
    seen,       \* history: the names listed so far ...
    twice,      \* ... and those listed more than once
    stay,       \* history: the names that have been there all along
    changes,    \* history: counts of changes since the listing began
    from        \* history: the paths that the pages were read from

history == <<seen, twice, stay, changes, from>>
place == <<at, known, mvs>>
lsvars == <<dir, place, rq, ls, history>>

-----------------------------------------------------------------------------
(* common.hash: 31 * h + c, cut to a signed integer at each character.     *)

ToInt(x) == LET m == x % (2 * Half) IN IF m < Half THEN m ELSE m - 2 * Half

signed(s) ==
    LET h[i \in 0..Len(s)] == IF i = 0 THEN 0 ELSE ToInt(31 * h[i - 1] + s[i])
    IN  h[Len(s)]
hashSigned(s) == signed(s)      \* mutant: no Math.abs
hash(s) == IF signed(s) < 0 THEN -signed(s) ELSE signed(s)

byteLength(f) == IF f \in Long THEN 12 ELSE 8       \* the oncrpc module's XDR

-----------------------------------------------------------------------------

Idle == [pc |-> "idle", proc |-> "READDIR", path |-> <<>>, cookie |-> 0,
         verf |-> 0, room |-> CHOOSE r \in Rooms : TRUE, todo |-> <<>>,
         read |-> FALSE, cook |-> 1, sz |-> 0, totsz |-> 116, eof |-> TRUE,
         err |-> FALSE, out |-> <<>>, status |-> "OK", calm |-> TRUE]
\* calm (history): the path of the handle was the directory's, nothing has
\* been removed or renamed since the request came, and no access of its own
\* has failed whatever was there.

Dots == <<-1, 0>>       \* "." and ".."
Position(d, n) == Cardinality({m \in d : m < n}) + 1
Sorted == [i \in 1..Cardinality(dir) |->
                CHOOSE n \in dir : Position(dir, n) = i]

(* Mutant: nobody looks at the verifier. *)
VerifiedAny(r) == TRUE
Verified0(r) == r.verf = hash(r.path)       \* mutant: nor is 0 let through
Verified(r) == r.verf # 0 => r.verf = hash(r.path)

(* Entries to pass over until the position after the cookie is reached. *)
SkippedLess(r) ==       \* mutant: cookie > cook
    IF r.cookie > r.cook
    THEN Min({Len(r.todo), r.cookie - r.cook}) ELSE 0
Skipped(r) == IF r.cookie # 0 /\ r.cookie >= r.cook
              THEN Min({Len(r.todo), r.cookie - r.cook + 1}) ELSE 0

Skip(r) == [r EXCEPT !.todo = SubSeq(@, Skipped(r) + 1, Len(@)),
                     !.cook = @ + Skipped(r)]

EntryStuck(f, cook) == [name |-> f, cookie |-> cook - 1]    \* mutant: cook++ late
EntryAhead(f, cook) == [name |-> f, cookie |-> cook + 1]    \* mutant: ++cook
Entry(f, cook) == [name |-> f, cookie |-> cook]
AddEntry(r) == [r EXCEPT !.out = Append(@, Entry(Head(r.todo), r.cook)),
                         !.todo = Tail(@), !.cook = @ + 1]

Send(status)  == rq' = [rq EXCEPT !.pc = "sent", !.status = status]
SendR(r, s)   == rq' = [r EXCEPT !.pc = "sent", !.status = s]
ServerOnly    == UNCHANGED <<dir, place, ls, history>>

Disturbed(r) == [r EXCEPT !.calm = FALSE]
(* fs.readdir of a path that is not the directory's any more: nothing is   *)
(* there, or a file.  (Another directory with that path is left out.)      *)
Misdirected == \E s \in {"IO", "NOTDIR"} : Send(s)

(* READDIR's pass over what is left: it stops at the first entry that is   *)
(* too long for what is left of the page.                                  *)
Fill(r) ==
    LET sz[i \in 0..Len(r.todo)] ==
            IF i = 0 THEN 116 ELSE sz[i - 1] + 20 + byteLength(r.todo[i])
        fits == Cardinality({i \in 1..Len(r.todo) : sz[i] <= r.room.count})
    IN  [r EXCEPT !.out = [i \in 1..fits |-> Entry(r.todo[i], r.cook + i - 1)],
                  !.cook = @ + fits, !.eof = fits = Len(r.todo)]

(* readdir: one pass over the names that readdir(3) returned. *)
readdir ==
    /\ rq.pc = "readdir"
    /\ \/ at # rq.path /\ Misdirected
       \/ at = rq.path /\ ~Verified(rq) /\ Send("BAD_COOKIE")
       \/ /\ at = rq.path /\ Verified(rq)
          /\ rq' = [Fill(Skip([rq EXCEPT !.todo = Sorted, !.read = TRUE]))
                        EXCEPT !.pc = "stat", !.todo = <<>>]
       \/ SendR(Disturbed(rq), "IO")
    /\ ServerOnly

(* The directory's attributes: a failing stat is only logged. *)
stat == rq.pc = "stat" /\ Send("OK") /\ ServerOnly

-----------------------------------------------------------------------------
(* READDIRPLUS: process_entry on ".", on "..", and then on each name.      *)

(* When all names are done: on to readdir(3), or the reply. *)
NextStage(r) ==
    CASE ~r.read -> rq' = [r EXCEPT !.pc = "plus_readdir"]
      [] r.read /\ r.err -> SendR(r, "IO")
      [] OTHER -> rq' = [r EXCEPT !.pc = "stat"]

(* process_entry, up to its lstat; an entry that is not to be listed goes  *)
(* on to the next one at once, and after a full page or an error the rest  *)
(* is passed over.                                                         *)
process_entry(r0) ==
    LET r == Skip(r0)
        sz    == r.sz + 20 + byteLength(Head(r.todo))
        totsz == r.totsz + 28 + byteLength(Head(r.todo)) + 84 + 64
        full  == [r EXCEPT !.todo = <<>>, !.eof = FALSE]
    IN  IF r.todo = <<>> \/ ~r.eof \/ r.err
        THEN NextStage([r EXCEPT !.todo = <<>>])
        ELSE IF sz > r.room.dircount THEN NextStage(full)
        ELSE IF totsz > r.room.maxcount THEN NextStage([full EXCEPT !.sz = sz])
        ELSE rq' = [r EXCEPT !.pc = "plus_lstat", !.sz = sz, !.totsz = totsz]

(* Is the name that is being processed still there? *)
Found == LET f == Head(rq.todo)
         IN  IF f = 0 THEN TRUE ELSE at = rq.path /\ (f = -1 \/ f \in dir)
(* One that fails costs the page: the rest is passed over.                 *)
Failed(r) == process_entry([r EXCEPT !.err = TRUE, !.todo = Tail(@)])

plus_lstat ==
    /\ rq.pc = "plus_lstat"
    /\ \/ Found /\ rq' = [rq EXCEPT !.pc = "plus_lookup"]
       \/ ~Found /\ Failed(rq)
       \/ Failed(Disturbed(rq))
    /\ ServerOnly

(* fhdb.lookup, which asks the file system only if it has no handle yet;   *)
(* its get, its lstat or its batch may fail.                               *)
plus_lookup ==
    /\ rq.pc = "plus_lookup"
    /\ \/ process_entry(AddEntry(rq))
       \/ ~Found /\ Failed(rq)
       \/ Failed(Disturbed(rq))
    /\ ServerOnly

plus_readdir ==
    /\ rq.pc = "plus_readdir"
    /\ \/ at # rq.path /\ Misdirected
       \/ at = rq.path /\ process_entry([rq EXCEPT !.todo = Sorted, !.read = TRUE])
       \/ SendR(Disturbed(rq), "IO")
    /\ ServerOnly

(* READDIRPLUS looks at the verifier before any access to the directory.   *)
readdirplus(r) == IF Verified(r) THEN process_entry([r EXCEPT !.todo = Dots])
                                 ELSE SendR(r, "BAD_COOKIE")

(* Both chains begin with a get of the handle's path. *)
fhandle_to_filename ==
    /\ rq.pc = "fhandle"
    /\ \/ LET r == [rq EXCEPT !.path = known, !.calm = @ /\ known = at]
          IN  \/ r.proc = "READDIR" /\ rq' = [r EXCEPT !.pc = "readdir"]
              \/ r.proc = "READDIRPLUS" /\ readdirplus(r)
       \/ SendR(Disturbed(rq), "BADHANDLE")
    /\ ServerOnly

Server == \/ fhandle_to_filename \/ readdir \/ stat
          \/ plus_lstat \/ plus_lookup \/ plus_readdir

-----------------------------------------------------------------------------
(* The client: it goes on from the last cookie until eof or an error.      *)

NoChange == [added |-> 0, removed |-> 0, moved |-> 0, toPlain |-> 0, toPlus |-> 0]
Unlisted == [on |-> FALSE, cookie |-> 0, verf |-> 0, last |-> "none",
             room |-> Idle.room, status |-> "none"]

StartListing(room) ==
    /\ ~ls.on
    /\ ls' = [Unlisted EXCEPT !.on = TRUE, !.room = room]
    /\ seen' = {} /\ twice' = {} /\ stay' = dir /\ changes' = NoChange /\ from' = {}
    /\ UNCHANGED <<dir, place, rq>>

Ask(proc) ==
    /\ ls.on /\ rq.pc = "idle"
    /\ proc # ls.last => changes.toPlain + changes.toPlus < MaxChanges.switched
    /\ rq' = [Idle EXCEPT !.pc = "fhandle", !.proc = proc, !.room = ls.room,
                          !.cookie = ls.cookie, !.verf = ls.verf]
    /\ ls' = [ls EXCEPT !.last = proc]
    /\ changes' = [changes EXCEPT
            !.toPlain = @ + IF ls.last = "READDIRPLUS" /\ proc = "READDIR" THEN 1 ELSE 0,
            !.toPlus  = @ + IF ls.last = "READDIR" /\ proc = "READDIRPLUS" THEN 1 ELSE 0]
    /\ UNCHANGED <<dir, place, seen, twice, stay, from>>

Receive ==
    /\ rq.pc = "sent"
    /\ IF rq.status = "OK"
       THEN LET listed == {e.name : e \in ToSet(rq.out)}
            IN  /\ ls' = [ls EXCEPT !.on = ~rq.eof, !.verf = hash(rq.path),
                                    !.cookie = IF rq.out = <<>> THEN @
                                               ELSE Last(rq.out).cookie,
                                    !.status = IF rq.eof THEN "done" ELSE @]
                /\ seen' = seen \cup listed
                /\ twice' = twice \cup (seen \cap listed)
                /\ from' = from \cup {rq.path}
       ELSE /\ ls' = [ls EXCEPT !.on = FALSE, !.status = rq.status]
            /\ UNCHANGED <<seen, twice, from>>
    /\ rq' = Idle
    /\ UNCHANGED <<dir, place, stay, changes>>

(* The reply is lost, and the client asks again. *)
Resend ==
    /\ rq.pc = "sent"
    /\ rq' = [Idle EXCEPT !.pc = "fhandle", !.proc = rq.proc, !.room = rq.room,
                          !.cookie = rq.cookie, !.verf = rq.verf]
    /\ UNCHANGED <<dir, place, ls, history>>

(* Other requests. *)
Count(what) == ls.on => changes[what] < MaxChanges[what]
Counted(what) == changes' = IF ls.on THEN [changes EXCEPT ![what] = @ + 1] ELSE changes
Disturb == rq' = Disturbed(rq)

Create(n) ==
    /\ n \notin dir /\ Count("added") /\ Counted("added")
    /\ dir' = dir \cup {n}
    /\ UNCHANGED <<place, rq, ls, seen, twice, stay, from>>
Unlink(n) ==
    /\ n \in dir /\ Count("removed") /\ Counted("removed") /\ Disturb
    /\ dir' = dir \ {n} /\ stay' = stay \ {n}
    /\ UNCHANGED <<place, ls, seen, twice, from>>

(* RENAME of the directory: fs.rename, and fhdb.mv in its callback, which  *)
(* moves the handle that the old path has by then.  Between the two other  *)
(* requests are served; the mv may fail, or find that the handle has been  *)
(* moved already, or the server may restart before it, and a rename made   *)
(* on the server itself has none.                                          *)
Rename(p) ==
    /\ p # at /\ Cardinality(mvs) < MaxChanges.underway /\ Disturb
    /\ at' = p /\ mvs' = mvs \cup {<<at, p>>}
    /\ UNCHANGED <<dir, known, ls, history>>
Mv(m) ==
    /\ m \in mvs /\ known = m[1] /\ Count("moved") /\ Counted("moved")
    /\ known' = m[2]
    /\ mvs' = mvs \ {m}
    /\ UNCHANGED <<dir, at, rq, ls, seen, twice, stay, from>>
MvLost(m) ==
    /\ m \in mvs /\ mvs' = mvs \ {m}
    /\ UNCHANGED <<dir, at, known, rq, ls, history>>

-----------------------------------------------------------------------------

Init ==
    /\ dir \in SUBSET Names /\ at \in Paths /\ known \in Paths /\ mvs = {}
    /\ rq = Idle /\ ls = Unlisted
    /\ seen = {} /\ twice = {} /\ stay = {} /\ changes = NoChange /\ from = {}

Next ==
    \/ \E room \in Rooms : StartListing(room)
    \/ \E proc \in {"READDIR", "READDIRPLUS"} : Ask(proc)
    \/ Receive \/ Resend
    \/ Server
    \/ \E n \in Names : Create(n) \/ Unlink(n)
    \/ \E p \in Paths : Rename(p)
    \/ \E m \in mvs : Mv(m) \/ MvLost(m)

Spec == Init /\ [][Next]_lsvars

(* The server's accesses complete, the client goes on with its listing,    *)
(* and a reply that is sent again and again gets through.                  *)
FairSpec == /\ Spec
            /\ WF_lsvars(Server)
            /\ WF_lsvars(\E proc \in {"READDIR", "READDIRPLUS"} : Ask(proc))
            /\ SF_lsvars(Receive)

-----------------------------------------------------------------------------

Entries == Names \cup {-1, 0}
Cookies == 0..Cardinality(Names) + 2
Verfs   == 0..Half      \* -2^31 has no negative: 2^31 is a verifier

(* Types; a page lists no name twice, and in the order of its cookies.     *)
TypeOK ==
    /\ dir \subseteq Names /\ at \in Paths /\ known \in Paths
    /\ mvs \subseteq Paths \X Paths
    /\ rq.pc \in {"idle", "fhandle", "readdir", "stat", "plus_lstat",
                  "plus_lookup", "plus_readdir", "sent"}
    /\ rq.cookie \in Cookies /\ rq.verf \in Verfs /\ ls.verf \in Verfs
    /\ ToSet(rq.todo) \subseteq Entries
    /\ rq.pc \in {"plus_lstat", "plus_lookup"} => rq.todo # <<>>
    /\ \A i, j \in DOMAIN rq.out :
            i < j => /\ rq.out[i].name < rq.out[j].name
                     /\ rq.out[i].cookie < rq.out[j].cookie
    /\ ls.cookie \in Cookies /\ seen \subseteq Entries /\ twice \subseteq seen

(* A listing that has come to its end has missed, of the names that were   *)
(* there all along, at most one for each name removed while it went on:    *)
(* with no removal, none.  A client that goes over from READDIRPLUS to     *)
(* READDIR in the middle may miss two more, since only READDIRPLUS counts  *)
(* "." and ".." and the verifier does not tell whose the cookie is.        *)
MissesBounded ==
    ls.status = "done" =>
        Cardinality(stay \ seen) <= changes.removed + 2 * changes.toPlain

(* It lists twice at most one name for each that was added, and two more   *)
(* for each time the client goes over from READDIR to READDIRPLUS.         *)
RepeatsBounded ==
    Cardinality(twice) <= changes.added + 2 * changes.toPlus

(* The pages of one listing come from one path, though the directory is    *)
(* renamed at any time, in the file system and then in the database -      *)
(* unless the hashes of two paths are equal, or that of one is 0, the      *)
(* verifier that means "none".                                             *)
OnePath ==
    \A p, q \in from : p = q \/ hash(p) = hash(q) \/ 0 \in {hash(p), hash(q)}

(* A page is refused with a bad cookie only if the database came to have   *)
(* another path for the directory since the listing began; and but for an  *)
(* access that fails by itself, with another error only if something was   *)
(* removed or the directory renamed while the page was being made - the    *)
(* one name that has gone costs the whole page - or if the database has    *)
(* not the directory's path, as a rename is under way or was left undone.  *)
ErrorsHaveCause ==
    /\ rq.status = "BAD_COOKIE" => changes.moved > 0
    /\ rq.status \in {"IO", "NOTDIR", "BADHANDLE"} => ~rq.calm

(* A listing comes to its end, if a page has room for the longest name and *)
(* the directory does not change for ever.                                 *)
RoomFor(room, f) == /\ room.count >= 116 + 20 + byteLength(f)
                    /\ room.dircount >= 20 + byteLength(f)
                    /\ room.maxcount >= 116 + 28 + byteLength(f) + 84 + 64
Roomy(room) == \A f \in Entries : RoomFor(room, f)
ListingEnds == (ls.on /\ Roomy(ls.room)) ~> ~ls.on
=============================================================================
