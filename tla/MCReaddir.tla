----------------------------- MODULE MCReaddir ------------------------------
(* A TLC instance of Readdir with 8-bit integers in hash: of its two paths *)
(* one has the hash -2^7 before the sign is dropped.                       *)
EXTENDS Readdir

MCPaths == {<<1>>, <<128>>}

(* One or two entries to a page; and a page too small for a long name.     *)
One   == [count |-> 116 + 32, dircount |-> 64, maxcount |-> 116 + 188]
Two   == [count |-> 116 + 64, dircount |-> 60, maxcount |-> 116 + 376]
Small == [count |-> 116 + 28, dircount |-> 28, maxcount |-> 1000]
MCMaxChanges == [added |-> 1, removed |-> 1, moved |-> 1, switched |-> 1,
                 underway |-> 1]
MCRooms == {One, Two, Small}
=============================================================================
