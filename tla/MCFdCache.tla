----------------------------- MODULE MCFdCache ------------------------------
(* TLC instances of FdCache: the configurations that the server of a run   *)
(* may start with; slots and objects are model values that no action tells *)
(* apart.                                                                  *)
EXTENDS FdCache

(* A cache of one, two descriptors, and everything goes wrong. *)
Tight == [max |-> 1, limit |-> 2, sharing |-> TRUE, expiry |-> TRUE,
          lapse |-> TRUE, resizes |-> {}, failing |-> TRUE,
          bytes |-> 1]
Growing == [Tight EXCEPT !.resizes = {"grow"}]
(* Room for every file; each has one user at a time and may shrink. *)
Apart == [max |-> 2, limit |-> 3, sharing |-> FALSE, expiry |-> FALSE,
          lapse |-> FALSE, resizes |-> {"shrink"}, failing |-> FALSE,
          bytes |-> 2]
(* Room for every file, which its users share. *)
Shared == [Apart EXCEPT !.sharing = TRUE, !.resizes = {},
                           !.bytes = 1]

MCTightOrApart == {Tight, Apart}
MCGrowing == {Growing}
MCShared == {Shared}

MCSymmetry == Permutations(Calls) \cup Permutations(Objects)
=============================================================================
