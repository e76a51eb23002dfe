------------------------------- MODULE MCFHDB -------------------------------
(* TLC instances of FHDB: paths, handles and call slots are model values   *)
(* and the actions treat all of them alike, so they may be permuted.       *)
EXTENDS FHDB, TLC

MCSymmetry ==
    Permutations(Calls) \cup Permutations(Paths) \cup Permutations(Handles)
=============================================================================
