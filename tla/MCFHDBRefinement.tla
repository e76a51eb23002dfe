-------------------------- MODULE MCFHDBRefinement --------------------------
(* TLC instance of FHDBRefinement. *)
EXTENDS FHDBRefinement, TLC

MCSymmetry ==
    Permutations(Calls) \cup Permutations(Paths) \cup Permutations(Handles)
=============================================================================
