---------------------------- MODULE MCNamespace -----------------------------
(* TLC instances of Namespace: handles, names and slots are model values   *)
(* that no action tells apart.                                             *)
EXTENDS Namespace

MCSymmetry ==
    Permutations(Calls) \cup Permutations(Names) \cup Permutations(Handles)
=============================================================================
