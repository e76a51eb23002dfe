--------------------------- MODULE FHDBRefinement ---------------------------
(***************************************************************************)
(* The database implements HandleTable for callers whose calls in flight   *)
(* have no path in common, as long as nothing fails between the two        *)
(* batches of an mv.  A lookup, an mv or a del takes effect at its (first) *)
(* batch: an old path that only waits for its cleanup has no handle any    *)
(* more as far as its callers can tell.                                    *)
(***************************************************************************)
EXTENDS FHDB

TableOf == [p \in Paths |-> IF AwaitsCleanup(p, fh[p]) THEN None ELSE fh[p]]

Table == INSTANCE HandleTable WITH tab <- TableOf, nam <- fn

(* Calls on different files take effect one at a time and as a whole. *)
ImplementsTable == Table!TabSpec
=============================================================================
