---------------------------- MODULE HandleTable ----------------------------
(***************************************************************************)
(* What the file handle database promises to callers whose files differ:   *)
(* lookup, mv and del as single steps on a table of handles.  A path has   *)
(* at most one current handle; the handle of a path that is moved moves    *)
(* with it in the same step; a handle that is dropped is never used again. *)
(***************************************************************************)
CONSTANTS Paths, Handles, None

VARIABLES
    tab,        \* tab[p]: the current handle of path p
    nam,        \* nam[h]: the path that handle h stands for
    retired     \* the handles that have been dropped

tabvars == <<tab, nam, retired>>

Unused(h) == nam[h] = None /\ h \notin retired

Assign(p, h) == /\ tab' = [tab EXCEPT ![p] = h]
                /\ nam' = [nam EXCEPT ![h] = p]
                /\ UNCHANGED retired

(* lookup: only a path without a handle is given a new one. *)
Issue(p, h) == tab[p] = None /\ Unused(h) /\ Assign(p, h)

(* mv: the handle of p becomes the handle of q, and p has none; q's own    *)
(* former handle is not dropped, it goes on standing for q.                *)
Move(p, q) ==
    /\ tab[p] # None
    /\ tab' = [tab EXCEPT ![q] = tab[p], ![p] = None]
    /\ nam' = [nam EXCEPT ![tab[p]] = q]
    /\ UNCHANGED retired

(* mv of a path without a handle: the new name gets a new one. *)
MoveUnknown(p, q, h) == tab[p] = None /\ Unused(h) /\ Assign(q, h)

(* del: both directions go in the same step. *)
Drop(p) ==
    /\ tab[p] # None
    /\ tab' = [tab EXCEPT ![p] = None]
    /\ nam' = [nam EXCEPT ![tab[p]] = None]
    /\ retired' = retired \cup {tab[p]}

TabInit == /\ tab = [p \in Paths |-> None]
           /\ nam = [h \in Handles |-> None]
           /\ retired = {}

TabNext ==
    \E p \in Paths :
        \/ \E h \in Handles : Issue(p, h)
        \/ \E q \in Paths : Move(p, q)
        \/ \E q \in Paths, h \in Handles : MoveUnknown(p, q, h)
        \/ Drop(p)

TabSpec == TabInit /\ [][TabNext]_tabvars
=============================================================================
