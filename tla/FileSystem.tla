----------------------------- MODULE FileSystem -----------------------------
(***************************************************************************)
(* The file system under the server, as the handlers see it through node's *)
(* fs module: a tree of names over inodes.  Every call is one step.  What  *)
(* is kept is what exists where; modes, owners, times and contents are     *)
(* not.  Symbolic links dangle: their targets lie in no existing           *)
(* directory, so a call that follows one fails with ENOENT.                *)
(***************************************************************************)
EXTENDS SequencesExt

CONSTANTS
    Names,      \* the names a directory may contain
    MaxDepth,   \* bound: the length of the longest path
    Inodes,     \* 1..n; bound: a device with n inodes, numbers never reused
    None

ASSUME FileSystemAssumption ==
    /\ MaxDepth \in Nat /\ Inodes \subseteq Nat /\ 1 \in Inodes
    /\ None \notin Names /\ None \notin Inodes
    /\ None \notin {"file", "dir", "symlink"}
    /\ None \notin SeqOf(Names, MaxDepth + 1)

Paths == SeqOf(Names, MaxDepth)
Root  == <<>>

VARIABLES
    tree,       \* tree[p]: the inode at path p
    kind        \* kind[i]: "file", "dir", "symlink", or None while unused

fsvars == <<tree, kind>>

TreeInit ==
    /\ tree = [p \in Paths |-> IF p = Root THEN 1 ELSE None]
    /\ kind = [i \in Inodes |-> IF i = 1 THEN "dir" ELSE None]

TreeTypeOK == /\ tree \in [Paths -> Inodes \cup {None}]
              /\ kind \in [Inodes -> {"file", "dir", "symlink", None}]

(* A path longer than the bound is ENAMETOOLONG to every call. *)
Exists(p)    == p \in Paths /\ tree[p] # None
Is(p, k)     == Exists(p) /\ kind[tree[p]] = k
StatOk(p)    == Exists(p) /\ ~Is(p, "symlink")
Missing(p)   ==       \* ENOENT, not ENOTDIR or ENAMETOOLONG
    /\ p \in Paths /\ ~Exists(p)
    /\ \A s \in Paths : IsStrictPrefix(s, p) => ~Is(s, "file")
Empty(p)     == \A s \in Paths : IsStrictPrefix(p, s) => ~Exists(s)
HasParent(p) == p \in Paths \ {Root} /\ Is(Front(p), "dir")

(* A new name for a new inode, in an existing directory. *)
InodeLeft == \E i \in Inodes : kind[i] = None
NewInode  == CHOOSE i \in Inodes :
                 kind[i] = None /\ \A j \in Inodes : kind[j] = None => i <= j

MakeOk(p) == HasParent(p) /\ ~Exists(p) /\ InodeLeft
Make(p, k) == /\ tree' = [tree EXCEPT ![p] = NewInode]
              /\ kind' = [kind EXCEPT ![NewInode] = k]

(* open(2) with flag 'w' takes an existing file as it is. *)
OpenWOk(p) == Is(p, "file") \/ MakeOk(p)
OpenW(p)   == IF Is(p, "file") THEN UNCHANGED fsvars ELSE Make(p, "file")

LinkOk(p, q) == Exists(p) /\ ~Is(p, "dir") /\ HasParent(q) /\ ~Exists(q)
Link(p, q)   == tree' = [tree EXCEPT ![q] = tree[p]] /\ UNCHANGED kind

UnlinkOk(p) == Exists(p) /\ ~Is(p, "dir")
RmdirOk(p)  == Is(p, "dir") /\ Empty(p)
Drop(p)     == tree' = [tree EXCEPT ![p] = None] /\ UNCHANGED kind

(* rename(2): a directory replaces only an empty directory and is not      *)
(* moved below itself; two names of one inode are left as they are.        *)
Below(p, s) == SubSeq(s, Len(p) + 1, Len(s))
RenameOk(p, q) ==
    /\ Exists(p) /\ HasParent(q) /\ ~IsStrictPrefix(p, q)
    /\ Exists(q) => /\ Is(p, "dir") <=> Is(q, "dir")
                    /\ p # q /\ Is(q, "dir") => Empty(q)
    /\ \A s \in Paths :
        IsPrefix(p, s) /\ Exists(s) => q \o Below(p, s) \in Paths
Rename(p, q) ==
    /\ tree' = IF tree[p] = tree[q] THEN tree
               ELSE [s \in Paths |->
                        IF IsPrefix(q, s)
                        THEN LET o == p \o Below(q, s)
                             IN  IF o \in Paths THEN tree[o] ELSE None
                        ELSE IF IsPrefix(p, s) THEN None ELSE tree[s]]
    /\ UNCHANGED kind
=============================================================================
