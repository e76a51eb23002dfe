SPECIFICATION Spec
CONSTANTS
    Calls = {c1, c2}
    Handles = {h1, h2, h3}
    Names = {a, b}
    MaxDepth = 1
    Inodes = {1, 2, 3}
    None = None
    Procs = {"MNT", "CREATE", "REMOVE", "RENAME"}
    Hows = {"EXCLUSIVE", "UNCHECKED"}
    Overlap = "disjoint"
    Faults = {"write", "cleanup", "crash"}
SYMMETRY MCSymmetry
INVARIANTS TypeOK HandleStaysGood DroppedHandleDies UsesDBApart
PROPERTIES ReplyTellsTruth ExclusiveMakes
