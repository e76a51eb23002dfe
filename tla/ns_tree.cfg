SPECIFICATION Spec
CONSTANTS
    Calls = {c1}
    Handles = {h1, h2, h3, h4}
    Names = {a, b}
    MaxDepth = 2
    Inodes = {1, 2, 3}
    None = None
    Procs = {"MNT", "CREATE", "MKDIR", "RMDIR", "RENAME", "LINK"}
    Hows = {"UNCHECKED"}
    Overlap = "disjoint"
    Faults = {}
SYMMETRY MCSymmetry
INVARIANTS HandleStaysGood DroppedHandleDies
