SPECIFICATION FairSpec
CONSTANTS
    Calls = {c1, c2}
    Handles = {h1, h2}
    Names = {a}
    MaxDepth = 1
    Inodes = {1, 2}
    None = None
    Procs = {"MNT", "LOOKUP", "CREATE", "MKDIR", "RMDIR", "REMOVE", "RENAME", "LINK", "SYMLINK"}
    Hows = {"UNCHECKED", "GUARDED", "EXCLUSIVE"}
    Overlap = "any"
    Faults = {"get", "write", "cleanup", "fs", "crash"}
PROPERTY EveryRequestAnswered
