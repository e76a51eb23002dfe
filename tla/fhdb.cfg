SPECIFICATION Spec
CONSTANTS
    Calls = {c1, c2}
    Paths = {p1, p2, p3}
    Handles = {h1, h2, h3}
    None = None
    Renames = TRUE
    Overlap = "sources"
    Faults = {"get", "write", "cleanup", "crash"}
SYMMETRY MCSymmetry
INVARIANTS TypeOK ForwardConsistent NoResurrection
PROPERTY HandleKeepsPath
