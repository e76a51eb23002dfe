SPECIFICATION Spec
CONSTANTS
    Calls = {c1, c2}
    Paths = {p1, p2, p3}
    Handles = {h1, h2, h3}
    None = None
    Renames = TRUE
    Overlap = "disjoint"
    Faults = {"write"}
SYMMETRY MCSymmetry
PROPERTY ImplementsTable
