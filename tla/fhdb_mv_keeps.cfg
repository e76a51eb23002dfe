SPECIFICATION Spec
CONSTANTS
    Calls = {c1}
    Paths = {p1, p2}
    Handles = {h1, h2, h3}
    None = None
    Renames = TRUE
    Overlap = "disjoint"
    Faults = {}
PROPERTY NewFileKeepsHandle
