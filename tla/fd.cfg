SPECIFICATION Spec
CONSTANTS
    Calls = {c1, c2}
    Objects = {o1, o2}
    None = None
    Configurations <- MCTightOrApart
SYMMETRY MCSymmetry
INVARIANTS TypeOK FdOwned CacheBounded FdSafe EofTruthful
