SPECIFICATION FairSpec
CONSTANTS
    Calls = {c1, c2}
    Objects = {o1}
    None = None
    Configurations <- MCGrowing
PROPERTY EveryRequestAnswered
