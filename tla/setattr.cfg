SPECIFICATION FairSpec
CONSTANTS
    Calls = {c1, c2}
    Requests <- MCRequests
    None = None
    Milli = 2
    Second = 4
    StatUnit = 4
    Start = 5
    MaxTime = 6
    OwnersApart = TRUE
INVARIANTS TypeOK ReplyExact OwnerKept
PROPERTY AnsweredUnlessEnded
