SPECIFICATION FairSpec
CONSTANTS
    Names = {1, 2, 3}
    Long = {2}
    Paths <- MCPaths
    Half = 128
    Rooms <- MCRooms
    MaxChanges <- MCMaxChanges
INVARIANTS TypeOK MissesBounded RepeatsBounded OnePath ErrorsHaveCause
PROPERTY ListingEnds
