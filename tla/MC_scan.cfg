SPECIFICATION FairSpec
CONSTANTS
    Databases <- ScanDbs
    BufLens = {3}
    Replies = {"Continue", "Terminate"}
    U64 = 16
    MaxCells = 4
INVARIANTS
    TypeOK
    SlotsAhead
    MatchesInOrder
    DedupedOnce
    TerminateWindsDown
    FollowsSwitch
    HandledOnce
    ExclusiveOnce
    IncludedOnce
    ValidNeverErrs
PROPERTIES
    QueueSpec
    ErrStopsMatches
    EngineSpec
    ScanEnds
