SPECIFICATION Spec
CONSTANTS
    Databases <- DelayDbs
    BufLens = {2}
    Replies = {"Continue", "Terminate"}
    U64 = 16
    MaxCells = 0
INVARIANTS
    TerminateStops
