SPECIFICATION FairSpec
CONSTANTS
    r1 = r1
    r2 = r2
    Runs = {r1, r2}
    Script <- MCScript
    NoRun = NoRun
    HistoryLimit = 2
    PageLimit = 2
    PollLimit = 1
    ChunkSize = 1
    MaxPolls = 1
    MaxMounts = 2
    MaxFaults = 1
    LateStart = FALSE
INVARIANTS
    
    GapsAreExplained
    
PROPERTIES
    CursorCatchesUp
CHECK_DEADLOCK FALSE
