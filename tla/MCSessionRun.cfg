SPECIFICATION FairSpec
CONSTANTS
    r1 = r1
    r2 = r2
    r3 = r3
    Runs = {r1, r2}
    MaxAttempts = 2
    MaxCrashes = 2
    EventSets = {{"another", "interrupt", "earlyInterrupt", "slowUpdate", "dbErrors", "delete"},
                 {"crash", "dbLost", "interrupt", "dbErrors"},
                 {"shutdown", "stall", "postFails", "emitFails"},
                 {"crash", "postFails", "emitFails", "slowUpdate", "terminate"},
                 {"terminate", "earlyInterrupt", "delete", "stall", "slowUpdate", "overlap"}}
INVARIANTS
    OneRunAtATime
    NeverRerun
    NoStrayHold
    OnlyRetriesWorkUnbilled
    OnlyMishapsStrand
PROPERTIES
    CheckpointsAdvance
    RowIsFreed
CHECK_DEADLOCK FALSE
