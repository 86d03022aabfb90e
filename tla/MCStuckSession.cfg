SPECIFICATION Spec
CONSTANTS
    r1 = r1
    r2 = r2
    r3 = r3
    Runs = {r1}
    MaxAttempts = 1
    MaxCrashes = 0
    EventSets = {{"earlyInterrupt"}}
INVARIANTS
    RunningRowHasRunner
CHECK_DEADLOCK FALSE
