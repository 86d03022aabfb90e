SPECIFICATION Spec
CONSTANTS
    r1 = r1
    r2 = r2
    r3 = r3
    Runs = {r1, r2, r3}
    MaxAttempts = 1
    MaxCrashes = 0
    EventSets = {{"another", "interrupt", "lateCancel"}}
INVARIANTS
    OneRunAtATime
CHECK_DEADLOCK FALSE
