SPECIFICATION Spec
CONSTANTS
    a = a
    b = b
    Todos = {a, b}
    TextTodos = {b}
    Proposals <- MCProposals
    MaxReflections = 2
    MaxToolTurns = 2
    MaxAgentTurns = 3
    MaxStops = 2
    MaxRuns = 1
    Engines <- MCNativeOnly
    MaxLost = 0
INVARIANT FailuresAreNotSuccess
CHECK_DEADLOCK FALSE
