SPECIFICATION FairSpec
CONSTANTS
    a = a
    b = b
    Todos = {a, b}
    TextTodos = {b}
    Proposals <- MCProposals
    MaxReflections = 2
    MaxToolTurns = 2
    MaxAgentTurns = 3
    MaxStops = 2
    MaxRuns = 2
    Engines <- MCEngines
    MaxLost = 1
INVARIANTS
    OrderedExecution
    SuccessIsEvidenced
    ClosedTruthfully
    HighRiskIsConfirmed
PROPERTIES
    BudgetsOnlyGrow
    
    RunEnds
    EveryStepDescends
CHECK_DEADLOCK FALSE
