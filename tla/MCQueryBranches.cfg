SPECIFICATION Spec
CONSTANTS
    Branching = TRUE
    MaxCalls = 6
    MaxRuns = 0
CHECK_DEADLOCK FALSE
INVARIANT QueriesIndependent
