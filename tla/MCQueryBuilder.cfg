SPECIFICATION Spec
CONSTANTS
    Branching = FALSE
    MaxCalls = 5
    MaxRuns = 2
CHECK_DEADLOCK FALSE
INVARIANT QueriesIndependent
INVARIANT RunAsAsked
