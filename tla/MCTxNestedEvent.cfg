SPECIFICATION Spec
CONSTANTS
  Dialect = "pgsql"
  MaxDepth = 2
  MaxWrites = 2
  MaxCalls = 2
  Attempts = 1
  NestedTimeouts = FALSE
  SwallowDeadlock = FALSE
  Deadlocks = FALSE
  HandlerResults = {"none"}
  MaxManual = 0
  MaxOpen = 0
CHECK_DEADLOCK FALSE
INVARIANT AfterCommitIsDurable
