SPECIFICATION Spec
CONSTANTS
  Dialect = "pgsql"
  MaxDepth = 1
  MaxWrites = 2
  MaxCalls = 2
  Attempts = 2
  NestedTimeouts = FALSE
  SwallowDeadlock = FALSE
  Deadlocks = FALSE
  HandlerResults = {"none","deadlock"}
  MaxManual = 0
  MaxOpen = 0
CHECK_DEADLOCK FALSE
INVARIANT RetryStartsClean
