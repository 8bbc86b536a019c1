SPECIFICATION Spec
CONSTANTS
  Dialect = "pgsql"
  MaxDepth = 1
  MaxWrites = 3
  MaxCalls = 2
  Attempts = 1
  NestedTimeouts = FALSE
  SwallowDeadlock = FALSE
  Deadlocks = FALSE
  HandlerResults = {"none"}
  MaxManual = 2
  MaxOpen = 2
CHECK_DEADLOCK FALSE
INVARIANT SavepointRollsBack
