SPECIFICATION Spec
CONSTANTS
  Dialect = "sqlite"
  MaxDepth = 2
  MaxWrites = 2
  MaxCalls = 2
  Attempts = 1
  NestedTimeouts = TRUE
  SwallowDeadlock = FALSE
  Deadlocks = FALSE
  HandlerResults = {"none"}
  MaxManual = 0
  MaxOpen = 0
CHECK_DEADLOCK FALSE
INVARIANT FnErrorRollsBack
