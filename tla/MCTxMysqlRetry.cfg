SPECIFICATION Spec
CONSTANTS
  Dialect = "mysql"
  MaxDepth = 2
  MaxWrites = 2
  MaxCalls = 2
  Attempts = 2
  NestedTimeouts = FALSE
  SwallowDeadlock = FALSE
  Deadlocks = TRUE
  HandlerResults = {"none"}
  MaxManual = 0
  MaxOpen = 0
CHECK_DEADLOCK FALSE
INVARIANT FnErrorRollsBack
