SPECIFICATION Spec
CONSTANTS
  Dialect = "mysql"
  MaxDepth = 1
  MaxWrites = 3
  MaxCalls = 3
  Attempts = 2
  NestedTimeouts = FALSE
  SwallowDeadlock = FALSE
  Deadlocks = TRUE
  HandlerResults = {"none", "plain"}
  MaxManual = 2
  MaxOpen = 1
CHECK_DEADLOCK FALSE
INVARIANTS SavepointRollsBack AfterCommitIsDurable
