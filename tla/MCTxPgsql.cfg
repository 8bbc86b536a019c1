SPECIFICATION FairSpec
CONSTANTS
  Dialect = "pgsql"
  MaxDepth = 3
  MaxWrites = 2
  MaxCalls = 3
  Attempts = 2
  NestedTimeouts = FALSE
  SwallowDeadlock = TRUE
  Deadlocks = TRUE
  HandlerResults = {"none", "plain"}
  MaxManual = 0
  MaxOpen = 0
CHECK_DEADLOCK FALSE
INVARIANTS FnErrorRollsBack RetryStartsClean NilMeansCommitted NoTxLeak
PROPERTIES ImplementsNestedTx ConnectionReleased CallReturns
