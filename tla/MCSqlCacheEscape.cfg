SPECIFICATION Spec
CONSTANTS
  Dialects = {"pgsql", "mysql", "sqlite"}
  Dialect <- MCDialect
  Cached <- MCCached
  Compiling <- MCCompiling
  MaxSize = 2
  RawHoles = {"mysql", "sqlite"}
  Escaped = TRUE
INVARIANT TextIsCompiled
CHECK_DEADLOCK FALSE
