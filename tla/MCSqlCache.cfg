SPECIFICATION Spec
CONSTANTS
  Dialects = {"pgsql", "mysql", "sqlite"}
  Dialect <- MCDialect
  Cached <- MCCached
  Compiling <- MCCompiling
  MaxSize = 2
  RawHoles = {"mysql", "sqlite"}
  Escaped = FALSE
INVARIANT ValuesInPlace
INVARIANT TextIsCompiled
CHECK_DEADLOCK FALSE
