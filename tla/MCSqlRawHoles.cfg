SPECIFICATION Spec
CONSTANTS
  Dialects = {"pgsql"}
  Dialect <- MCDialect
  Cached = {}
  Compiling <- MCCompiling
  MaxSize = 2
  RawHoles = {"pgsql"}
  Escaped = FALSE
INVARIANT ValuesInPlace
CHECK_DEADLOCK FALSE
