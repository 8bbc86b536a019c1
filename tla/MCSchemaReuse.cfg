CONSTANTS
  Procs = {p1}
  Versions <- Reuse
  Stored <- SqliteKinds
SPECIFICATION Spec
INVARIANTS Applied
