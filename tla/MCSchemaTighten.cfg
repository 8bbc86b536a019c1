CONSTANTS
  Procs = {p1}
  Versions <- Tighten
  Stored <- SqliteKinds
SPECIFICATION Spec
INVARIANTS Applied Repeatable
