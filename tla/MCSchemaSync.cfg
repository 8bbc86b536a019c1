CONSTANTS
  Procs = {p1, p2}
  Versions <- Evolution
  Stored <- SqliteKinds
SPECIFICATION Spec
INVARIANTS Applied NothingLeftBehind SnapshotCurrent Repeatable
