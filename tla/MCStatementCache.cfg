SPECIFICATION FairSpec
CONSTANTS
  Workers = {w1, w2}
  Queries = {q1, q2, q3}
  Stmts = {s1, s2, s3}
  MaxSize = 2
  NoStmt = NoStmt
  NoWorker = NoWorker
INVARIANTS TypeOK RefsCountHolders OrderMatchesItems ClosedOnce NoLeak
PROPERTIES InFlightClosedOnlyByClose EvictedIsClosed AcquireCompletes
