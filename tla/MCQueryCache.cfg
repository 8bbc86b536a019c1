SPECIFICATION FairSpec
CONSTANTS
  Readers = {r1, r2}
  Keys = {k1}
  Tags = {t1}
  Replicas = {s1}
  TTL = 2
  MaxVersion = 1
  None = None
INVARIANT IndexExact
INVARIANT CachedIsCommitted
INVARIANT InvalidationHolds
INVARIANT TxSeesItself
PROPERTY EventuallyFresh
