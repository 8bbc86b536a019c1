-------------------------- MODULE QueryCacheProofs --------------------------
(* Proofs about the query cache for any goroutines, keys, tags, lifetime and  *)
(* number of versions: the safety properties of QueryCache, from one          *)
(* inductive invariant.                                                       *)
EXTENDS QueryCache, TLAPS

USE SMTT(20), ZenonT(20)

\* What a running query q can rely on: a cached one is outside a transaction, the
\* rows it is about to store were committed and are no older than the last
\* invalidation of its key and tags, unless it lost the race or was answered by a
\* replica that lags, and a query inside the transaction has the transaction's
\* rows.
QueryOK(q) ==
  /\ q.inTx => pending # None
  /\ q.pc \in {"get", "found", "expired", "loaded"} => ~q.inTx
  /\ q.pc \in {"idle", "get", "found", "expired", "missed"} => ~q.raced
  /\ q.pc = "loaded" =>
       /\ q.rows \in published
       /\ \/ q.raced \/ (q.lagged /\ Replicas # {})
          \/ \A x \in {q.key} \cup q.tags : q.rows >= floor[x]
  /\ q.inTx /\ q.pc = "done" => q.rows = pending

\* Versions only grow: what is pending is newer than what is committed, and an
\* invalidation remembers a version that was committed by then; a replica has
\* only what was committed.
Growing ==
  /\ committed \in published /\ committed <= last
  /\ pending # None => pending >= committed /\ pending <= last
  /\ \A x \in Keys \cup Tags : floor[x] <= committed
  /\ \A s \in Replicas : applied[s] \in published

IInv ==
  /\ TypeOK /\ Growing /\ IndexExact /\ CachedIsCommitted /\ InvalidationHolds
  /\ \A r \in Readers : QueryOK(rd[r])

-----------------------------------------------------------------------------
\* The initial state satisfies the inductive invariant.
LEMMA InvInit == Init => IInv
<1> SUFFICES ASSUME Init PROVE IInv
  OBVIOUS
<1> USE QueryCacheAssumption DEF Init
<1>1. Idle \in QueryState /\ Placed(Idle) /\ QueryOK(Idle)
  BY DEF Idle, QueryState, Placed, QueryOK
<1>2. StoreTyped
  BY DEF StoreTyped
<1>3. DataTyped
  BY DEF DataTyped, Versions
<1>4. Growing
  BY DEF Growing
<1>5. IndexExact /\ CachedIsCommitted /\ InvalidationHolds
  BY DEF IndexExact, CachedIsCommitted, InvalidationHolds
<1>6. QED BY <1>1, <1>2, <1>3, <1>4, <1>5 DEF IInv, TypeOK

\* A step of one query that leaves the store and the data alone has only that
\* query to account for.
LEMMA OneQuery ==
  ASSUME IInv, NEW r \in Readers, UNCHANGED <<store, data, floor>>,
         rd' = [rd EXCEPT ![r] = rd'[r]],
         rd'[r] \in QueryState, Placed(rd'[r]), QueryOK(rd[r])'
  PROVE  IInv'
<1> USE DEF IInv, TypeOK, store, data
<1>1. StoreTyped' /\ DataTyped'
  BY DEF StoreTyped, DataTyped
<1>2. Growing'
  BY DEF Growing
<1>3. IndexExact' /\ CachedIsCommitted' /\ InvalidationHolds'
  BY DEF IndexExact, CachedIsCommitted, InvalidationHolds
<1>4. rd' \in [Readers -> QueryState]
  OBVIOUS
<1>5. ASSUME NEW v \in Readers PROVE Placed(rd'[v]) /\ QueryOK(rd[v])'
  <2>1. CASE v = r
    BY <2>1
  <2>2. CASE v # r
    <3>1. rd'[v] = rd[v]
      BY <2>2
    <3>2. QED BY <3>1 DEF QueryOK
  <2>3. QED BY <2>1, <2>2
<1>6. QED BY <1>1, <1>2, <1>3, <1>4, <1>5

\* What every query of a state that satisfies the invariant is and holds.
LEMMA OneOf ==
  ASSUME IInv, NEW r \in Readers
  PROVE  /\ rd[r] \in QueryState /\ Placed(rd[r]) /\ QueryOK(rd[r])
         /\ DOMAIN rd = Readers
BY DEF IInv, TypeOK

-----------------------------------------------------------------------------
\* A started query is outside a transaction, or bypasses the cache.
LEMMA StartStep ==
  ASSUME IInv, NEW r \in Readers, Start(r) PROVE IInv'
<1>1. PICK k \in Keys, T \in SUBSET Tags, inTx \in BOOLEAN :
        /\ inTx => pending # None
        /\ LET q == [Idle EXCEPT !.key = k, !.tags = T, !.inTx = inTx] IN
             Set(r, [q EXCEPT !.pc = IF CacheEnabled(q) THEN "get" ELSE "missed"])
  BY DEF Start
<1> DEFINE q == [Idle EXCEPT !.key = k, !.tags = T, !.inTx = inTx]
           n == [q EXCEPT !.pc = IF CacheEnabled(q) THEN "get" ELSE "missed"]
<1>2. rd' = [rd EXCEPT ![r] = n]
  BY <1>1 DEF Set
<1>3. rd'[r] = n
  BY <1>2, OneOf
<1>4. /\ n.key = k /\ n.tags = T /\ n.snap = None /\ n.rows = None /\ n.raced = FALSE
      /\ n.pc \in {"get", "missed"} /\ n.inTx = inTx
  BY DEF Idle
<1>5. n \in QueryState
  BY <1>4 DEF QueryState, Idle
<1>6. Placed(n)
  BY <1>4, QueryCacheAssumption DEF Placed
<1>7. n.pc = "get" => ~n.inTx
  BY DEF Idle, CacheEnabled
<1> HIDE DEF n
<1>8. QueryOK(rd[r])'
  BY <1>1, <1>3, <1>4, <1>7 DEF QueryOK, Start, data
<1>9. QED BY <1>2, <1>3, <1>5, <1>6, <1>8, OneQuery DEF Start

\* Get's reading of the map: it finds an entry or nothing.
LEMMA LookupStep ==
  ASSUME IInv, NEW r \in Readers, Lookup(r) PROVE IInv'
<1> DEFINE e == items[rd[r].key]
           n == [rd[r] EXCEPT !.snap = e, !.pc = IF e = None THEN "missed" ELSE "found"]
<1>0. rd[r].pc = "get" /\ rd[r] \in QueryState /\ Placed(rd[r]) /\ QueryOK(rd[r])
  BY OneOf DEF Lookup
<1>1. e \in Entry \cup {None}
  BY <1>0 DEF IInv, TypeOK, StoreTyped, QueryState, Placed
<1>2. rd' = [rd EXCEPT ![r] = n] /\ rd'[r] = n
  BY OneOf DEF Lookup, Set
<1>3. /\ n.key = rd[r].key /\ n.tags = rd[r].tags /\ n.rows = rd[r].rows
      /\ n.raced = rd[r].raced /\ n.inTx = rd[r].inTx /\ n.snap = e
      /\ n.pc = IF e = None THEN "missed" ELSE "found"
  BY <1>0 DEF QueryState
<1>4. n \in QueryState
  BY <1>0, <1>1 DEF QueryState
<1> HIDE DEF n
<1>5. Placed(n)
  BY <1>0, <1>1, <1>3 DEF Placed
<1>6. QueryOK(rd[r])'
  BY <1>0, <1>2, <1>3 DEF QueryOK, Lookup, data
<1>7. QED BY <1>2, <1>4, <1>5, <1>6, OneQuery DEF Lookup

\* Get's expiry test: an expired entry is on its way out, another one is a hit.
LEMMA CheckExpiryStep ==
  ASSUME IInv, NEW r \in Readers, CheckExpiry(r) PROVE IInv'
<1>0. /\ rd[r].pc = "found" /\ rd[r] \in QueryState /\ Placed(rd[r]) /\ QueryOK(rd[r])
      /\ UNCHANGED <<store, data, floor>>
  BY OneOf DEF CheckExpiry
<1>1. rd[r].snap.rows \in Versions
  BY <1>0 DEF QueryState, Placed, Entry
<1>2. CASE Expired(rd[r].snap)
  <2> DEFINE n == [rd[r] EXCEPT !.pc = "expired", !.snap = None]
  <2>1. rd' = [rd EXCEPT ![r] = n] /\ rd'[r] = n
    BY <1>2, OneOf DEF CheckExpiry, Set
  <2>2. n \in QueryState
    BY <1>0 DEF QueryState
  <2>3. /\ n.key = rd[r].key /\ n.rows = rd[r].rows /\ n.raced = rd[r].raced
        /\ n.inTx = rd[r].inTx /\ n.snap = None /\ n.pc = "expired"
    BY <1>0 DEF QueryState
  <2> HIDE DEF n
  <2>4. Placed(n) /\ QueryOK(rd[r])'
    BY <1>0, <2>1, <2>3 DEF Placed, QueryOK, data
  <2>5. QED BY <1>0, <2>1, <2>2, <2>4, OneQuery
<1>3. CASE ~Expired(rd[r].snap)
  <2> DEFINE n == [rd[r] EXCEPT !.pc = "done", !.rows = rd[r].snap.rows, !.snap = None]
  <2>1. rd' = [rd EXCEPT ![r] = n] /\ rd'[r] = n
    BY <1>3, OneOf DEF CheckExpiry, Set
  <2>2. n \in QueryState
    BY <1>0, <1>1 DEF QueryState
  <2>3. /\ n.key = rd[r].key /\ n.rows = rd[r].snap.rows /\ n.raced = rd[r].raced
        /\ n.inTx = rd[r].inTx /\ n.snap = None /\ n.pc = "done"
    BY <1>0 DEF QueryState
  <2> HIDE DEF n
  <2>4. Placed(n)
    BY <1>0, <1>1, <2>3, QueryCacheAssumption DEF Placed, Versions
  <2>5. QueryOK(rd[r])'
    BY <1>0, <2>1, <2>3 DEF QueryOK, data
  <2>6. QED BY <1>0, <2>1, <2>2, <2>4, <2>5, OneQuery
<1>4. QED BY <1>2, <1>3

\* What a load returns is committed, by the primary or by a replica that may lag,
\* or it is the transaction's own.
LEMMA LoadStep ==
  ASSUME IInv, NEW r \in Readers, Load(r) PROVE IInv'
<1>0. /\ rd[r].pc = "missed" /\ rd[r] \in QueryState /\ Placed(rd[r]) /\ QueryOK(rd[r])
      /\ UNCHANGED <<store, data, floor>>
  BY OneOf DEF Load
<1>1. PICK usePrimary \in BOOLEAN : \E v \in View(rd[r], usePrimary) :
        Set(r, [rd[r] EXCEPT !.pc = IF CacheEnabled(rd[r]) THEN "loaded" ELSE "done",
                             !.rows = v,
                             !.lagged = ~rd[r].inTx /\ ~usePrimary /\ v # committed])
  BY DEF Load
<1>2. PICK v \in View(rd[r], usePrimary) :
        Set(r, [rd[r] EXCEPT !.pc = IF CacheEnabled(rd[r]) THEN "loaded" ELSE "done",
                             !.rows = v,
                             !.lagged = ~rd[r].inTx /\ ~usePrimary /\ v # committed])
  BY <1>1
<1> DEFINE late == ~rd[r].inTx /\ ~usePrimary /\ v # committed
           n == [rd[r] EXCEPT !.pc = IF CacheEnabled(rd[r]) THEN "loaded" ELSE "done",
                              !.rows = v, !.lagged = late]
<1>3. /\ v \in Versions /\ (rd[r].inTx => v = pending)
      /\ ~rd[r].inTx => v \in published /\ (v = committed \/ (~usePrimary /\ Replicas # {}))
  <2>1. DataTyped /\ Growing /\ (rd[r].inTx => pending # None)
    BY <1>0 DEF IInv, TypeOK, QueryOK
  <2>2. CASE rd[r].inTx
    BY <2>1, <2>2 DEF View, DataTyped
  <2>3. CASE ~rd[r].inTx /\ (usePrimary \/ Replicas = {})
    <3>1. View(rd[r], usePrimary) = {committed}
      BY <2>3 DEF View
    <3>2. v = committed
      BY <3>1
    <3>3. v \in Versions /\ v \in published
      BY <2>1, <3>2 DEF DataTyped, Growing
    <3>4. QED BY <2>3, <3>2, <3>3, Zenon
  <2>4. CASE ~rd[r].inTx /\ ~usePrimary /\ Replicas # {}
    BY <2>1, <2>4 DEF View, DataTyped, Growing
  <2>5. QED BY <2>2, <2>3, <2>4
<1>4. rd' = [rd EXCEPT ![r] = n] /\ rd'[r] = n
  BY <1>2, OneOf DEF Set
<1>5. late \in BOOLEAN
  OBVIOUS
<1>6. late <=> ~rd[r].inTx /\ ~usePrimary /\ v # committed
  OBVIOUS
<1> HIDE DEF late
<1>7. n \in QueryState
  BY <1>0, <1>3, <1>5 DEF QueryState
<1>8. /\ n.key = rd[r].key /\ n.tags = rd[r].tags /\ n.rows = v
      /\ n.raced = rd[r].raced /\ n.inTx = rd[r].inTx /\ n.snap = rd[r].snap
      /\ n.pc = (IF rd[r].inTx THEN "done" ELSE "loaded") /\ n.lagged = late
  BY <1>0 DEF QueryState, CacheEnabled
<1> HIDE DEF n
<1>9. Placed(n)
  BY <1>0, <1>3, <1>8, QueryCacheAssumption DEF Placed, Versions
<1>10. n.pc = "loaded" =>
         /\ n.rows \in published
         /\ \/ n.lagged /\ Replicas # {}
            \/ \A x \in {n.key} \cup n.tags : n.rows >= floor[x]
  <2> SUFFICES ASSUME n.pc = "loaded", ~(n.lagged /\ Replicas # {})
               PROVE  /\ n.rows \in published
                      /\ \A x \in {n.key} \cup n.tags : n.rows >= floor[x]
    BY <1>3, <1>8
  <2>1. n.rows = committed
    BY <1>3, <1>6, <1>8
  <2>2. {n.key} \cup n.tags \subseteq Keys \cup Tags
    BY <1>0, <1>8 DEF QueryState, Placed
  <2>3. committed \in Int /\ \A x \in Keys \cup Tags : floor[x] \in Int
    BY QueryCacheAssumption DEF IInv, TypeOK, DataTyped, Versions
  <2>4. QED BY <2>1, <2>2, <2>3 DEF IInv, Growing
<1>11. QueryOK(rd[r])'
  <2>1. UNCHANGED <<published, floor, pending>>
    BY <1>0 DEF data
  <2>2. QED BY <1>0, <1>3, <1>4, <1>8, <1>10, <2>1 DEF QueryOK
<1>12. QED BY <1>0, <1>4, <1>7, <1>9, <1>11, OneQuery

\* A query that ends holds nothing any more.
LEMMA FinishStep ==
  ASSUME IInv, NEW r \in Readers, Finish(r) PROVE IInv'
<1>1. rd' = [rd EXCEPT ![r] = Idle] /\ rd'[r] = Idle /\ UNCHANGED <<store, data, floor>>
  BY OneOf DEF Finish, Set
<1>2. Idle \in QueryState /\ Placed(Idle)
  BY DEF Idle, QueryState, Placed
<1>3. QueryOK(rd[r])'
  BY <1>1 DEF Idle, QueryOK
<1>4. QED BY <1>1, <1>2, <1>3, OneQuery

-----------------------------------------------------------------------------
\* What forgetLocked does to the map and to the index.
LEMMA Forgotten ==
  ASSUME IInv, NEW K \in SUBSET Keys, ForgetAll(K)
  PROVE  /\ \A k \in Keys : items'[k] = IF k \in K THEN None ELSE items[k]
         /\ StoreTyped' /\ IndexExact'
<1>1. \A k \in Keys : items'[k] = IF k \in K THEN None ELSE items[k]
  BY DEF ForgetAll
<1>2. StoreTyped'
  BY DEF ForgetAll, IInv, TypeOK, StoreTyped
<1>3. IndexExact'
  <2> SUFFICES ASSUME NEW t \in Tags
               PROVE  tags'[t] = {k \in Keys : items'[k] # None /\ t \in items'[k].tags}
    BY DEF IndexExact
  <2>1. tags'[t] = {k \in tags[t] : ~(k \in K /\ items[k] # None /\ t \in items[k].tags)}
    BY DEF ForgetAll
  <2>2. tags[t] = {k \in Keys : items[k] # None /\ t \in items[k].tags}
    BY DEF IInv, IndexExact
  <2>3. QED BY <1>1, <2>1, <2>2
<1>4. QED BY <1>1, <1>2, <1>3

\* Get's removal of what is under the key by now keeps the rest as it was.
LEMMA DropExpiredStep ==
  ASSUME IInv, NEW r \in Readers, DropExpired(r) PROVE IInv'
<1> DEFINE n == [rd[r] EXCEPT !.pc = "missed"]
<1>0. /\ rd[r].pc = "expired" /\ rd[r] \in QueryState /\ Placed(rd[r]) /\ QueryOK(rd[r])
      /\ UNCHANGED <<data, floor>>
  BY OneOf DEF DropExpired
<1>1. rd[r].key \in Keys
  BY <1>0 DEF QueryState, Placed
<1>2. /\ \A k \in Keys : items'[k] = IF k = rd[r].key THEN None ELSE items[k]
      /\ StoreTyped' /\ IndexExact'
  <2>1. PICK K \in SUBSET Keys : K = {rd[r].key}
    BY <1>1
  <2>2. ForgetAll(K)
    BY <2>1 DEF DropExpired
  <2>3. QED BY <2>1, <2>2, Forgotten
<1>3. CachedIsCommitted' /\ InvalidationHolds'
  BY <1>0, <1>2 DEF IInv, CachedIsCommitted, InvalidationHolds, data
<1>4. DataTyped' /\ Growing'
  BY <1>0 DEF IInv, TypeOK, DataTyped, Growing, data
<1>5. rd' = [rd EXCEPT ![r] = n] /\ rd'[r] = n
  BY OneOf DEF DropExpired, Set
<1>6. n \in QueryState
  BY <1>0 DEF QueryState
<1>7. /\ n.key = rd[r].key /\ n.rows = rd[r].rows /\ n.raced = rd[r].raced
      /\ n.inTx = rd[r].inTx /\ n.snap = rd[r].snap /\ n.pc = "missed"
  BY <1>0 DEF QueryState
<1> HIDE DEF n
<1>8. ASSUME NEW v \in Readers PROVE Placed(rd'[v]) /\ QueryOK(rd[v])'
  <2>1. CASE v = r
    BY <1>0, <1>5, <1>7, <2>1 DEF Placed, QueryOK, data
  <2>2. CASE v # r
    <3>1. rd'[v] = rd[v]
      BY <1>5, <2>2, OneOf
    <3>2. QED BY <1>0, <3>1, OneOf DEF QueryOK, data
  <2>3. QED BY <2>1, <2>2
<1>9. rd' \in [Readers -> QueryState]
  BY <1>5, <1>6 DEF IInv, TypeOK
<1>10. QED BY <1>2, <1>3, <1>4, <1>8, <1>9 DEF IInv, TypeOK

\* Cache.Set keeps the index exact, and what it stores was loaded outside a
\* transaction.
LEMMA StoreStep ==
  ASSUME IInv, NEW r \in Readers, Store(r) PROVE IInv'
<1> DEFINE n == [rd[r] EXCEPT !.pc = "done", !.raced = FALSE, !.lagged = FALSE]
           e == [rows |-> rd[r].rows, left |-> TTL, tags |-> rd[r].tags,
                 raced |-> rd[r].raced, lagged |-> rd[r].lagged]
<1>0. /\ rd[r].pc = "loaded" /\ rd[r] \in QueryState /\ Placed(rd[r]) /\ QueryOK(rd[r])
      /\ UNCHANGED <<data, floor>>
  BY OneOf DEF Store
<1>1. rd[r].key \in Keys /\ rd[r].rows \in Versions
  BY <1>0 DEF QueryState, Placed
<1>2. e \in Entry /\ e # None
  BY <1>0, <1>1, QueryCacheAssumption DEF Entry, QueryState
<1>3. /\ items' = [items EXCEPT ![rd[r].key] = e]
      /\ tags' = [t \in Tags |-> IF t \in e.tags THEN tags[t] \cup {rd[r].key}
                                                 ELSE tags[t] \ {rd[r].key}]
  BY DEF Store, StorePut
<1>4. \A k \in Keys : items'[k] = IF k = rd[r].key THEN e ELSE items[k]
  BY <1>3 DEF IInv, TypeOK, StoreTyped
<1>5. StoreTyped'
  BY <1>1, <1>2, <1>3 DEF IInv, TypeOK, StoreTyped
<1>6. IndexExact'
  <2> HIDE DEF e
  <2> SUFFICES ASSUME NEW t \in Tags
               PROVE  tags'[t] = {k \in Keys : items'[k] # None /\ t \in items'[k].tags}
    BY DEF IndexExact
  <2>1. tags'[t] = IF t \in e.tags THEN tags[t] \cup {rd[r].key} ELSE tags[t] \ {rd[r].key}
    BY <1>3
  <2>2. tags[t] = {k \in Keys : items[k] # None /\ t \in items[k].tags}
    BY DEF IInv, IndexExact
  <2>3. QED BY <1>1, <1>2, <1>4, <2>1, <2>2
<1>7. /\ e.rows = rd[r].rows /\ e.tags = rd[r].tags /\ e.raced = rd[r].raced
      /\ e.lagged = rd[r].lagged /\ rd[r].rows \in published
      /\ \/ rd[r].raced \/ (rd[r].lagged /\ Replicas # {})
         \/ \A x \in {rd[r].key} \cup rd[r].tags : rd[r].rows >= floor[x]
  BY <1>0 DEF QueryOK
<1> HIDE DEF e
<1>8. CachedIsCommitted' /\ InvalidationHolds'
  <2>1. ASSUME NEW k \in Keys, items'[k] # None
        PROVE  /\ items'[k].rows \in published
               /\ \/ items'[k].raced \/ (items'[k].lagged /\ Replicas # {})
                  \/ \A x \in {k} \cup items'[k].tags : items'[k].rows >= floor[x]
    <3>1. CASE k = rd[r].key
      BY <1>4, <1>7, <3>1
    <3>2. CASE k # rd[r].key
      BY <1>4, <2>1, <3>2 DEF IInv, CachedIsCommitted, InvalidationHolds
    <3>3. QED BY <3>1, <3>2
  <2>2. UNCHANGED <<published, floor>>
    BY <1>0 DEF data
  <2>3. QED BY <2>1, <2>2 DEF CachedIsCommitted, InvalidationHolds
<1>9. DataTyped' /\ Growing'
  BY <1>0 DEF IInv, TypeOK, DataTyped, Growing, data
<1>10. rd' = [rd EXCEPT ![r] = n] /\ rd'[r] = n
  BY OneOf DEF Store, Set
<1>11. n \in QueryState
  BY <1>0 DEF QueryState
<1>12. /\ n.key = rd[r].key /\ n.rows = rd[r].rows /\ n.inTx = rd[r].inTx
       /\ n.snap = rd[r].snap /\ n.pc = "done"
  BY <1>0 DEF QueryState
<1> HIDE DEF n
<1>13. ASSUME NEW v \in Readers PROVE Placed(rd'[v]) /\ QueryOK(rd[v])'
  <2>1. CASE v = r
    BY <1>0, <1>10, <1>12, <2>1 DEF Placed, QueryOK, data
  <2>2. CASE v # r
    <3>1. rd'[v] = rd[v]
      BY <1>10, <2>2, OneOf
    <3>2. QED BY <1>0, <3>1, OneOf DEF QueryOK, data
  <2>3. QED BY <2>1, <2>2
<1>14. rd' \in [Readers -> QueryState]
  BY <1>10, <1>11 DEF IInv, TypeOK
<1>15. QED BY <1>5, <1>6, <1>8, <1>9, <1>13, <1>14 DEF IInv, TypeOK

\* An invalidation of the key or tag x that drops every entry x belongs to leaves
\* only queries that hold older rows, and marks them.
LEMMA Invalidate ==
  ASSUME IInv, NEW x \in Keys \cup Tags, NEW K \in SUBSET Keys, ForgetAll(K),
         \A k \in Keys \ K : items[k] # None => x \notin {k} \cup items[k].tags,
         floor' = [floor EXCEPT ![x] = committed], MarkRaced(x), UNCHANGED data
  PROVE  IInv'
<1>1. /\ \A k \in Keys : items'[k] = IF k \in K THEN None ELSE items[k]
      /\ StoreTyped' /\ IndexExact'
  BY Forgotten
<1>2. /\ committed \in Versions /\ floor \in [Keys \cup Tags -> Versions]
      /\ committed \in Int /\ \A y \in Keys \cup Tags : floor[y] \in Int
  BY QueryCacheAssumption DEF IInv, TypeOK, DataTyped, Versions
<1>3. \A y \in Keys \cup Tags : floor'[y] = IF y = x THEN committed ELSE floor[y]
  BY <1>2
<1>4. DataTyped' /\ Growing'
  <2>1. floor' \in [Keys \cup Tags -> Versions]
    BY <1>2
  <2>2. QED BY <1>2, <1>3, <2>1 DEF IInv, TypeOK, DataTyped, Growing, data
<1>5. CachedIsCommitted'
  BY <1>1 DEF IInv, CachedIsCommitted, data
<1>6. InvalidationHolds'
  <2> SUFFICES ASSUME NEW k \in Keys, items'[k] # None, ~items'[k].raced,
                      ~(items'[k].lagged /\ Replicas # {}),
                      NEW y \in {k} \cup items'[k].tags
               PROVE  items'[k].rows >= floor'[y]
    BY DEF InvalidationHolds
  <2>1. k \notin K /\ items'[k] = items[k]
    BY <1>1
  <2>2. y \in Keys \cup Tags /\ y # x
    BY <2>1 DEF IInv, TypeOK, StoreTyped, Entry
  <2>3. items[k].rows >= floor[y]
    BY <2>1 DEF IInv, InvalidationHolds
  <2>4. QED BY <1>3, <2>1, <2>2, <2>3
<1>7. ASSUME NEW r \in Readers
      PROVE  rd'[r] \in QueryState /\ Placed(rd'[r]) /\ QueryOK(rd[r])'
  <2>0. rd[r] \in QueryState /\ Placed(rd[r]) /\ QueryOK(rd[r])
    BY OneOf
  <2>1. CASE rd[r].pc = "loaded" /\ (x = rd[r].key \/ x \in rd[r].tags)
    <3> DEFINE n == [rd[r] EXCEPT !.raced = TRUE]
    <3>1. rd'[r] = n
      BY <2>1 DEF MarkRaced
    <3>2. n \in QueryState
      BY <2>0 DEF QueryState
    <3>3. /\ n.key = rd[r].key /\ n.rows = rd[r].rows /\ n.inTx = rd[r].inTx
          /\ n.snap = rd[r].snap /\ n.pc = rd[r].pc /\ n.raced
      BY <2>0 DEF QueryState
    <3> HIDE DEF n
    <3>4. Placed(n)
      BY <2>0, <3>3 DEF Placed
    <3>5. QueryOK(rd[r])'
      BY <2>0, <2>1, <3>1, <3>3 DEF QueryOK, data
    <3>6. QED BY <3>1, <3>2, <3>4, <3>5
  <2>2. CASE ~(rd[r].pc = "loaded" /\ (x = rd[r].key \/ x \in rd[r].tags))
    <3>1. rd'[r] = rd[r]
      BY <2>2 DEF MarkRaced
    <3>2. rd[r].pc = "loaded" => /\ {rd[r].key} \cup rd[r].tags \subseteq Keys \cup Tags
                                 /\ x \notin {rd[r].key} \cup rd[r].tags
      BY <2>0, <2>2 DEF QueryState, Placed
    <3>3. rd[r].pc = "loaded" => \A y \in {rd[r].key} \cup rd[r].tags : floor'[y] = floor[y]
      BY <1>3, <3>2
    <3>4. QueryOK(rd[r])'
      BY <2>0, <3>1, <3>3 DEF QueryOK, data
    <3>5. QED BY <2>0, <3>1, <3>4
  <2>3. QED BY <2>1, <2>2
<1>8. rd' \in [Readers -> QueryState]
  BY <1>7 DEF MarkRaced
<1>9. QED BY <1>1, <1>4, <1>5, <1>6, <1>7, <1>8 DEF IInv, TypeOK

\* CacheManager.Forget drops the one entry of its key.
LEMMA ForgetStep ==
  ASSUME IInv, NEW k \in Keys, Forget(k) PROVE IInv'
<1>1. \A j \in Keys \ {k} : items[j] # None => k \notin {j} \cup items[j].tags
  BY QueryCacheAssumption DEF IInv, TypeOK, StoreTyped, Entry
<1>2. QED BY <1>1, Invalidate DEF Forget

\* CacheManager.ForgetTag drops all entries with its tag, as the index is exact.
LEMMA ForgetTagStep ==
  ASSUME IInv, NEW t \in Tags, ForgetTag(t) PROVE IInv'
<1>1. PICK K \in SUBSET Keys : K = tags[t]
  BY DEF IInv, TypeOK, StoreTyped
<1>2. \A j \in Keys \ K : items[j] # None => t \notin {j} \cup items[j].tags
  BY <1>1, QueryCacheAssumption DEF IInv, IndexExact
<1>3. ForgetAll(K)
  BY <1>1 DEF ForgetTag
<1>4. QED BY <1>2, <1>3, Invalidate DEF ForgetTag

-----------------------------------------------------------------------------
\* A step of the transaction's goroutine, which is in none of its queries, that
\* publishes no version older than what is committed.
LEMMA TxStep ==
  ASSUME IInv, TxIdle, UNCHANGED <<store, rd, floor>>,
         DataTyped', Growing', published \subseteq published'
  PROVE  IInv'
<1>1. StoreTyped' /\ IndexExact' /\ CachedIsCommitted' /\ InvalidationHolds'
  BY DEF IInv, TypeOK, StoreTyped, IndexExact, CachedIsCommitted, InvalidationHolds, store
<1>2. ASSUME NEW r \in Readers PROVE QueryOK(rd[r])'
  BY OneOf DEF QueryOK, TxIdle
<1>3. QED BY <1>1, <1>2 DEF IInv, TypeOK

\* A write, a commit and a rollback, none of which touches the cache.
LEMMA TxSteps ==
  ASSUME IInv, TxWrite \/ TxCommit \/ TxRollback PROVE IInv'
<1> USE QueryCacheAssumption
<1>0. DataTyped /\ Growing
  BY DEF IInv, TypeOK
<1>1. CASE TxWrite
  <2>1. DataTyped'
    BY <1>0, <1>1 DEF TxWrite, DataTyped, Versions
  <2>2. Growing'
    BY <1>0, <1>1 DEF TxWrite, DataTyped, Growing, Versions
  <2>3. QED BY <1>1, <2>1, <2>2, TxStep DEF TxWrite
<1>2. CASE TxCommit
  <2>1. DataTyped'
    BY <1>0, <1>2 DEF TxCommit, DataTyped
  <2>2. Growing'
    BY <1>0, <1>2 DEF TxCommit, DataTyped, Growing, Versions
  <2>3. QED BY <1>2, <2>1, <2>2, TxStep DEF TxCommit
<1>3. CASE TxRollback
  <2>1. DataTyped' /\ Growing'
    BY <1>0, <1>3 DEF TxRollback, DataTyped, Growing
  <2>2. QED BY <1>3, <2>1, TxStep DEF TxRollback
<1>4. QED BY <1>1, <1>2, <1>3

\* A replica that catches up gets to a version that was committed.
LEMMA ReplicateStep ==
  ASSUME IInv, NEW s \in Replicas, Replicate(s) PROVE IInv'
<1>1. PICK v \in published : applied' = [applied EXCEPT ![s] = v]
  BY DEF Replicate
<1>2. UNCHANGED <<items, tags, rd, floor, committed, pending, last, published>>
  BY DEF Replicate, store
<1>3. DataTyped' /\ Growing'
  BY <1>1, <1>2 DEF IInv, TypeOK, DataTyped, Growing
<1>4. StoreTyped' /\ IndexExact' /\ CachedIsCommitted' /\ InvalidationHolds'
  BY <1>2 DEF IInv, TypeOK, StoreTyped, IndexExact, CachedIsCommitted, InvalidationHolds
<1>5. \A r \in Readers : QueryOK(rd[r])'
  BY <1>2 DEF IInv, QueryOK
<1>6. QED BY <1>2, <1>3, <1>4, <1>5 DEF IInv, TypeOK

\* An entry that gets older keeps its rows and its tags.
LEMMA Ageing ==
  ASSUME NEW e \in Entry \cup {None}
  PROVE  /\ Older(e) \in Entry \cup {None} /\ (Older(e) = None <=> e = None)
         /\ e # None => /\ Older(e).rows = e.rows /\ Older(e).tags = e.tags
                        /\ Older(e).raced = e.raced /\ Older(e).lagged = e.lagged
<1> USE QueryCacheAssumption
<1>1. CASE e = None \/ e.left = 0
  BY <1>1 DEF Older
<1>2. CASE ~(e = None \/ e.left = 0)
  <2>1. e \in Entry /\ e.left \in 1..TTL
    BY <1>2 DEF Entry
  <2>2. Older(e) = [e EXCEPT !.left = e.left - 1]
    BY <1>2 DEF Older
  <2>3. Older(e) \in Entry
    BY <2>1, <2>2 DEF Entry
  <2>4. /\ Older(e).rows = e.rows /\ Older(e).tags = e.tags
        /\ Older(e).raced = e.raced /\ Older(e).lagged = e.lagged
    BY <2>1, <2>2 DEF Entry
  <2>5. QED BY <2>1, <2>3, <2>4
<1>3. QED BY <1>1, <1>2

\* The clock changes only how long entries still live.
LEMMA TickStep ==
  ASSUME IInv, Tick PROVE IInv'
<1>0. /\ items' = [k \in Keys |-> Older(items[k])]
      /\ rd' = [r \in Readers |-> [rd[r] EXCEPT !.snap = Older(@)]]
      /\ UNCHANGED <<tags, data, floor>>
  BY DEF Tick
<1>1. \A k \in Keys :
        /\ items'[k] \in Entry \cup {None} /\ (items'[k] = None <=> items[k] = None)
        /\ items[k] # None => /\ items'[k].rows = items[k].rows
                              /\ items'[k].tags = items[k].tags
                              /\ items'[k].raced = items[k].raced
                              /\ items'[k].lagged = items[k].lagged
  BY <1>0, Ageing DEF IInv, TypeOK, StoreTyped
<1>2. StoreTyped'
  BY <1>0, <1>1 DEF IInv, TypeOK, StoreTyped
<1>3. DataTyped' /\ Growing'
  BY <1>0 DEF IInv, TypeOK, DataTyped, Growing, data
<1>4. IndexExact'
  BY <1>0, <1>1 DEF IInv, IndexExact
<1>5. CachedIsCommitted' /\ InvalidationHolds'
  BY <1>0, <1>1 DEF IInv, CachedIsCommitted, InvalidationHolds, data
<1>6. ASSUME NEW r \in Readers
      PROVE  rd'[r] \in QueryState /\ Placed(rd'[r]) /\ QueryOK(rd[r])'
  <2> DEFINE n == [rd[r] EXCEPT !.snap = Older(rd[r].snap)]
  <2>0. rd[r] \in QueryState /\ Placed(rd[r]) /\ QueryOK(rd[r])
    BY OneOf
  <2>1. rd'[r] = n
    BY <1>0
  <2>2. Older(rd[r].snap) \in Entry \cup {None}
        /\ (Older(rd[r].snap) = None <=> rd[r].snap = None)
    BY <2>0, Ageing DEF QueryState
  <2>3. n \in QueryState
    BY <2>0, <2>2 DEF QueryState
  <2>4. /\ n.key = rd[r].key /\ n.rows = rd[r].rows /\ n.inTx = rd[r].inTx /\ n.tags = rd[r].tags
        /\ n.snap = Older(rd[r].snap) /\ n.pc = rd[r].pc /\ n.raced = rd[r].raced
        /\ n.lagged = rd[r].lagged
    BY <2>0 DEF QueryState
  <2> HIDE DEF n
  <2>5. Placed(n)
    BY <2>0, <2>2, <2>4 DEF Placed
  <2>6. QueryOK(rd[r])'
    BY <1>0, <2>0, <2>1, <2>4 DEF QueryOK, data
  <2>7. QED BY <2>1, <2>3, <2>5, <2>6
<1>7. rd' \in [Readers -> QueryState]
  BY <1>0, <1>6
<1>8. QED BY <1>2, <1>3, <1>4, <1>5, <1>6, <1>7 DEF IInv, TypeOK

-----------------------------------------------------------------------------
\* Every step keeps the inductive invariant.
LEMMA InvStep == IInv /\ [Next]_vars => IInv'
<1> SUFFICES ASSUME IInv, [Next]_vars PROVE IInv'
  OBVIOUS
<1>1. ASSUME NEW r \in Readers, Start(r) \/ Query(r) PROVE IInv'
  BY <1>1, StartStep, LookupStep, CheckExpiryStep, DropExpiredStep, LoadStep, StoreStep,
     FinishStep DEF Query
<1>2. ASSUME NEW k \in Keys, Forget(k) PROVE IInv'
  BY <1>2, ForgetStep
<1>3. ASSUME NEW t \in Tags, ForgetTag(t) PROVE IInv'
  BY <1>3, ForgetTagStep
<1>4. CASE UNCHANGED vars
  <2>1. UNCHANGED <<items, tags, committed, applied, pending, last, published, rd, floor>>
    BY <1>4 DEF vars, store, data
  <2>2. QED BY <2>1 DEF IInv, TypeOK, StoreTyped, DataTyped, Growing, IndexExact,
              CachedIsCommitted, InvalidationHolds, QueryOK
<1>5. QED BY <1>1, <1>2, <1>3, <1>4, TxSteps, TickStep, ReplicateStep DEF Next

\* The tag index of the memory store is exact at every moment, for any number of
\* goroutines, keys and tags (Set, Forget, ForgetTag and Get of store.go).
THEOREM IndexIsExact == Spec => []IndexExact
<1>1. IInv => IndexExact
  BY DEF IInv
<1>2. QED BY <1>1, InvInit, InvStep, PTL DEF Spec

\* No uncommitted rows are ever in the cache (cacheEnabled and cachedRows).
THEOREM NothingUncommittedCached == Spec => []CachedIsCommitted
<1>1. IInv => CachedIsCommitted
  BY DEF IInv
<1>2. QED BY <1>1, InvInit, InvStep, PTL DEF Spec

\* After an invalidation, older rows come back into the cache only through the
\* race between load and Set in cachedRows, or from a replica that lagged behind
\* the primary when a query without UsePrimary was sent to it (runnerForRead); on
\* a connection without replicas only through the race.
THEOREM InvalidationLosesOnlyToRaceOrLag == Spec => []InvalidationHolds
<1>1. IInv => InvalidationHolds
  BY DEF IInv
<1>2. QED BY <1>1, InvInit, InvStep, PTL DEF Spec

\* A query inside a transaction is answered from the transaction's own view,
\* whatever others cache meanwhile (the bypass of cacheEnabled).
THEOREM TransactionSeesItself == Spec => []TxSeesItself
<1>1. IInv => TxSeesItself
  BY DEF IInv, QueryOK, TxSeesItself
<1>2. QED BY <1>1, InvInit, InvStep, PTL DEF Spec
=============================================================================
