------------------------ MODULE StatementCacheProofs ------------------------
(* Proofs about the prepared statement cache for any number of goroutines,    *)
(* queries and statements and any positive maxSize.                           *)
EXTENDS StatementCache, FiniteSetTheorems, TLAPS

\* The inductive invariant behind the safety theorems.
IInv ==
  /\ TypeOK /\ RefsCountHolders /\ OrderMatchesItems
  /\ ClosedOnce /\ NoLeak /\ Lifecycle

\* Every step of the cache keeps the types and the ownership of cache.mu.
LEMMA TypeStep == TypeOK /\ [Next]_vars => TypeOK'
<1> SUFFICES ASSUME TypeOK, [Next]_vars PROVE TypeOK'
  OBVIOUS
<1> USE CacheAssumption DEF TypeOK, Pcs, Cached
<1>1. ASSUME NEW w \in Workers, NEW q \in Queries, AcquireHit(w, q) PROVE TypeOK'
  BY <1>1 DEF AcquireHit
<1>2. ASSUME NEW w \in Workers, NEW q \in Queries, AcquireMiss(w, q) PROVE TypeOK'
  BY <1>2 DEF AcquireMiss
<1>3. ASSUME NEW w \in Workers, Prepare(w) PROVE TypeOK'
  BY <1>3 DEF Prepare
<1>4. ASSUME NEW w \in Workers, PrepareFails(w) PROVE TypeOK'
  BY <1>4 DEF PrepareFails
<1>5. ASSUME NEW w \in Workers, LoseRace(w) PROVE TypeOK'
  BY <1>5 DEF LoseRace
<1>6. ASSUME NEW w \in Workers, CloseSpare(w) PROVE TypeOK'
  BY <1>6 DEF CloseSpare
<1>7. ASSUME NEW w \in Workers, LockToInsert(w) PROVE TypeOK'
  BY <1>7 DEF LockToInsert
<1>8. ASSUME NEW w \in Workers, EvictOldest(w) PROVE TypeOK'
  <2>1. Head(order) \in Queries /\ Tail(order) \in Seq(Queries)
    BY <1>8 DEF EvictOldest, HasNoRoom
  <2>2. QED BY Zenon, <1>8, <2>1 DEF EvictOldest
<1>9. ASSUME NEW w \in Workers, Insert(w) PROVE TypeOK'
  BY <1>9 DEF Insert
<1>10. ASSUME NEW w \in Workers, Release(w) PROVE TypeOK'
  <2>1. stmt[w] \in Stmts /\ refs' \in [Stmts -> Int]
    BY <1>10 DEF Release
  <2>2. \/ pc' = [pc EXCEPT ![w] = "closing"] /\ stmt' = stmt
        \/ pc' = [pc EXCEPT ![w] = "idle"] /\ stmt' = [stmt EXCEPT ![w] = NoStmt]
    BY <1>10, Zenon DEF Release
  <2>3. CASE pc' = [pc EXCEPT ![w] = "closing"] /\ stmt' = stmt
    BY <1>10, <2>1, <2>3 DEF Release
  <2>4. CASE pc' = [pc EXCEPT ![w] = "idle"] /\ stmt' = [stmt EXCEPT ![w] = NoStmt]
    BY <1>10, <2>1, <2>4 DEF Release
  <2>5. QED BY <2>2, <2>3, <2>4
<1>11. ASSUME NEW w \in Workers, CloseReleased(w) PROVE TypeOK'
  BY <1>11 DEF CloseReleased
<1>12. CASE CloseCache
  BY <1>12 DEF CloseCache, CachedStmts
<1>13. CASE CloseDoomed
  BY <1>13 DEF CloseDoomed
<1>14. CASE UNCHANGED vars
  BY <1>14 DEF vars
<1>15. QED
  BY <1>1, <1>2, <1>3, <1>4, <1>5, <1>6, <1>7, <1>8, <1>9, <1>10, <1>11, <1>12,
     <1>13, <1>14 DEF Next, Start, Locked, Unlocked

\* TypeOK holds of every reachable state.
THEOREM TypeCorrect == Spec => []TypeOK
<1>1. Init => TypeOK
  BY CacheAssumption DEF Init, TypeOK, Pcs
<1>2. QED BY <1>1, TypeStep, PTL DEF Spec
-----------------------------------------------------------------------------
\* Facts about the holders of a statement that every step uses: they are
\* finitely many, and there is none exactly when their number is zero.
LEMMA HoldersFinite ==
  ASSUME NEW s
  PROVE  /\ IsFiniteSet(Holders(s)) /\ Cardinality(Holders(s)) \in Nat
         /\ Cardinality(Holders(s)) = 0 <=> Holders(s) = {}
<1>1. Holders(s) \subseteq Workers
  BY DEF Holders
<1>2. IsFiniteSet(Holders(s))
  BY <1>1, CacheAssumption, FS_Subset
<1>3. QED BY <1>2, FS_CardinalityType, FS_EmptySet

\* The same for the cached queries.
LEMMA CachedFinite ==
  IsFiniteSet(Cached) /\ Cardinality(Cached) \in Nat
<1>1. Cached \subseteq Queries
  BY DEF Cached
<1>2. QED BY <1>1, CacheAssumption, FS_Subset, FS_CardinalityType

\* A step that changes neither a holder nor a count keeps the counts exact.
LEMMA SameHolders ==
  ASSUME RefsCountHolders, UNCHANGED refs, \A s \in Stmts : Holders(s)' = Holders(s)
  PROVE  RefsCountHolders'
BY DEF RefsCountHolders

\* A step that changes neither map nor order keeps them in agreement.
LEMMA SameItems ==
  ASSUME OrderMatchesItems, UNCHANGED <<items, order>>
  PROVE  OrderMatchesItems' /\ Cached' = Cached /\ CachedStmts' = CachedStmts
BY DEF OrderMatchesItems, Cached, CachedStmts

\* Where the statements that variables name come from.
LEMMA Ranges ==
  ASSUME TypeOK
  PROVE  /\ CachedStmts \subseteq Stmts /\ doomed \subseteq Stmts
         /\ \A v \in Workers : /\ spare[v] # NoStmt => spare[v] \in Stmts
                               /\ stmt[v] # NoStmt => stmt[v] \in Stmts
                               /\ pc[v] = "closing" => stmt[v] \in Stmts
BY DEF TypeOK, CachedStmts, Cached

\* The variables that are functions of goroutines and statements.
LEMMA Functions ==
  ASSUME TypeOK
  PROVE  /\ items \in [Queries -> Stmts \cup {NoStmt}] /\ order \in Seq(Queries)
         /\ refs \in [Stmts -> Int] /\ evicted \in [Stmts -> BOOLEAN]
         /\ pc \in [Workers -> Pcs] /\ query \in [Workers -> Queries]
         /\ stmt \in [Workers -> Stmts \cup {NoStmt}]
         /\ spare \in [Workers -> Stmts \cup {NoStmt}]
         /\ state \in [Stmts -> {"unborn", "open", "closed"}]
BY DEF TypeOK

\* What a goroutine holds at each point of acquire.
LEMMA Holding ==
  ASSUME TypeOK, NEW v \in Workers
  PROVE  /\ spare[v] # NoStmt <=> pc[v] \in {"prepared", "inserting", "losing"}
         /\ stmt[v] # NoStmt <=> pc[v] \in {"losing", "using", "closing"}
BY DEF TypeOK

\* At most one goroutine is inside evictLocked.
LEMMA MutexHeld ==
  ASSUME TypeOK, NEW v \in Workers, NEW u \in Workers,
         pc[v] = "inserting", pc[u] = "inserting"
  PROVE  u = v
BY DEF TypeOK

\* A step that only moves a goroutine along, without a statement, keeps all.
LEMMA Frame ==
  ASSUME IInv, UNCHANGED <<items, order, refs, evicted, state, stmt, spare, doomed>>, TypeOK',
         \A s \in Stmts : Holders(s)' = Holders(s),
         \A v \in Workers : /\ pc'[v] = "closing" <=> pc[v] = "closing"
                            /\ pc'[v] = "inserting" => query'[v] \notin Cached
  PROVE  IInv'
<1> USE DEF IInv
<1>1. OrderMatchesItems' /\ Cached' = Cached /\ CachedStmts' = CachedStmts
  BY SameItems
<1>2. RefsCountHolders'
  BY SameHolders
<1>3. ClosedOnce'
  BY <1>1 DEF ClosedOnce
<1>4. NoLeak'
  BY <1>1 DEF NoLeak
<1>5. Lifecycle'
  BY <1>1 DEF Lifecycle
<1>6. QED BY <1>1, <1>2, <1>3, <1>4, <1>5

\* A goroutine owns the statement it prepared and has not cached: it is open,
\* not cached, and nobody else's.
LEMMA OwnSpare ==
  ASSUME ClosedOnce, NEW v \in Workers, spare[v] # NoStmt
  PROVE  /\ state[spare[v]] = "open" /\ spare[v] \notin CachedStmts \cup doomed
         /\ \A u \in Workers : spare[u] = spare[v] => u = v
  BY DEF ClosedOnce

\* The last releaser of an evicted statement owns it in the same way.
LEMMA OwnClosing ==
  ASSUME ClosedOnce, NEW v \in Workers, pc[v] = "closing"
  PROVE  /\ state[stmt[v]] = "open" /\ stmt[v] \notin CachedStmts \cup doomed
         /\ \A u \in Workers : stmt[u] = stmt[v] => u = v
  BY DEF ClosedOnce

\* A statement that is not in the cache yet is not evicted and has no user.
LEMMA FreshSpare ==
  ASSUME Lifecycle, NEW v \in Workers, spare[v] # NoStmt
  PROVE  ~evicted[spare[v]] /\ \A u \in Workers : stmt[u] # spare[v]
  BY Zenon DEF Lifecycle

\* What the map holds for a cached query is a statement.
LEMMA CachedEntry ==
  ASSUME TypeOK, NEW q \in Cached
  PROVE  items[q] \in Stmts /\ items[q] # NoStmt /\ items[q] \in CachedStmts
<1>1. q \in Queries /\ items[q] # NoStmt /\ items[q] \in CachedStmts
  BY Zenon DEF Cached, CachedStmts
<1>2. QED BY <1>1, Functions

\* AcquireMiss keeps the inductive invariant.
LEMMA AcquireMissStep ==
  ASSUME IInv, TypeOK', NEW w \in Workers, NEW q \in Queries, AcquireMiss(w, q) PROVE IInv'
<1> USE DEF AcquireMiss
<1>1. \A s \in Stmts : Holders(s)' = Holders(s)
  BY DEF Holders, TypeOK, IInv
<1>2. \A v \in Workers : /\ pc'[v] = "closing" <=> pc[v] = "closing"
                         /\ pc'[v] = "inserting" => pc[v] = "inserting" /\ query'[v] = query[v]
  BY DEF TypeOK, IInv
<1>3. \A v \in Workers : pc'[v] = "inserting" => query'[v] \notin Cached
  BY <1>2 DEF IInv, Lifecycle
<1>4. QED BY <1>1, <1>2, <1>3, Frame

\* Prepare keeps the inductive invariant.
LEMMA PrepareStep ==
  ASSUME IInv, TypeOK', NEW w \in Workers, Prepare(w) PROVE IInv'
<1>0. PICK t \in Stmts : /\ state[t] = "unborn" /\ state' = [state EXCEPT ![t] = "open"]
                         /\ spare' = [spare EXCEPT ![w] = t] /\ pc[w] = "preparing"
                         /\ pc' = [pc EXCEPT ![w] = "prepared"]
                         /\ UNCHANGED <<items, order, refs, evicted, mu, query, stmt, doomed>>
  BY Zenon DEF Prepare
<1>1. /\ UNCHANGED <<items, order, refs, evicted, mu, query, stmt, doomed>>
      /\ state'[t] = "open" /\ \A s \in Stmts : s # t => state'[s] = state[s]
      /\ spare'[w] = t /\ pc'[w] = "prepared"
      /\ \A v \in Workers : v # w => spare'[v] = spare[v] /\ pc'[v] = pc[v]
  BY <1>0, Functions DEF IInv
<1>2. \A s \in Stmts : Holders(s)' = Holders(s)
  BY <1>0, <1>1 DEF Holders
<1>3. RefsCountHolders'
  BY <1>1, <1>2, SameHolders DEF IInv
<1>4. OrderMatchesItems' /\ Cached' = Cached /\ CachedStmts' = CachedStmts
  BY <1>1, SameItems DEF IInv
<1>5. /\ t # NoStmt /\ t \notin CachedStmts \cup doomed /\ ~evicted[t]
      /\ \A v \in Workers : stmt[v] # t /\ spare[v] # t
  <2>1. t \notin CachedStmts \cup doomed /\ \A v \in Workers : spare[v] # NoStmt => spare[v] # t
    BY <1>0 DEF IInv, ClosedOnce
  <2>2. ~evicted[t] /\ \A v \in Workers : stmt[v] # t
    BY <1>0 DEF IInv, Lifecycle
  <2>3. QED BY <2>1, <2>2, CacheAssumption
<1>6. ClosedOnce'
  <2>1. \A s \in CachedStmts \cup doomed : state'[s] = "open"
    BY <1>1, <1>5, Ranges DEF IInv, ClosedOnce
  <2>2. \A v \in Workers : v # w /\ spare[v] # NoStmt => state'[spare[v]] = "open"
    BY <1>1, <1>5, Ranges DEF IInv, ClosedOnce
  <2>3. \A v \in Workers : spare'[v] # NoStmt =>
           /\ state'[spare'[v]] = "open" /\ spare'[v] \notin CachedStmts \cup doomed
           /\ \A u \in Workers : spare'[u] = spare'[v] => u = v
    BY <1>1, <1>5, <2>2 DEF IInv, ClosedOnce
  <2>4. \A v \in Workers : pc'[v] = "closing" => pc[v] = "closing" /\ state'[stmt[v]] = "open"
    BY <1>1, <1>5, Ranges DEF IInv, ClosedOnce
  <2>5. QED BY <1>1, <1>4, <2>1, <2>3, <2>4 DEF IInv, ClosedOnce
<1>7. NoLeak'
  <2> SUFFICES ASSUME NEW s \in Stmts, state'[s] = "open" PROVE NoLeak!(s)'
    BY DEF NoLeak
  <2>1. CASE s = t
    BY <1>1, <2>1
  <2>2. CASE s # t
    <3>1. NoLeak!(s)
      BY <1>1, <2>2 DEF IInv, NoLeak
    <3>2. \A v \in Workers : /\ spare[v] = s => v # w /\ spare'[v] = s
                             /\ pc[v] = "closing" => pc'[v] = "closing"
      BY <1>0, <1>1, Holding, CacheAssumption DEF IInv
    <3>3. QED BY <1>1, <1>2, <1>4, <3>1, <3>2
  <2>3. QED BY <2>1, <2>2
<1>8. Lifecycle'
  <2>1. \A s \in Stmts :
          /\ evicted'[s] => s # t /\ state'[s] # "unborn" /\ s \notin (CachedStmts \cup doomed)'
          /\ evicted'[s] /\ Holders(s)' # {} => state'[s] = "open"
          /\ state'[s] = "unborn" => \A v \in Workers : stmt'[v] # s
    BY <1>1, <1>2, <1>4, <1>5 DEF IInv, Lifecycle
  <2>2. \A v \in Workers : spare'[v] # NoStmt =>
           ~evicted'[spare'[v]] /\ \A u \in Workers : stmt'[u] # spare'[v]
    BY <1>1, <1>5 DEF IInv, Lifecycle
  <2>3. QED BY <1>1, <1>4, <2>1, <2>2 DEF IInv, Lifecycle
<1>9. QED BY <1>3, <1>4, <1>6, <1>7, <1>8 DEF IInv

\* PrepareFails keeps the inductive invariant.
LEMMA PrepareFailsStep ==
  ASSUME IInv, TypeOK', NEW w \in Workers, PrepareFails(w) PROVE IInv'
<1> USE DEF PrepareFails
<1>1. \A s \in Stmts : Holders(s)' = Holders(s)
  BY DEF Holders, TypeOK, IInv
<1>2. \A v \in Workers : /\ pc'[v] = "closing" <=> pc[v] = "closing"
                         /\ pc'[v] = "inserting" => pc[v] = "inserting"
  BY DEF TypeOK, IInv
<1>3. \A v \in Workers : pc'[v] = "inserting" => query'[v] \notin Cached
  BY <1>2 DEF IInv, Lifecycle
<1>4. QED BY <1>1, <1>2, <1>3, Frame

\* CloseSpare keeps the inductive invariant.
LEMMA CloseSpareStep ==
  ASSUME IInv, TypeOK', NEW w \in Workers, CloseSpare(w) PROVE IInv'
<1>0. PICK t \in Stmts : t = spare[w] /\ pc[w] = "losing"
  BY Holding, Functions DEF IInv, CloseSpare
<1>1. /\ UNCHANGED <<items, order, refs, evicted, mu, query, stmt, doomed>>
      /\ state'[t] = "closed" /\ \A s \in Stmts : s # t => state'[s] = state[s]
      /\ spare'[w] = NoStmt /\ pc'[w] = "using"
      /\ \A v \in Workers : v # w => spare'[v] = spare[v] /\ pc'[v] = pc[v]
  BY <1>0, Functions DEF IInv, CloseSpare
<1>2. \A s \in Stmts : Holders(s)' = Holders(s)
  BY <1>0, <1>1 DEF Holders
<1>3. RefsCountHolders'
  BY <1>1, <1>2, SameHolders DEF IInv
<1>4. OrderMatchesItems' /\ Cached' = Cached /\ CachedStmts' = CachedStmts
  BY <1>1, SameItems DEF IInv
<1>5. /\ t # NoStmt /\ t \notin CachedStmts \cup doomed /\ ~evicted[t]
      /\ \A v \in Workers : stmt[v] # t /\ (spare[v] = t => v = w)
  <2>1. t # NoStmt /\ t = spare[w]
    BY <1>0, CacheAssumption
  <2>2. t \notin CachedStmts \cup doomed /\ \A v \in Workers : spare[v] = t => v = w
    BY <2>1 DEF IInv, ClosedOnce
  <2>3. QED BY <2>1, <2>2 DEF IInv, Lifecycle
<1>6. ClosedOnce'
  <2>1. \A s \in CachedStmts \cup doomed : state'[s] = "open"
    BY <1>1, <1>5, Ranges DEF IInv, ClosedOnce
  <2>2. \A v \in Workers : spare'[v] # NoStmt => v # w /\ spare'[v] = spare[v] /\ spare[v] # t
    BY <1>1, <1>5
  <2>3. \A v \in Workers : spare'[v] # NoStmt =>
           /\ state'[spare'[v]] = "open" /\ spare'[v] \notin CachedStmts \cup doomed
           /\ \A u \in Workers : spare'[u] = spare'[v] => u = v
    <3> SUFFICES ASSUME NEW v \in Workers, spare'[v] # NoStmt
                 PROVE  /\ state'[spare'[v]] = "open" /\ spare'[v] \notin CachedStmts \cup doomed
                        /\ \A u \in Workers : spare'[u] = spare'[v] => u = v
      OBVIOUS
    <3>1. /\ state[spare[v]] = "open" /\ spare[v] \notin CachedStmts \cup doomed
          /\ \A u \in Workers : spare[u] = spare[v] => u = v
      BY <2>2, OwnSpare DEF IInv
    <3>2. \A u \in Workers : spare'[u] # NoStmt => spare'[u] = spare[u]
      BY <2>2
    <3>3. state'[spare[v]] = "open"
      BY <1>1, <2>2, <3>1, Ranges DEF IInv
    <3>4. QED BY <2>2, <3>1, <3>2, <3>3
  <2>4. \A v \in Workers : pc'[v] = "closing" => pc[v] = "closing" /\ state'[stmt[v]] = "open"
    BY <1>1, <1>5, Ranges DEF IInv, ClosedOnce
  <2>5. QED BY <1>1, <1>4, <2>1, <2>3, <2>4 DEF IInv, ClosedOnce
<1>7. NoLeak'
  <2> SUFFICES ASSUME NEW s \in Stmts, state'[s] = "open" PROVE NoLeak!(s)'
    BY DEF NoLeak
  <2>1. s # t /\ state[s] = "open"
    BY <1>1
  <2>2. NoLeak!(s)
    BY <2>1 DEF IInv, NoLeak
  <2>3. \A v \in Workers : /\ spare[v] = s => v # w /\ spare'[v] = s
                           /\ pc[v] = "closing" => pc'[v] = "closing"
    BY <1>0, <1>1, <2>1
  <2>4. QED BY <1>1, <1>2, <1>4, <2>2, <2>3
<1>8. Lifecycle'
  <2>1. \A s \in Stmts :
          /\ evicted'[s] => s # t /\ state'[s] # "unborn" /\ s \notin (CachedStmts \cup doomed)'
          /\ evicted'[s] /\ Holders(s)' # {} => state'[s] = "open"
          /\ state'[s] = "unborn" => \A v \in Workers : stmt'[v] # s
    BY <1>1, <1>2, <1>4, <1>5 DEF IInv, Lifecycle
  <2>2. \A v \in Workers : /\ spare'[v] # NoStmt => spare'[v] = spare[v]
                           /\ pc'[v] = "inserting" => pc[v] = "inserting"
    BY <1>1
  <2>3. \A v \in Workers : spare'[v] # NoStmt =>
           ~evicted'[spare'[v]] /\ \A u \in Workers : stmt'[u] # spare'[v]
    BY ZenonT(30), <1>1, <2>2, FreshSpare DEF IInv
  <2>4. \A v \in Workers : pc'[v] = "inserting" => query'[v] \notin Cached'
    BY ZenonT(30), <1>1, <1>4, <2>2 DEF IInv, Lifecycle
  <2>5. Len(order') = Cardinality(Cached')
    BY Zenon, <1>1, <1>4 DEF IInv, Lifecycle
  <2>6. QED BY ZenonT(30), <2>1, <2>3, <2>4, <2>5 DEF Lifecycle
<1>9. QED BY <1>3, <1>4, <1>6, <1>7, <1>8 DEF IInv

\* LockToInsert keeps the inductive invariant: it has looked the query up again.
LEMMA LockToInsertStep ==
  ASSUME IInv, TypeOK', NEW w \in Workers, LockToInsert(w) PROVE IInv'
<1> USE DEF LockToInsert
<1>1. \A s \in Stmts : Holders(s)' = Holders(s)
  BY DEF Holders, TypeOK, IInv
<1>2. \A v \in Workers : /\ pc'[v] = "closing" <=> pc[v] = "closing"
                         /\ pc'[v] = "inserting" => pc[v] = "inserting" \/ v = w
  BY DEF TypeOK, IInv
<1>3. \A v \in Workers : pc'[v] = "inserting" => query'[v] \notin Cached
  BY <1>2 DEF IInv, Lifecycle
<1>4. QED BY <1>1, <1>2, <1>3, Frame

\* CloseReleased keeps the inductive invariant.
LEMMA CloseReleasedStep ==
  ASSUME IInv, TypeOK', NEW w \in Workers, CloseReleased(w) PROVE IInv'
<1>0. PICK t \in Stmts : t = stmt[w] /\ pc[w] = "closing"
  BY DEF IInv, TypeOK, CloseReleased
<1>1. /\ UNCHANGED <<items, order, refs, evicted, query, spare, doomed>>
      /\ state'[t] = "closed" /\ \A s \in Stmts : s # t => state'[s] = state[s]
  BY <1>0 DEF CloseReleased, IInv, TypeOK
<1>2. /\ stmt'[w] = NoStmt /\ pc'[w] = "idle"
      /\ \A v \in Workers : v # w => stmt'[v] = stmt[v] /\ pc'[v] = pc[v]
  BY CacheAssumption DEF CloseReleased, IInv, TypeOK
<1>3. \A s \in Stmts : Holders(s)' = Holders(s)
  BY <1>0, <1>2, CacheAssumption DEF Holders
<1>4. RefsCountHolders'
  BY <1>1, <1>3, SameHolders DEF IInv
<1>5. OrderMatchesItems' /\ Cached' = Cached /\ CachedStmts' = CachedStmts
  BY <1>1, SameItems DEF IInv
<1>6. /\ t \notin CachedStmts \cup doomed /\ t # NoStmt
      /\ \A v \in Workers : v # w => stmt[v] # t
      /\ \A v \in Workers : spare[v] # t
  BY <1>0, CacheAssumption DEF IInv, ClosedOnce, Lifecycle
<1>7. ClosedOnce'
  <2>1. \A s \in CachedStmts \cup doomed : state'[s] = "open"
    BY <1>1, <1>6, Ranges DEF IInv, ClosedOnce
  <2>2. \A v \in Workers : spare[v] # NoStmt => state'[spare[v]] = "open"
    BY <1>1, <1>6, Ranges DEF IInv, ClosedOnce
  <2>3. \A v \in Workers : pc'[v] = "closing" =>
           v # w /\ pc[v] = "closing" /\ state'[stmt[v]] = "open"
    BY <1>1, <1>2, <1>6, Ranges DEF IInv, ClosedOnce
  <2>4. \A v \in Workers : pc'[v] = "closing" =>
           /\ stmt'[v] = stmt[v] /\ stmt[v] # NoStmt
           /\ \A u \in Workers : stmt'[u] = stmt[v] => u = v
    BY <1>2, <2>3, Holding DEF IInv, ClosedOnce
  <2>5. \A v \in Workers : pc'[v] = "closing" =>
           state'[stmt'[v]] = "open" /\ stmt'[v] \notin (CachedStmts \cup doomed)'
    BY ZenonT(30), <1>1, <1>5, <2>3, <2>4, OwnClosing DEF IInv
  <2>6. \A v \in Workers : spare'[v] # NoStmt =>
           /\ state'[spare'[v]] = "open" /\ spare'[v] \notin (CachedStmts \cup doomed)'
           /\ \A u \in Workers : spare'[u] = spare'[v] => u = v
    BY <1>1, <1>5, <2>2, OwnSpare DEF IInv
  <2>7. /\ \A s \in (CachedStmts \cup doomed)' : state'[s] = "open"
        /\ (CachedStmts \cap doomed)' = {}
        /\ \A p, q \in Cached' : items'[p] = items'[q] => p = q
    BY <1>1, <1>5, <2>1 DEF IInv, ClosedOnce
  <2>8. \A v \in Workers : pc'[v] = "closing" =>
           /\ state'[stmt'[v]] = "open" /\ stmt'[v] \notin (CachedStmts \cup doomed)'
           /\ \A u \in Workers : stmt'[u] = stmt'[v] => u = v
    BY <2>4, <2>5
  <2>9. QED BY <2>6, <2>7, <2>8 DEF ClosedOnce
<1>8. NoLeak'
  BY <1>1, <1>2, <1>3, <1>5, <1>0 DEF IInv, NoLeak
<1>9. Holders(t) = {} /\ state[t] = "open"
  BY <1>0, <1>6 DEF Holders, IInv, ClosedOnce
<1>10. Lifecycle'
  <2>1. \A s \in Stmts : evicted'[s] => state'[s] # "unborn" /\ s \notin (CachedStmts \cup doomed)'
    BY <1>1, <1>5 DEF IInv, Lifecycle
  <2>2. \A s \in Stmts : evicted'[s] /\ Holders(s)' # {} => state'[s] = "open"
    BY <1>1, <1>3, <1>9 DEF IInv, Lifecycle
  <2>3. \A v \in Workers : /\ stmt'[v] # NoStmt => stmt'[v] = stmt[v]
                           /\ pc'[v] = "inserting" => pc[v] = "inserting"
    BY <1>2
  <2>4. \A s \in Stmts : state'[s] = "unborn" => \A v \in Workers : stmt'[v] # s
    <3>1. \A s \in Stmts : s # NoStmt /\ (state'[s] = "unborn" => state[s] = "unborn")
      BY <1>1, CacheAssumption
    <3>2. QED BY ZenonT(30), <2>3, <3>1 DEF IInv, Lifecycle
  <2>5. \A v \in Workers : spare'[v] # NoStmt =>
           ~evicted'[spare'[v]] /\ \A u \in Workers : stmt'[u] # spare'[v]
    BY ZenonT(30), <1>1, <2>3, FreshSpare DEF IInv
  <2>6. \A v \in Workers : pc'[v] = "inserting" => query'[v] \notin Cached'
    BY ZenonT(30), <1>1, <1>5, <2>3 DEF IInv, Lifecycle
  <2>7. Len(order') = Cardinality(Cached')
    BY Zenon, <1>1, <1>5 DEF IInv, Lifecycle
  <2>8. QED BY ZenonT(30), <2>1, <2>2, <2>4, <2>5, <2>6, <2>7 DEF Lifecycle
<1>11. QED BY <1>4, <1>5, <1>7, <1>8, <1>10 DEF IInv

\* One more goroutine holds statement t and its count is one more.
LEMMA OneMoreHolder ==
  ASSUME TypeOK, RefsCountHolders, NEW t \in Stmts, NEW w \in Workers,
         w \notin Holders(t), Holders(t)' = Holders(t) \cup {w},
         refs' = [refs EXCEPT ![t] = @ + 1],
         \A s \in Stmts \ {t} : Holders(s)' = Holders(s)
  PROVE  RefsCountHolders'
<1>1. Cardinality(Holders(t)') = Cardinality(Holders(t)) + 1
  BY HoldersFinite, FS_AddElement
<1>2. QED BY Zenon, <1>1 DEF RefsCountHolders, TypeOK

\* AcquireHit keeps the inductive invariant.
LEMMA AcquireHitStep ==
  ASSUME IInv, TypeOK', NEW w \in Workers, NEW q \in Queries, AcquireHit(w, q)
  PROVE  IInv'
<1>0. PICK t \in Stmts : t = items[q] /\ t \in CachedStmts
  BY Zenon, CachedEntry DEF IInv, AcquireHit
<1>1. /\ UNCHANGED <<items, order, evicted, state, spare, doomed>>
      /\ refs' = [refs EXCEPT ![t] = @ + 1]
  BY <1>0 DEF AcquireHit
<1>2. /\ stmt'[w] = t /\ pc'[w] = "using" /\ stmt[w] = NoStmt /\ pc[w] \notin {"using", "losing", "closing"}
      /\ \A v \in Workers : v # w => /\ stmt'[v] = stmt[v] /\ pc'[v] = pc[v] /\ query'[v] = query[v]
  <2>1. stmt[w] = NoStmt /\ pc[w] \notin {"using", "losing", "closing"}
    BY Holding DEF AcquireHit, IInv
  <2>2. QED BY <1>0, <2>1, Functions DEF AcquireHit, IInv
<1>3. /\ w \notin Holders(t) /\ Holders(t)' = Holders(t) \cup {w}
      /\ \A s \in Stmts \ {t} : Holders(s)' = Holders(s)
  BY <1>2 DEF Holders
<1>4. RefsCountHolders'
  BY Zenon, <1>1, <1>3, OneMoreHolder DEF IInv
<1>5. OrderMatchesItems' /\ Cached' = Cached /\ CachedStmts' = CachedStmts
  BY <1>1, SameItems DEF IInv
<1>6. \A v \in Workers : pc'[v] = "closing" => v # w /\ pc[v] = "closing" /\ stmt[v] # t
  BY <1>0, <1>2 DEF IInv, ClosedOnce
<1>7. \A v \in Workers : spare[v] # NoStmt => spare[v] # t
  BY <1>0 DEF IInv, ClosedOnce
<1>8. ClosedOnce'
  <2>1. \A v \in Workers : pc'[v] = "closing" =>
           /\ pc[v] = "closing" /\ stmt'[v] = stmt[v]
           /\ \A u \in Workers : stmt'[u] = stmt'[v] => u = v
    <3> SUFFICES ASSUME NEW v \in Workers, pc'[v] = "closing"
                 PROVE  /\ pc[v] = "closing" /\ stmt'[v] = stmt[v]
                        /\ \A u \in Workers : stmt'[u] = stmt'[v] => u = v
      OBVIOUS
    <3>1. v # w /\ pc[v] = "closing" /\ stmt[v] # t
      BY <1>6
    <3>2. \A u \in Workers : stmt[u] = stmt[v] => u = v
      BY <3>1, OwnClosing DEF IInv
    <3>3. QED BY <1>2, <3>1, <3>2
  <2>2. UNCHANGED <<items, state, spare, doomed>> /\ Cached' = Cached /\ CachedStmts' = CachedStmts
    BY <1>1, <1>5
  <2>3. /\ \A s \in (CachedStmts \cup doomed)' : state'[s] = "open"
        /\ (CachedStmts \cap doomed)' = {}
        /\ \A p, r \in Cached' : items'[p] = items'[r] => p = r
    BY ZenonT(30), <2>2 DEF IInv, ClosedOnce
  <2>4. \A v \in Workers : spare'[v] # NoStmt =>
           /\ state'[spare'[v]] = "open" /\ spare'[v] \notin (CachedStmts \cup doomed)'
           /\ \A u \in Workers : spare'[u] = spare'[v] => u = v
    BY ZenonT(30), <2>2, OwnSpare DEF IInv
  <2>5. \A v \in Workers : pc'[v] = "closing" =>
           state'[stmt'[v]] = "open" /\ stmt'[v] \notin (CachedStmts \cup doomed)'
    BY ZenonT(30), <2>1, <2>2, OwnClosing DEF IInv
  <2>6. QED BY ZenonT(30), <2>1, <2>3, <2>4, <2>5 DEF ClosedOnce
<1>9. NoLeak'
  <2> SUFFICES ASSUME NEW s \in Stmts, state'[s] = "open" PROVE NoLeak!(s)'
    BY DEF NoLeak
  <2>1. NoLeak!(s)
    BY <1>1 DEF IInv, NoLeak
  <2>2. Holders(s) # {} => Holders(s)' # {}
    BY <1>3
  <2>3. \A v \in Workers : pc[v] = "closing" => pc'[v] = "closing" /\ stmt'[v] = stmt[v]
    BY <1>2
  <2>4. QED BY <1>1, <1>5, <2>1, <2>2, <2>3
<1>10. ~evicted[t] /\ state[t] = "open"
  BY <1>0 DEF IInv, Lifecycle, ClosedOnce
<1>11. Lifecycle'
  <2>1. \A s \in Stmts : Holders(s)' # {} => s = t \/ Holders(s) # {}
    BY <1>3
  <2>2. \A v \in Workers : /\ stmt'[v] = stmt[v] \/ stmt'[v] = t
                           /\ pc'[v] = "inserting" => pc[v] = "inserting" /\ query'[v] = query[v]
    BY <1>2
  <2>3. \A s \in Stmts :
          /\ evicted'[s] => s # t /\ state'[s] # "unborn" /\ s \notin (CachedStmts \cup doomed)'
          /\ evicted'[s] /\ Holders(s)' # {} => state'[s] = "open"
    BY <1>1, <1>5, <1>10, <2>1 DEF IInv, Lifecycle
  <2>4. \A s \in Stmts : state'[s] = "unborn" => \A v \in Workers : stmt'[v] # s
    <3>1. \A s \in Stmts : state'[s] = "unborn" => s # t /\ \A v \in Workers : stmt[v] # s
      BY <1>1, <1>10 DEF IInv, Lifecycle
    <3>2. QED BY ZenonT(30), <2>2, <3>1
  <2>5. \A v \in Workers : spare'[v] # NoStmt =>
           ~evicted'[spare'[v]] /\ \A u \in Workers : stmt'[u] # spare'[v]
    BY ZenonT(30), <1>1, <1>7, <2>2 DEF IInv, Lifecycle
  <2>6. QED BY <1>1, <1>5, <2>2, <2>3, <2>4, <2>5 DEF IInv, Lifecycle
<1>12. QED BY <1>4, <1>5, <1>8, <1>9, <1>11 DEF IInv

\* LoseRace keeps the inductive invariant.
LEMMA LoseRaceStep ==
  ASSUME IInv, TypeOK', NEW w \in Workers, LoseRace(w)
  PROVE  IInv'
<1>0. PICK t \in Stmts : t = items[query[w]] /\ t \in CachedStmts
  BY Zenon, CachedEntry DEF IInv, LoseRace
<1>1. /\ UNCHANGED <<items, order, evicted, state, spare, doomed>>
      /\ refs' = [refs EXCEPT ![t] = @ + 1]
  BY <1>0 DEF LoseRace
<1>2. /\ stmt'[w] = t /\ pc'[w] = "losing" /\ stmt[w] = NoStmt /\ pc[w] \notin {"using", "losing", "closing"}
      /\ \A v \in Workers : v # w => /\ stmt'[v] = stmt[v] /\ pc'[v] = pc[v] /\ query'[v] = query[v]
  <2>1. stmt[w] = NoStmt /\ pc[w] \notin {"using", "losing", "closing"}
    BY Holding DEF LoseRace, IInv
  <2>2. QED BY <1>0, <2>1, Functions DEF LoseRace, IInv
<1>3. /\ w \notin Holders(t) /\ Holders(t)' = Holders(t) \cup {w}
      /\ \A s \in Stmts \ {t} : Holders(s)' = Holders(s)
  BY <1>2 DEF Holders
<1>4. RefsCountHolders'
  BY ZenonT(30), <1>1, <1>3, OneMoreHolder DEF IInv
<1>5. OrderMatchesItems' /\ Cached' = Cached /\ CachedStmts' = CachedStmts
  BY <1>1, SameItems DEF IInv
<1>6. \A v \in Workers : pc'[v] = "closing" => v # w /\ pc[v] = "closing" /\ stmt[v] # t
  BY <1>0, <1>2 DEF IInv, ClosedOnce
<1>7. \A v \in Workers : spare[v] # NoStmt => spare[v] # t
  BY <1>0 DEF IInv, ClosedOnce
<1>8. ClosedOnce'
  <2>1. \A v \in Workers : pc'[v] = "closing" =>
           /\ pc[v] = "closing" /\ stmt'[v] = stmt[v]
           /\ \A u \in Workers : stmt'[u] = stmt'[v] => u = v
    <3> SUFFICES ASSUME NEW v \in Workers, pc'[v] = "closing"
                 PROVE  /\ pc[v] = "closing" /\ stmt'[v] = stmt[v]
                        /\ \A u \in Workers : stmt'[u] = stmt'[v] => u = v
      OBVIOUS
    <3>1. v # w /\ pc[v] = "closing" /\ stmt[v] # t
      BY <1>6
    <3>2. \A u \in Workers : stmt[u] = stmt[v] => u = v
      BY ZenonT(30), <3>1, OwnClosing DEF IInv
    <3>3. QED BY <1>2, <3>1, <3>2
  <2>2. QED BY <1>1, <1>5, <2>1 DEF IInv, ClosedOnce
<1>9. NoLeak'
  <2> SUFFICES ASSUME NEW s \in Stmts, state'[s] = "open" PROVE NoLeak!(s)'
    BY DEF NoLeak
  <2>1. NoLeak!(s)
    BY <1>1 DEF IInv, NoLeak
  <2>2. Holders(s) # {} => Holders(s)' # {}
    BY ZenonT(30), <1>3
  <2>3. \A v \in Workers : pc[v] = "closing" => pc'[v] = "closing" /\ stmt'[v] = stmt[v]
    BY <1>2
  <2>4. QED BY <1>1, <1>5, <2>1, <2>2, <2>3
<1>10. ~evicted[t] /\ state[t] = "open"
  BY <1>0 DEF IInv, Lifecycle, ClosedOnce
<1>11. Lifecycle'
  <2>1. \A s \in Stmts : Holders(s)' # {} => s = t \/ Holders(s) # {}
    BY ZenonT(30), <1>3
  <2>2. \A v \in Workers : /\ stmt'[v] = stmt[v] \/ stmt'[v] = t
                           /\ pc'[v] = "inserting" => pc[v] = "inserting" /\ query'[v] = query[v]
    BY <1>2
  <2>3. \A s \in Stmts :
          /\ evicted'[s] => s # t /\ state'[s] # "unborn" /\ s \notin (CachedStmts \cup doomed)'
          /\ evicted'[s] /\ Holders(s)' # {} => state'[s] = "open"
    BY Zenon, <1>1, <1>5, <1>10, <2>1 DEF IInv, Lifecycle
  <2>4. \A s \in Stmts : state'[s] = "unborn" => \A v \in Workers : stmt'[v] # s
    <3>1. \A s \in Stmts : state'[s] = "unborn" => s # t /\ \A v \in Workers : stmt[v] # s
      BY <1>1, <1>10 DEF IInv, Lifecycle
    <3>2. QED BY ZenonT(30), <2>2, <3>1
  <2>5. \A v \in Workers : spare'[v] # NoStmt =>
           ~evicted'[spare'[v]] /\ \A u \in Workers : stmt'[u] # spare'[v]
    BY ZenonT(30), <1>1, <1>7, <2>2 DEF IInv, Lifecycle
  <2>6. QED BY Zenon, <1>1, <1>5, <2>2, <2>3, <2>4, <2>5 DEF IInv, Lifecycle
<1>12. QED BY <1>4, <1>5, <1>8, <1>9, <1>11 DEF IInv

\* Release keeps the inductive invariant: the last holder of an evicted
\* statement takes over its closing.
LEMMA ReleaseStep ==
  ASSUME IInv, TypeOK', NEW w \in Workers, Release(w)
  PROVE  IInv'
<1> USE CacheAssumption DEF IInv
<1>0. PICK t \in Stmts : t = stmt[w]
  BY DEF Release, TypeOK
<1> DEFINE last == refs'[t] <= 0 /\ evicted[t]
<1>1. /\ t = stmt[w] /\ refs' = [refs EXCEPT ![t] = @ - 1]
      /\ pc[w] = "using" /\ spare[w] = NoStmt
      /\ UNCHANGED <<items, order, evicted, state, mu, query, spare, doomed>>
  BY Zenon, <1>0 DEF Release, TypeOK
<1>2. /\ last => pc' = [pc EXCEPT ![w] = "closing"] /\ stmt' = stmt
      /\ ~last => pc' = [pc EXCEPT ![w] = "idle"] /\ stmt' = [stmt EXCEPT ![w] = NoStmt]
  BY <1>0, Zenon DEF Release
<1> HIDE DEF last
<1>3. \/ pc' = [pc EXCEPT ![w] = "closing"] /\ stmt' = stmt
      \/ pc' = [pc EXCEPT ![w] = "idle"] /\ stmt' = [stmt EXCEPT ![w] = NoStmt]
  BY <1>2
<1>4. /\ w \in Holders(t) /\ Holders(t)' = Holders(t) \ {w}
      /\ \A s \in Stmts \ {t} : Holders(s)' = Holders(s)
  <2>1. CASE pc' = [pc EXCEPT ![w] = "closing"] /\ stmt' = stmt
    BY <1>1, <2>1 DEF Holders, TypeOK
  <2>2. CASE pc' = [pc EXCEPT ![w] = "idle"] /\ stmt' = [stmt EXCEPT ![w] = NoStmt]
    BY <1>1, <2>2 DEF Holders, TypeOK
  <2>3. QED BY <1>3, <2>1, <2>2
<1>5. /\ IsFiniteSet(Holders(t)')
      /\ Cardinality(Holders(t)') = Cardinality(Holders(t)) - 1
  BY <1>4, HoldersFinite, FS_RemoveElement
<1>6. RefsCountHolders'
  <2>1. refs'[t] = refs[t] - 1 /\ \A s \in Stmts \ {t} : refs'[s] = refs[s]
    BY <1>1 DEF TypeOK
  <2>2. refs[t] = Cardinality(Holders(t))
    BY DEF RefsCountHolders
  <2>3. refs'[t] = Cardinality(Holders(t)')
    BY <1>5, <2>1, <2>2
  <2>4. QED BY <1>4, <2>1, <2>3 DEF RefsCountHolders
<1>7. OrderMatchesItems' /\ Cached' = Cached /\ CachedStmts' = CachedStmts
  BY <1>1, SameItems
<1>8. refs'[t] <= 0 <=> Holders(t)' = {}
  <2>1. refs'[t] = Cardinality(Holders(t)')
    BY <1>1, <1>6 DEF RefsCountHolders
  <2>2. Cardinality(Holders(t)') \in Nat /\ (Cardinality(Holders(t)') = 0 <=> Holders(t)' = {})
    BY Zenon, <1>5, FS_CardinalityType, FS_EmptySet
  <2>3. QED BY <2>1, <2>2
<1>9. CASE last
  <2>1. Holders(t) = {w} /\ evicted[t] /\ t \notin CachedStmts \cup doomed
    BY ZenonT(30), <1>1, <1>4, <1>8, <1>9 DEF Lifecycle, last
  <2>2. state[t] = "open" /\ t # NoStmt
    BY <2>1 DEF Lifecycle
  <2>3. /\ stmt' = stmt /\ stmt[w] = t /\ pc'[w] = "closing"
        /\ \A v \in Workers : v # w => pc'[v] = pc[v]
    BY <1>1, <1>2, <1>9, Functions
  <2>4. \A v \in Workers : stmt[v] = t => v = w
    <3>1. \A v \in Workers : stmt[v] = t /\ pc[v] # "closing" => v = w
      <4>1. \A v \in Workers : stmt[v] = t /\ pc[v] # "closing" => v \in Holders(t)
        BY <2>2, Holding DEF Holders
      <4>2. QED BY <2>1, <4>1
    <3>2. \A v \in Workers : stmt[v] = t /\ pc[v] = "closing" => v = w
      BY <2>3 DEF ClosedOnce
    <3>3. QED BY <3>1, <3>2
  <2>5. \A v \in Workers : pc'[v] = "closing" =>
           /\ state[stmt[v]] = "open" /\ stmt[v] \notin CachedStmts \cup doomed
           /\ \A u \in Workers : stmt[u] = stmt[v] => u = v
    <3> SUFFICES ASSUME NEW v \in Workers, pc'[v] = "closing"
                 PROVE  /\ state[stmt[v]] = "open" /\ stmt[v] \notin CachedStmts \cup doomed
                        /\ \A u \in Workers : stmt[u] = stmt[v] => u = v
      BY Zenon
    <3>1. CASE v = w
      BY ZenonT(30), <2>1, <2>2, <2>3, <2>4, <3>1
    <3>2. CASE v # w
      BY ZenonT(30), <2>3, <3>2, OwnClosing
    <3>3. QED BY <3>1, <3>2
  <2>6. ClosedOnce'
    <3>1. /\ \A s \in (CachedStmts \cup doomed)' : state'[s] = "open"
          /\ (CachedStmts \cap doomed)' = {}
          /\ \A p, q \in Cached' : items'[p] = items'[q] => p = q
      BY ZenonT(30), <1>1, <1>7 DEF ClosedOnce
    <3>2. \A v \in Workers : spare'[v] # NoStmt =>
             /\ state'[spare'[v]] = "open" /\ spare'[v] \notin (CachedStmts \cup doomed)'
             /\ \A u \in Workers : spare'[u] = spare'[v] => u = v
      BY <1>1, <1>7 DEF ClosedOnce
    <3>3. \A v \in Workers : pc'[v] = "closing" =>
             /\ state'[stmt'[v]] = "open" /\ stmt'[v] \notin (CachedStmts \cup doomed)'
             /\ \A u \in Workers : stmt'[u] = stmt'[v] => u = v
      BY <1>1, <1>7, <2>3, <2>5
    <3>4. QED BY <3>1, <3>2, <3>3, Zenon DEF ClosedOnce
  <2>7. NoLeak'
    <3> SUFFICES ASSUME NEW s \in Stmts, state'[s] = "open" PROVE NoLeak!(s)'
      BY ZenonT(30) DEF NoLeak
    <3>1. NoLeak!(s)
      BY <1>1 DEF NoLeak
    <3>2. CASE s = t
      BY ZenonT(30), <2>3, <3>2
    <3>3. CASE s # t
      <4>1. /\ UNCHANGED <<spare, doomed, evicted>> /\ CachedStmts' = CachedStmts
            /\ Holders(s)' = Holders(s) /\ state[s] = "open"
        BY <1>1, <1>4, <1>7, <3>3
      <4>2. \A v \in Workers : pc[v] = "closing" /\ stmt[v] = s => pc'[v] = "closing" /\ stmt'[v] = s
        BY <1>1, <2>3
      <4>3. QED BY <3>1, <4>1, <4>2, ZenonT(30)
    <3>4. QED BY <3>2, <3>3
  <2>8. Lifecycle'
    <3>1. \A s \in Stmts : Holders(s) = {} => Holders(s)' = {}
      BY <1>4
    <3>2. \A v \in Workers : pc'[v] = "inserting" => pc[v] = "inserting"
      BY <2>3
    <3>3. QED BY <1>1, <1>7, <2>3, <3>1, <3>2 DEF Lifecycle
  <2>9. QED BY <1>6, <1>7, <2>6, <2>7, <2>8
<1>10. CASE ~last
  <2>1. ~evicted[t] \/ Holders(t)' # {}
    BY <1>8, <1>10 DEF last
  <2>2. /\ stmt'[w] = NoStmt /\ pc'[w] = "idle"
        /\ \A v \in Workers : v # w => pc'[v] = pc[v] /\ stmt'[v] = stmt[v]
    BY <1>2, <1>10, Functions
  <2>3. \A v \in Workers : pc'[v] = "closing" =>
           /\ pc[v] = "closing" /\ stmt'[v] = stmt[v] /\ stmt[v] # NoStmt
           /\ \A u \in Workers : stmt'[u] = stmt[v] => u = v
    <3> SUFFICES ASSUME NEW v \in Workers, pc'[v] = "closing"
                 PROVE  /\ pc[v] = "closing" /\ stmt'[v] = stmt[v] /\ stmt[v] # NoStmt
                        /\ \A u \in Workers : stmt'[u] = stmt[v] => u = v
      BY Zenon
    <3>1. v # w
      BY <2>2
    <3>2. pc[v] = "closing" /\ stmt'[v] = stmt[v]
      BY Zenon, <2>2, <3>1
    <3>3. stmt[v] # NoStmt
      BY <3>2, Holding
    <3>4. \A u \in Workers : stmt[u] = stmt[v] => u = v
      BY Zenon, <3>2, OwnClosing
    <3>5. QED BY ZenonT(30), <2>2, <3>2, <3>3, <3>4
  <2>4. ClosedOnce'
    <3>1. /\ \A s \in (CachedStmts \cup doomed)' : state'[s] = "open"
          /\ (CachedStmts \cap doomed)' = {}
          /\ \A p, q \in Cached' : items'[p] = items'[q] => p = q
      BY ZenonT(30), <1>1, <1>7 DEF ClosedOnce
    <3>2. \A v \in Workers : spare'[v] # NoStmt =>
             /\ state'[spare'[v]] = "open" /\ spare'[v] \notin (CachedStmts \cup doomed)'
             /\ \A u \in Workers : spare'[u] = spare'[v] => u = v
      BY <1>1, <1>7 DEF ClosedOnce
    <3>3. \A v \in Workers : pc'[v] = "closing" =>
             /\ state'[stmt'[v]] = "open" /\ stmt'[v] \notin (CachedStmts \cup doomed)'
             /\ \A u \in Workers : stmt'[u] = stmt'[v] => u = v
      <4> SUFFICES ASSUME NEW v \in Workers, pc'[v] = "closing"
                   PROVE  /\ state'[stmt'[v]] = "open" /\ stmt'[v] \notin (CachedStmts \cup doomed)'
                          /\ \A u \in Workers : stmt'[u] = stmt'[v] => u = v
        BY Zenon
      <4>1. /\ pc[v] = "closing" /\ stmt'[v] = stmt[v]
            /\ \A u \in Workers : stmt'[u] = stmt[v] => u = v
        BY <2>3
      <4>2. state[stmt[v]] = "open" /\ stmt[v] \notin CachedStmts \cup doomed
        BY <4>1, OwnClosing
      <4>3. (CachedStmts \cup doomed)' = CachedStmts \cup doomed /\ state' = state
        BY ZenonT(30), <1>1, <1>7
      <4>4. QED BY ZenonT(30), <4>1, <4>2, <4>3
    <3>4. QED BY Zenon, <3>1, <3>2, <3>3 DEF ClosedOnce
  <2>5. NoLeak'
    <3> SUFFICES ASSUME NEW s \in Stmts, state'[s] = "open" PROVE NoLeak!(s)'
      BY DEF NoLeak
    <3>1. NoLeak!(s)
      BY <1>1 DEF NoLeak
    <3>2. evicted[s] /\ Holders(s) # {} => Holders(s)' # {}
      BY <1>4, <2>1
    <3>3. \A v \in Workers : pc[v] = "closing" => pc'[v] = "closing" /\ stmt'[v] = stmt[v]
      BY ZenonT(30), <1>1, <2>2
    <3>4. QED BY ZenonT(30), <1>1, <1>7, <3>1, <3>2, <3>3
  <2>6. Lifecycle'
    <3>1. \A s \in Stmts : Holders(s)' # {} => Holders(s) # {}
      BY <1>4
    <3>2. \A v \in Workers : /\ stmt'[v] = stmt[v] \/ stmt'[v] = NoStmt
                             /\ pc'[v] = "inserting" => pc[v] = "inserting"
      BY <2>2
    <3>3. \A s \in Stmts : state[s] = "unborn" => \A v \in Workers : stmt'[v] # s
      BY <3>2 DEF Lifecycle
    <3>4. \A v \in Workers : spare[v] # NoStmt => \A u \in Workers : stmt'[u] # spare[v]
      BY <3>2 DEF Lifecycle
    <3>5. QED BY <1>1, <1>7, <3>1, <3>2, <3>3, <3>4 DEF Lifecycle
  <2>7. QED BY <1>6, <1>7, <2>4, <2>5, <2>6
<1>11. QED BY <1>9, <1>10

\* Insert keeps the inductive invariant: the statement enters the cache with its
\* inserter as only holder.
LEMMA InsertStep ==
  ASSUME IInv, TypeOK', NEW w \in Workers, Insert(w)
  PROVE  IInv'
<1>0. PICK t \in Stmts, q \in Queries : t = spare[w] /\ q = query[w] /\ pc[w] = "inserting"
  BY ZenonT(30), Holding, Functions DEF Insert, IInv
<1>1. /\ UNCHANGED <<evicted, state, query, doomed>>
      /\ order' = Append(order, q) /\ ~HasNoRoom
  BY <1>0 DEF Insert
<1>2. /\ stmt'[w] = t /\ spare'[w] = NoStmt /\ pc'[w] = "using" /\ stmt[w] = NoStmt
      /\ \A v \in Workers : v # w => stmt'[v] = stmt[v] /\ spare'[v] = spare[v] /\ pc'[v] = pc[v]
  <2>1. stmt[w] = NoStmt
    BY <1>0, Holding DEF IInv
  <2>2. QED BY <1>0, <2>1, Functions DEF Insert, IInv
<1>3. /\ items'[q] = t /\ \A p \in Queries : p # q => items'[p] = items[p]
      /\ refs'[t] = 1 /\ \A s \in Stmts : s # t => refs'[s] = refs[s]
  BY <1>0, Functions DEF Insert, IInv
<1>4. /\ t # NoStmt /\ state[t] = "open" /\ ~evicted[t] /\ t \notin CachedStmts \cup doomed
      /\ \A v \in Workers : stmt[v] # t /\ (spare[v] = t => v = w)
      /\ q \in Queries /\ q \notin Cached
  BY Zenon, <1>0, CacheAssumption DEF IInv, ClosedOnce, Lifecycle
<1>5. /\ Holders(t)' = {w}
      /\ \A s \in Stmts \ {t} : Holders(s)' = Holders(s)
  <2>1. \A v \in Workers : stmt'[v] = t <=> v = w
    BY <1>2, <1>4
  <2>2. \A v \in Workers, s \in Stmts \ {t} :
           stmt'[v] = s /\ pc'[v] # "closing" <=> stmt[v] = s /\ pc[v] # "closing"
    BY <1>2, CacheAssumption
  <2>3. QED BY ZenonT(30), <1>2, <2>1, <2>2 DEF Holders
<1>6. RefsCountHolders'
  <2>1. Cardinality(Holders(t)') = 1
    BY Zenon, <1>5, FS_Singleton
  <2>2. QED BY <1>3, <1>5, <2>1 DEF IInv, RefsCountHolders
<1>7. Cached' = Cached \cup {q}
  BY <1>3, <1>4 DEF Cached
<1>8. CachedStmts' = CachedStmts \cup {t}
  <2>1. \A p \in Cached : p # q /\ items'[p] = items[p]
    BY <1>3, <1>4 DEF Cached
  <2>2. QED BY <1>3, <1>7, <2>1 DEF CachedStmts
<1>9. Cardinality(Cached') = Cardinality(Cached) + 1
  BY Zenon, <1>4, <1>7, CachedFinite, FS_AddElement DEF IInv
<1>10. OrderMatchesItems' /\ Len(order') = Cardinality(Cached')
  <2>1. order \in Seq(Queries) /\ Len(order) = Cardinality(Cached)
    BY Functions DEF IInv, Lifecycle
  <2>2. /\ DOMAIN order' = DOMAIN order \cup {Len(order) + 1} /\ order'[Len(order) + 1] = q
        /\ \A i \in DOMAIN order : order'[i] = order[i] /\ i # Len(order) + 1
        /\ Len(order') = Len(order) + 1 /\ Len(order) \in Nat
    BY <1>0, <1>1, <2>1
  <2>3. Len(order) < MaxSize
    <3>1. order = <<>> => Len(order) = 0
      OBVIOUS
    <3>2. QED BY <1>1, <2>1, <2>2, <3>1, CacheAssumption DEF HasNoRoom
  <2>4. \A i \in DOMAIN order : order[i] # q
    BY <1>4 DEF IInv, OrderMatchesItems
  <2>5. {order'[i] : i \in DOMAIN order'} = Cached'
    BY <1>7, <2>2 DEF IInv, OrderMatchesItems
  <2>6. \A i, j \in DOMAIN order' : order'[i] = order'[j] => i = j
    BY <2>2, <2>4 DEF IInv, OrderMatchesItems
  <2>7. Len(order') <= MaxSize
    BY <2>2, <2>3, CacheAssumption
  <2>8. QED BY <1>9, <2>1, <2>2, <2>5, <2>6, <2>7 DEF OrderMatchesItems
<1>11. ClosedOnce'
  <2>1. \A p \in Cached' : p = q \/ (p \in Cached /\ items'[p] = items[p] /\ items[p] # t)
    BY <1>3, <1>4, <1>7 DEF Cached, CachedStmts
  <2>2. \A p, r \in Cached' : items'[p] = items'[r] => p = r
    <3> SUFFICES ASSUME NEW p \in Cached', NEW r \in Cached', items'[p] = items'[r] PROVE p = r
      BY Zenon
    <3>1. CASE p = q \/ r = q
      BY ZenonT(30), <1>3, <2>1, <3>1
    <3>2. CASE p # q /\ r # q
      <4>1. p \in Cached /\ r \in Cached /\ items[p] = items[r]
        BY Zenon, <2>1, <3>2
      <4>2. QED BY Zenon, <4>1 DEF IInv, ClosedOnce
    <3>3. QED BY Zenon, <3>1, <3>2
  <2>3. \A s \in (CachedStmts \cup doomed)' : state'[s] = "open"
    BY <1>1, <1>4, <1>8 DEF IInv, ClosedOnce
  <2>4. (CachedStmts \cap doomed)' = {}
    BY <1>1, <1>4, <1>8 DEF IInv, ClosedOnce
  <2>5. \A v \in Workers : spare'[v] # NoStmt => v # w /\ spare'[v] = spare[v] /\ spare[v] # t
    BY <1>2, <1>4
  <2>6. \A v \in Workers : pc'[v] = "closing" =>
           v # w /\ pc[v] = "closing" /\ stmt'[v] = stmt[v] /\ stmt[v] # t
    BY <1>2, <1>4
  <2>7. \A v \in Workers : spare'[v] # NoStmt =>
           /\ state'[spare'[v]] = "open" /\ spare'[v] \notin (CachedStmts \cup doomed)'
           /\ \A u \in Workers : spare'[u] = spare'[v] => u = v
    <3> SUFFICES ASSUME NEW v \in Workers, spare'[v] # NoStmt
                 PROVE  /\ state'[spare'[v]] = "open" /\ spare'[v] \notin (CachedStmts \cup doomed)'
                        /\ \A u \in Workers : spare'[u] = spare'[v] => u = v
      OBVIOUS
    <3>1. /\ state[spare[v]] = "open" /\ spare[v] \notin CachedStmts \cup doomed
          /\ \A u \in Workers : spare[u] = spare[v] => u = v
      BY <2>5, OwnSpare DEF IInv
    <3>2. \A u \in Workers : spare'[u] # NoStmt => spare'[u] = spare[u]
      BY <2>5
    <3>3. spare[v] \notin (CachedStmts \cup doomed)' /\ state' = state
      BY <1>1, <1>8, <2>5, <3>1
    <3>4. QED BY ZenonT(30), <2>5, <3>1, <3>2, <3>3
  <2>8. \A v \in Workers : pc'[v] = "closing" =>
           /\ state'[stmt'[v]] = "open" /\ stmt'[v] \notin (CachedStmts \cup doomed)'
           /\ \A u \in Workers : stmt'[u] = stmt'[v] => u = v
    <3> SUFFICES ASSUME NEW v \in Workers, pc'[v] = "closing"
                 PROVE  /\ state'[stmt'[v]] = "open" /\ stmt'[v] \notin (CachedStmts \cup doomed)'
                        /\ \A u \in Workers : stmt'[u] = stmt'[v] => u = v
      OBVIOUS
    <3>1. /\ state[stmt[v]] = "open" /\ stmt[v] \notin CachedStmts \cup doomed
          /\ \A u \in Workers : stmt[u] = stmt[v] => u = v
      BY ZenonT(30), <2>6, OwnClosing DEF IInv
    <3>2. \A u \in Workers : u # w => stmt'[u] = stmt[u]
      BY <1>2
    <3>3. stmt[v] \notin (CachedStmts \cup doomed)' /\ state' = state
      BY <1>1, <1>8, <2>6, <3>1
    <3>4. QED BY <1>2, <2>6, <3>1, <3>2, <3>3
  <2>9. QED BY <2>2, <2>3, <2>4, <2>7, <2>8 DEF ClosedOnce
<1>12. NoLeak'
  <2> SUFFICES ASSUME NEW s \in Stmts, state'[s] = "open" PROVE NoLeak!(s)'
    BY DEF NoLeak
  <2>1. CASE s = t
    BY ZenonT(30), <1>8, <2>1
  <2>2. CASE s # t
    <3>1. \A v \in Workers : /\ spare[v] = s => spare'[v] = s
                             /\ pc[v] = "closing" => pc'[v] = "closing" /\ stmt'[v] = stmt[v]
      BY <1>0, <1>2, <2>2
    <3>2. s \in CachedStmts \cup doomed => s \in (CachedStmts \cup doomed)'
      BY <1>1, <1>8
    <3>3. NoLeak!(s)
      BY <1>1 DEF IInv, NoLeak
    <3>4. QED BY ZenonT(30), <1>1, <1>5, <2>2, <3>1, <3>2, <3>3
  <2>3. QED BY <2>1, <2>2
<1>13. Lifecycle'
  <2>1. \A s \in Stmts :
          /\ evicted'[s] => s # t /\ state'[s] # "unborn" /\ s \notin (CachedStmts \cup doomed)'
          /\ evicted'[s] /\ Holders(s)' # {} => state'[s] = "open"
          /\ state'[s] = "unborn" => \A v \in Workers : stmt'[v] # s
    <3> SUFFICES ASSUME NEW s \in Stmts
                 PROVE  /\ evicted'[s] => s # t /\ state'[s] # "unborn" /\ s \notin (CachedStmts \cup doomed)'
                        /\ evicted'[s] /\ Holders(s)' # {} => state'[s] = "open"
                        /\ state'[s] = "unborn" => \A v \in Workers : stmt'[v] # s
      OBVIOUS
    <3>1. /\ evicted[s] => state[s] # "unborn" /\ s \notin CachedStmts \cup doomed
          /\ evicted[s] /\ Holders(s) # {} => state[s] = "open"
          /\ state[s] = "unborn" => \A v \in Workers : stmt[v] # s
      BY DEF IInv, Lifecycle
    <3>2. ~evicted'[t] /\ evicted' = evicted /\ state' = state /\ state[t] # "unborn"
      BY <1>1, <1>4
    <3>3. CASE s = t
      BY <3>2, <3>3
    <3>4. CASE s # t
      <4>1. Holders(s)' = Holders(s)
        BY <1>5, <3>4
      <4>2. \A v \in Workers : stmt'[v] = stmt[v] \/ stmt'[v] = t
        BY <1>2
      <4>3. s \in (CachedStmts \cup doomed)' => s \in CachedStmts \cup doomed
        BY <1>1, <1>8, <3>4
      <4>4. QED BY <3>1, <3>2, <3>4, <4>1, <4>2, <4>3
    <3>5. QED BY <3>3, <3>4
  <2>2. \A v \in Workers : spare'[v] # NoStmt =>
           ~evicted'[spare'[v]] /\ \A u \in Workers : stmt'[u] # spare'[v]
    <3>1. \A v \in Workers : spare'[v] # NoStmt => spare'[v] = spare[v] /\ spare[v] # t
      BY <1>2, <1>4
    <3>2. \A u \in Workers : stmt'[u] = stmt[u] \/ stmt'[u] = t
      BY ZenonT(30), <1>2
    <3>3. QED BY <1>1, <3>1, <3>2 DEF IInv, Lifecycle
  <2>3. \A v \in Workers : pc'[v] = "inserting" => FALSE
    BY <1>0, <1>2, MutexHeld DEF IInv
  <2>4. QED BY <1>10, <2>1, <2>2, <2>3 DEF Lifecycle
<1>14. QED BY <1>6, <1>10, <1>11, <1>12, <1>13 DEF IInv

\* EvictOldest keeps the inductive invariant: an entry without holders is closed
\* on the spot, one with holders is marked for the last of them.
LEMMA EvictOldestStep ==
  ASSUME IInv, TypeOK', NEW w \in Workers, EvictOldest(w)
  PROVE  IInv'
<1>0. /\ order # <<>> /\ order' = Tail(order) /\ pc[w] = "inserting"
      /\ UNCHANGED <<refs, mu, pc, query, stmt, spare, doomed>>
  BY DEF EvictOldest, HasNoRoom
<1>1. /\ order \in Seq(Queries) /\ Len(order) = Cardinality(Cached)
      /\ Head(order) = order[1] /\ 1 \in DOMAIN order /\ order[1] \in Queries
  <2>1. order \in Seq(Queries) /\ Len(order) = Cardinality(Cached)
    BY Functions DEF IInv, Lifecycle
  <2>2. QED BY <1>0, <2>1
<1>2. PICK q \in Queries : q = Head(order) /\ q = order[1] /\ q \in Cached
  BY ZenonT(30), <1>1 DEF IInv, OrderMatchesItems
<1>3. PICK t \in Stmts : t = items[q] /\ t # NoStmt /\ t \in CachedStmts
  <2>1. items[q] # NoStmt /\ items[q] \in CachedStmts
    BY Zenon, <1>2 DEF Cached, CachedStmts
  <2>2. items[q] \in Stmts \cup {NoStmt}
    BY <1>2, Functions DEF IInv
  <2>3. QED BY Zenon, <2>1, <2>2
<1>4. items' = [items EXCEPT ![q] = NoStmt]
  BY <1>2, <1>3, Zenon DEF EvictOldest
<1>5. \/ refs[t] <= 0 /\ state' = [state EXCEPT ![t] = "closed"] /\ evicted' = evicted
      \/ ~(refs[t] <= 0) /\ evicted' = [evicted EXCEPT ![t] = TRUE] /\ state' = state
  BY <1>2, <1>3, Zenon DEF EvictOldest
<1>6. items'[q] = NoStmt /\ \A p \in Queries : p # q => items'[p] = items[p]
  BY <1>4, Functions DEF IInv
<1>7. \A s \in Stmts : Holders(s)' = Holders(s)
  BY <1>0 DEF Holders
<1>8. RefsCountHolders'
  BY <1>0, <1>7, SameHolders DEF IInv
<1>9. Cached' = Cached \ {q}
  BY <1>6 DEF Cached
<1>10. CachedStmts' = CachedStmts \ {t}
  <2>1. \A p \in Cached : p # q => items'[p] = items[p] /\ items[p] # t
    BY <1>2, <1>3, <1>6 DEF IInv, ClosedOnce, Cached
  <2>2. QED BY <1>3, <1>9, <2>1 DEF CachedStmts
<1>11. Cardinality(Cached') = Cardinality(Cached) - 1
  BY Zenon, <1>2, <1>9, CachedFinite, FS_RemoveElement DEF IInv
<1>12. OrderMatchesItems' /\ Len(order') = Cardinality(Cached')
  <2>1. /\ Len(order') = Len(order) - 1 /\ Len(order) \in Nat
        /\ DOMAIN order' = 1..(Len(order) - 1) /\ DOMAIN order = 1..Len(order)
        /\ \A i \in DOMAIN order' : order'[i] = order[i + 1]
    BY <1>0, <1>1
  <2>2. \A i \in DOMAIN order' : i + 1 \in DOMAIN order /\ i \in Int /\ i + 1 # 1
    BY <2>1
  <2>3. \A i \in DOMAIN order' : order'[i] # q
    BY <1>1, <1>2, <2>1, <2>2 DEF IInv, OrderMatchesItems
  <2>4. \A i \in DOMAIN order : order[i] # q => i - 1 \in DOMAIN order' /\ order'[i - 1] = order[i]
    BY <1>2, <2>1
  <2>5. {order'[i] : i \in DOMAIN order'} = {order[i] : i \in DOMAIN order} \ {q}
    BY <2>1, <2>2, <2>3, <2>4
  <2>6. \A i, j \in DOMAIN order' : order'[i] = order'[j] => i = j
    <3> SUFFICES ASSUME NEW i \in DOMAIN order', NEW j \in DOMAIN order', order'[i] = order'[j]
                 PROVE  i = j
      BY Zenon
    <3>1. order[i + 1] = order[j + 1]
      BY Zenon, <2>1
    <3>2. i + 1 = j + 1
      BY ZenonT(30), <2>2, <3>1 DEF IInv, OrderMatchesItems
    <3>3. QED BY <2>2, <3>2
  <2>7. Len(order') = Cardinality(Cached') /\ Len(order') <= MaxSize
    <3>1. Len(order') = Cardinality(Cached')
      BY <1>1, <1>11, <2>1
    <3>2. Len(order) <= MaxSize
      BY Zenon DEF IInv, OrderMatchesItems
    <3>3. QED BY <2>1, <3>1, <3>2, CacheAssumption
  <2>8. QED BY Zenon, <1>9, <2>5, <2>6, <2>7 DEF IInv, OrderMatchesItems
<1>13. /\ state[t] = "open" /\ t \notin doomed /\ ~evicted[t]
       /\ \A v \in Workers : spare[v] # t /\ (pc[v] = "closing" => stmt[v] # t)
  BY <1>3 DEF IInv, ClosedOnce, Lifecycle
<1>14. /\ refs[t] <= 0 <=> Holders(t) = {}
       /\ refs[t] \in Int
  BY HoldersFinite, Functions DEF IInv, RefsCountHolders
<1>15. /\ \A s \in Stmts : s # t => state'[s] = state[s] /\ evicted'[s] = evicted[s]
       /\ \/ Holders(t) = {} /\ state'[t] = "closed" /\ ~evicted'[t]
          \/ Holders(t) # {} /\ state'[t] = "open" /\ evicted'[t]
  <2>1. CASE refs[t] <= 0 /\ state' = [state EXCEPT ![t] = "closed"] /\ evicted' = evicted
    BY <1>13, <1>14, <2>1, Functions DEF IInv
  <2>2. CASE ~(refs[t] <= 0) /\ evicted' = [evicted EXCEPT ![t] = TRUE] /\ state' = state
    BY ZenonT(30), <1>13, <1>14, <2>2, Functions DEF IInv
  <2>3. QED BY <1>5, <2>1, <2>2
<1>16. ClosedOnce'
  <2>1. \A p, r \in Cached' : items'[p] = items'[r] => p = r
    BY ZenonT(30), <1>6, <1>9 DEF IInv, ClosedOnce, Cached
  <2>2. \A s \in (CachedStmts \cup doomed)' : s \in Stmts /\ s # t /\ s \in CachedStmts \cup doomed
    BY <1>0, <1>10, <1>13, Ranges DEF IInv
  <2>3. \A s \in (CachedStmts \cup doomed)' : state'[s] = "open"
    BY ZenonT(30), <1>15, <2>2 DEF IInv, ClosedOnce
  <2>4. (CachedStmts \cap doomed)' = {}
    BY ZenonT(30), <1>0, <1>10 DEF IInv, ClosedOnce
  <2>5. \A v \in Workers : /\ spare[v] # NoStmt => state'[spare[v]] = "open"
                           /\ pc[v] = "closing" => state'[stmt[v]] = "open"
    BY <1>13, <1>15, Ranges DEF IInv, ClosedOnce
  <2>6. \A v \in Workers :
          /\ spare[v] # NoStmt => /\ spare[v] \notin (CachedStmts \cup doomed)'
                                 /\ \A u \in Workers : spare[u] = spare[v] => u = v
          /\ pc[v] = "closing" => /\ stmt[v] \notin (CachedStmts \cup doomed)'
                                  /\ \A u \in Workers : stmt[u] = stmt[v] => u = v
    BY ZenonT(30), <2>2, OwnSpare, OwnClosing DEF IInv
  <2>7. UNCHANGED <<spare, pc, stmt>>
    BY <1>0
  <2>8. QED BY ZenonT(30), <2>1, <2>3, <2>4, <2>5, <2>6, <2>7 DEF ClosedOnce
<1>17. NoLeak'
  <2> SUFFICES ASSUME NEW s \in Stmts, state'[s] = "open" PROVE NoLeak!(s)'
    BY DEF NoLeak
  <2>1. CASE s = t
    BY <1>7, <1>15, <2>1
  <2>2. CASE s # t
    <3>1. NoLeak!(s)
      BY Zenon, <1>15, <2>2 DEF IInv, NoLeak
    <3>2. QED BY <1>0, <1>7, <1>10, <1>15, <2>2, <3>1
  <2>3. QED BY ZenonT(30), <2>1, <2>2
<1>18. Lifecycle'
  <2>1. \A s \in Stmts :
          /\ evicted'[s] => state'[s] # "unborn" /\ s \notin (CachedStmts \cup doomed)'
          /\ evicted'[s] /\ Holders(s)' # {} => state'[s] = "open"
          /\ state'[s] = "unborn" => \A v \in Workers : stmt'[v] # s
    BY ZenonT(30), <1>0, <1>7, <1>10, <1>13, <1>15 DEF IInv, Lifecycle
  <2>2. \A v \in Workers : spare'[v] # NoStmt =>
           ~evicted'[spare'[v]] /\ \A u \in Workers : stmt'[u] # spare'[v]
    BY <1>0, <1>13, <1>15, Ranges DEF IInv, Lifecycle
  <2>3. \A v \in Workers : pc'[v] = "inserting" => query'[v] \notin Cached'
    BY Zenon, <1>0, <1>9 DEF IInv, Lifecycle
  <2>4. QED BY Zenon, <1>12, <2>1, <2>2, <2>3 DEF Lifecycle
<1>19. QED BY <1>8, <1>12, <1>16, <1>17, <1>18 DEF IInv

\* CloseCache keeps the inductive invariant: the entries move to close() as they are.
LEMMA CloseCacheStep ==
  ASSUME IInv, TypeOK', CloseCache PROVE IInv'
<1>0. /\ doomed = {} /\ doomed' = CachedStmts /\ order' = <<>>
      /\ UNCHANGED <<refs, evicted, state, mu, pc, query, stmt, spare>>
      /\ \A q \in Queries : items'[q] = NoStmt
  BY DEF CloseCache
<1>1. \A s \in Stmts : Holders(s)' = Holders(s)
  BY <1>0 DEF Holders
<1>2. RefsCountHolders'
  BY <1>0, <1>1, SameHolders DEF IInv
<1>3. Cached' = {} /\ CachedStmts' = {}
  BY <1>0 DEF Cached, CachedStmts
<1>4. OrderMatchesItems' /\ Len(order') = Cardinality(Cached')
  <2>1. Cardinality(Cached') = 0
    BY <1>3, FS_EmptySet
  <2>2. DOMAIN order' = {} /\ Len(order') = 0
    BY <1>0
  <2>3. QED BY <1>3, <2>1, <2>2, CacheAssumption DEF OrderMatchesItems
<1>5. (CachedStmts \cup doomed)' = CachedStmts \cup doomed
  BY <1>0, <1>3
<1>6. ClosedOnce'
  BY ZenonT(30), <1>0, <1>3, <1>5 DEF IInv, ClosedOnce
<1>7. NoLeak'
  BY <1>0, <1>1, <1>5 DEF IInv, NoLeak
<1>8. Lifecycle'
  BY <1>0, <1>1, <1>3, <1>4, <1>5 DEF IInv, Lifecycle
<1>9. QED BY <1>2, <1>4, <1>6, <1>7, <1>8 DEF IInv

\* CloseDoomed keeps the inductive invariant.
LEMMA CloseDoomedStep ==
  ASSUME IInv, TypeOK', CloseDoomed PROVE IInv'
<1>0. PICK t \in doomed : /\ state' = [state EXCEPT ![t] = "closed"] /\ doomed' = doomed \ {t}
                          /\ UNCHANGED <<items, order, refs, evicted, mu, pc, query, stmt, spare>>
  BY ZenonT(30) DEF CloseDoomed
<1>1. \A s \in Stmts : Holders(s)' = Holders(s)
  BY <1>0 DEF Holders
<1>2. RefsCountHolders'
  BY <1>0, <1>1, SameHolders DEF IInv
<1>3. OrderMatchesItems' /\ Cached' = Cached /\ CachedStmts' = CachedStmts
  BY <1>0, SameItems DEF IInv
<1>4. t \in Stmts /\ state'[t] = "closed" /\ \A s \in Stmts : s # t => state'[s] = state[s]
  BY <1>0, Ranges, Functions DEF IInv
<1>5. /\ t \notin CachedStmts /\ state[t] = "open" /\ ~evicted[t] /\ t # NoStmt
      /\ \A v \in Workers : spare[v] # t /\ (pc[v] = "closing" => stmt[v] # t)
  <2>1. t \in CachedStmts \cup doomed /\ t # NoStmt
    BY <1>0, <1>4, CacheAssumption
  <2>2. ~evicted[t]
    BY ZenonT(30), <1>4, <2>1 DEF IInv, Lifecycle
  <2>3. QED BY <1>0, <2>1, <2>2 DEF IInv, ClosedOnce
<1>6. \A s \in (CachedStmts \cup doomed)' : s \in Stmts /\ s # t /\ s \in CachedStmts \cup doomed
  BY ZenonT(30), <1>0, <1>3, <1>5, Ranges DEF IInv
<1>7. ClosedOnce'
  <2>1. \A s \in (CachedStmts \cup doomed)' : state'[s] = "open"
    BY <1>4, <1>6 DEF IInv, ClosedOnce
  <2>2. \A v \in Workers : /\ spare[v] # NoStmt => state'[spare[v]] = "open"
                           /\ pc[v] = "closing" => state'[stmt[v]] = "open"
    <3>1. \A v \in Workers : /\ spare[v] # NoStmt => spare[v] \in Stmts \ {t}
                             /\ pc[v] = "closing" => stmt[v] \in Stmts \ {t}
      BY <1>5, Ranges DEF IInv
    <3>2. QED BY <1>4, <3>1 DEF IInv, ClosedOnce
  <2>3. (CachedStmts \cap doomed)' = {}
    BY <1>0, <1>3 DEF IInv, ClosedOnce
  <2>4. \A v \in Workers :
          /\ spare[v] # NoStmt => spare[v] \notin (CachedStmts \cup doomed)'
          /\ pc[v] = "closing" => stmt[v] \notin (CachedStmts \cup doomed)'
    BY <1>6 DEF IInv, ClosedOnce
  <2>5. \A p, q \in Cached' : items'[p] = items'[q] => p = q
    BY Zenon, <1>0, <1>3 DEF IInv, ClosedOnce
  <2>6. \A v \in Workers : /\ spare[v] # NoStmt => \A u \in Workers : spare[u] = spare[v] => u = v
                           /\ pc[v] = "closing" => \A u \in Workers : stmt[u] = stmt[v] => u = v
    BY Zenon DEF IInv, ClosedOnce
  <2>7. UNCHANGED <<spare, pc, stmt>>
    BY <1>0
  <2>8. QED BY ZenonT(30), <2>1, <2>2, <2>3, <2>4, <2>5, <2>6, <2>7 DEF ClosedOnce
<1>8. NoLeak'
  <2> SUFFICES ASSUME NEW s \in Stmts, state'[s] = "open" PROVE NoLeak!(s)'
    BY ZenonT(30) DEF NoLeak
  <2>1. s # t /\ state[s] = "open" /\ NoLeak!(s)
    BY ZenonT(30), <1>4 DEF IInv, NoLeak
  <2>2. s \in CachedStmts \cup doomed => s \in (CachedStmts \cup doomed)'
    BY <1>0, <1>3, <2>1
  <2>3. /\ evicted' = evicted /\ Holders(s)' = Holders(s)
        /\ \A v \in Workers : spare'[v] = spare[v] /\ pc'[v] = pc[v] /\ stmt'[v] = stmt[v]
    BY <1>0, <1>1
  <2>4. CASE s \in CachedStmts \cup doomed
    BY Zenon, <2>2, <2>4
  <2>5. CASE \E v \in Workers : spare[v] = s \/ (pc[v] = "closing" /\ stmt[v] = s)
    BY Zenon, <2>3, <2>5
  <2>6. CASE evicted[s] /\ Holders(s) # {}
    BY Zenon, <2>3, <2>6
  <2>7. QED BY Zenon, <2>1, <2>4, <2>5, <2>6
<1>9. Lifecycle'
  <2>1. \A s \in Stmts :
          /\ evicted'[s] => state'[s] # "unborn" /\ s \notin (CachedStmts \cup doomed)'
          /\ evicted'[s] /\ Holders(s)' # {} => state'[s] = "open"
          /\ state'[s] = "unborn" => \A v \in Workers : stmt'[v] # s
    BY <1>0, <1>1, <1>4, <1>5, <1>6 DEF IInv, Lifecycle
  <2>2. QED BY ZenonT(30), <1>0, <1>3, <2>1 DEF IInv, Lifecycle
<1>10. QED BY <1>2, <1>3, <1>7, <1>8, <1>9 DEF IInv

\* Every step of the cache keeps the inductive invariant.
LEMMA InvStep == IInv /\ [Next]_vars => IInv'
<1> SUFFICES ASSUME IInv, [Next]_vars PROVE IInv'
  OBVIOUS
<1>1. TypeOK'
  BY TypeStep DEF IInv
<1>2. ASSUME NEW w \in Workers, Start(w) PROVE IInv'
  BY <1>1, <1>2, AcquireHitStep, AcquireMissStep DEF Start
<1>3. ASSUME NEW w \in Workers, Locked(w) PROVE IInv'
  BY <1>1, <1>3, LoseRaceStep, LockToInsertStep, ReleaseStep DEF Locked
<1>4. ASSUME NEW w \in Workers, Unlocked(w) PROVE IInv'
  BY <1>1, <1>4, PrepareStep, PrepareFailsStep, CloseSpareStep, EvictOldestStep,
     InsertStep, CloseReleasedStep DEF Unlocked
<1>5. CASE CloseCache
  BY <1>1, <1>5, CloseCacheStep
<1>6. CASE CloseDoomed
  BY <1>1, <1>6, CloseDoomedStep
<1>7. CASE UNCHANGED vars
  <2>1. \A s \in Stmts : Holders(s)' = Holders(s)
    BY ZenonT(30), <1>7 DEF vars, Holders
  <2>2. \A v \in Workers : /\ pc'[v] = "closing" <=> pc[v] = "closing"
                           /\ pc'[v] = "inserting" => query'[v] \notin Cached
    BY <1>7 DEF vars, IInv, Lifecycle
  <2>3. QED BY <1>1, <1>7, <2>1, <2>2, Frame DEF vars
<1>8. QED
  BY <1>2, <1>3, <1>4, <1>5, <1>6, <1>7 DEF Next

\* The empty cache satisfies the inductive invariant.
LEMMA InvInit == Init => IInv
<1> SUFFICES ASSUME Init PROVE IInv
  OBVIOUS
<1> USE CacheAssumption DEF Init
<1>1. TypeOK
  BY DEF TypeOK, Pcs
<1>2. Cached = {} /\ CachedStmts = {} /\ \A s \in Stmts : Holders(s) = {}
  BY DEF Cached, CachedStmts, Holders
<1>3. RefsCountHolders
  BY Zenon, <1>2, FS_EmptySet DEF RefsCountHolders
<1>4. OrderMatchesItems /\ Len(order) = Cardinality(Cached)
  BY <1>2, FS_EmptySet DEF OrderMatchesItems
<1>5. ClosedOnce /\ NoLeak
  BY <1>2 DEF ClosedOnce, NoLeak
<1>6. Lifecycle
  BY <1>1, <1>2, <1>4 DEF Lifecycle, TypeOK
<1>7. QED BY <1>1, <1>3, <1>4, <1>5, <1>6 DEF IInv

\* Whatever the goroutines and close() do: reference counts are exact, the cache
\* stays bounded and consistent with its FIFO order, no statement is closed twice
\* and none leaks.
THEOREM CacheSafe ==
  Spec => [](RefsCountHolders /\ OrderMatchesItems /\ ClosedOnce /\ NoLeak /\ Lifecycle)
<1>1. IInv => RefsCountHolders /\ OrderMatchesItems /\ ClosedOnce /\ NoLeak /\ Lifecycle
  BY DEF IInv
<1>2. QED BY <1>1, InvInit, InvStep, PTL DEF Spec

\* Reference counts are exact in every state (acquire, release).
THEOREM RefsExact == Spec => []RefsCountHolders
BY CacheSafe, PTL

\* The eviction order lists exactly the cached queries and never exceeds maxSize
\* (removeFromOrder and the eviction loop of acquire).
THEOREM OrderExact == Spec => []OrderMatchesItems
BY CacheSafe, PTL

\* No statement is closed twice, whichever of acquire, release and close gets to
\* it first.
THEOREM NoDoubleClose == Spec => []ClosedOnce
BY CacheSafe, PTL

\* Every open statement can still be reached by someone who will close it.
THEOREM NothingLeaked == Spec => []NoLeak
BY CacheSafe, PTL

\* Neither eviction nor a release ever closes a statement that a goroutine is
\* executing; only close() does.
THEOREM InFlightSafe == Spec => InFlightClosedOnlyByClose
<1> DEFINE Safe == \A s \in Stmts :
     (state[s] = "open" /\ state'[s] = "closed" /\ Holders(s) # {}) => s \in doomed
<1>1. ASSUME IInv, [Next]_vars PROVE [Safe]_vars
  <2> SUFFICES ASSUME NEW s \in Stmts, state[s] = "open", state'[s] = "closed",
                      Holders(s) # {}
               PROVE  s \in doomed
    OBVIOUS
  <2> USE <1>1, CacheAssumption DEF IInv
  <2>1. ASSUME NEW w \in Workers, Start(w) PROVE FALSE
    BY ZenonT(30), <2>1 DEF Start, AcquireHit, AcquireMiss
  <2>2. ASSUME NEW w \in Workers, Locked(w) PROVE FALSE
    BY <2>2 DEF Locked, LoseRace, LockToInsert, Release
  <2>3. ASSUME NEW w \in Workers, CloseSpare(w) PROVE FALSE
    <3>1. spare[w] # NoStmt /\ state' = [state EXCEPT ![spare[w]] = "closed"]
      BY ZenonT(30), <2>3, Holding DEF CloseSpare
    <3>2. s = spare[w]
      BY <3>1, Functions
    <3>3. \A v \in Workers : stmt[v] # s
      BY Zenon, <3>1, <3>2 DEF Lifecycle
    <3>4. QED BY <3>3 DEF Holders
  <2>4. ASSUME NEW w \in Workers, CloseReleased(w) PROVE FALSE
    <3>1. pc[w] = "closing" /\ state' = [state EXCEPT ![stmt[w]] = "closed"]
      BY <2>4 DEF CloseReleased
    <3>2. s = stmt[w]
      BY <3>1, Functions
    <3>3. \A v \in Workers : stmt[v] = s => v = w
      BY <3>1, <3>2, OwnClosing
    <3>4. QED BY <3>1, <3>3 DEF Holders
  <2>5. ASSUME NEW w \in Workers, EvictOldest(w) PROVE FALSE
    <3>1. refs[s] > 0
      <4>1. refs[s] = Cardinality(Holders(s))
        BY Zenon DEF RefsCountHolders
      <4>2. QED BY <4>1, HoldersFinite
    <3>2. \/ state' = state
          \/ /\ refs[items[Head(order)]] <= 0
             /\ state' = [state EXCEPT ![items[Head(order)]] = "closed"]
      BY <2>5, Zenon DEF EvictOldest
    <3>3. QED BY <3>1, <3>2 DEF TypeOK
  <2>6. ASSUME NEW w \in Workers, Prepare(w) \/ PrepareFails(w) \/ Insert(w) PROVE FALSE
    BY <2>6 DEF Prepare, PrepareFails, Insert, TypeOK
  <2>7. CASE CloseCache
    BY <2>7 DEF CloseCache
  <2>8. CASE CloseDoomed
    BY <2>8 DEF CloseDoomed, TypeOK
  <2>9. CASE UNCHANGED vars
    BY <2>9 DEF vars
  <2>10. QED
    BY <2>1, <2>2, <2>3, <2>4, <2>5, <2>6, <2>7, <2>8, <2>9 DEF Next, Unlocked
<1>2. QED BY <1>1, InvInit, InvStep, PTL DEF Spec, InFlightClosedOnlyByClose
=============================================================================
