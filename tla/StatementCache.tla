--------------------------- MODULE StatementCache ---------------------------
(* The bounded FIFO cache of prepared statements kept per *sql.DB handle      *)
(* (statement_cache.go), driven by the goroutines that run SQL through it     *)
(* (sql_runner.go) and by the goroutine that closes the connection            *)
(* (connection.go).  Every critical section of cache.mu is one action, except *)
(* that evictLocked's loop takes one action per iteration while the lock is   *)
(* held.  What happens outside the lock (PrepareContext, Stmt.Close) is an    *)
(* action of its own, so other goroutines run in between.                     *)
EXTENDS Integers, Sequences, FiniteSets

CONSTANTS
  Workers,   \* goroutines issuing statements with arguments
  Queries,   \* distinct SQL texts
  Stmts,     \* identities of the *sql.Stmt values PrepareContext may return
  MaxSize,   \* maxSize of the cache (newStatementCache disables it when <= 0)
  NoStmt,    \* no statement
  NoWorker   \* cache.mu is free

ASSUME CacheAssumption ==
  /\ IsFiniteSet(Workers) /\ IsFiniteSet(Queries)
  /\ MaxSize \in Nat \ {0}
  /\ NoStmt \notin Stmts /\ NoWorker \notin Workers

VARIABLES
  items,    \* cache.items: the statement cached for a query, or NoStmt
  order,    \* cache.order
  refs,     \* entry.refs, by the entry's statement
  evicted,  \* entry.evicted, by the entry's statement
  state,    \* of each statement: "unborn", "open" or "closed"
  mu,       \* holder of cache.mu while evictLocked runs, else NoWorker
  pc,       \* where each goroutine is in acquire / use / release
  query,    \* the SQL text each goroutine runs
  stmt,     \* the statement acquire returned to the goroutine
  spare,    \* the statement the goroutine prepared and has not cached
  doomed    \* entries close() has taken out of the cache and not closed yet

vars == <<items, order, refs, evicted, state, mu, pc, query, stmt, spare, doomed>>

Pcs == {"idle", "preparing", "prepared", "inserting", "losing", "using", "closing"}

Cached == {q \in Queries : items[q] # NoStmt}
CachedStmts == {items[q] : q \in Cached}

\* The goroutines that will still run the releaser of statement s.
Holders(s) == {w \in Workers : pc[w] \in {"losing", "using"} /\ stmt[w] = s}

Init ==
  /\ items = [q \in Queries |-> NoStmt]
  /\ order = <<>>
  /\ refs = [s \in Stmts |-> 0]
  /\ evicted = [s \in Stmts |-> FALSE]
  /\ state = [s \in Stmts |-> "unborn"]
  /\ mu = NoWorker
  /\ pc = [w \in Workers |-> "idle"]
  /\ query \in [Workers -> Queries]
  /\ stmt = [w \in Workers |-> NoStmt]
  /\ spare = [w \in Workers |-> NoStmt]
  /\ doomed = {}

-----------------------------------------------------------------------------
(* acquire *)

\* A bug: a hit does not count its user.
AcquireHitUncounted(w, q) ==
  /\ pc[w] = "idle" /\ mu = NoWorker /\ q \in Cached
  /\ stmt' = [stmt EXCEPT ![w] = items[q]]
  /\ query' = [query EXCEPT ![w] = q]
  /\ pc' = [pc EXCEPT ![w] = "using"]
  /\ UNCHANGED <<items, order, refs, evicted, state, mu, spare, doomed>>

\* The first critical section finds the query: lines 45-50.
AcquireHit(w, q) ==
  /\ pc[w] = "idle" /\ mu = NoWorker /\ q \in Cached
  /\ refs' = [refs EXCEPT ![items[q]] = @ + 1]
  /\ stmt' = [stmt EXCEPT ![w] = items[q]]
  /\ query' = [query EXCEPT ![w] = q]
  /\ pc' = [pc EXCEPT ![w] = "using"]
  /\ UNCHANGED <<items, order, evicted, state, mu, spare, doomed>>

\* The first critical section does not find it: lines 45-51.
AcquireMiss(w, q) ==
  /\ pc[w] = "idle" /\ mu = NoWorker /\ q \notin Cached
  /\ query' = [query EXCEPT ![w] = q]
  /\ pc' = [pc EXCEPT ![w] = "preparing"]
  /\ UNCHANGED <<items, order, refs, evicted, state, mu, stmt, spare, doomed>>

\* PrepareContext, outside the lock, returns a new statement: line 53.
Prepare(w) ==
  /\ pc[w] = "preparing"
  /\ \E s \in Stmts :
       /\ state[s] = "unborn"
       /\ state' = [state EXCEPT ![s] = "open"]
       /\ spare' = [spare EXCEPT ![w] = s]
  /\ pc' = [pc EXCEPT ![w] = "prepared"]
  /\ UNCHANGED <<items, order, refs, evicted, mu, query, stmt, doomed>>

\* PrepareContext fails (timeout, SQL error, closed handle): lines 54-56.
PrepareFails(w) ==
  /\ pc[w] = "preparing"
  /\ pc' = [pc EXCEPT ![w] = "idle"]
  /\ UNCHANGED <<items, order, refs, evicted, state, mu, query, stmt, spare, doomed>>

\* The second critical section finds that another goroutine cached the same
\* query while this one was preparing: lines 58-62.
LoseRace(w) ==
  /\ pc[w] = "prepared" /\ mu = NoWorker /\ query[w] \in Cached
  /\ refs' = [refs EXCEPT ![items[query[w]]] = @ + 1]
  /\ stmt' = [stmt EXCEPT ![w] = items[query[w]]]
  /\ pc' = [pc EXCEPT ![w] = "losing"]
  /\ UNCHANGED <<items, order, evicted, state, mu, query, spare, doomed>>

\* A bug: the statement prepared in vain is dropped without closing it.
CloseSpareForgets(w) ==
  /\ pc[w] = "losing"
  /\ spare' = [spare EXCEPT ![w] = NoStmt]
  /\ pc' = [pc EXCEPT ![w] = "using"]
  /\ UNCHANGED <<items, order, refs, evicted, state, mu, query, stmt, doomed>>

\* ... and closes its own statement after unlocking: lines 63-64.
CloseSpare(w) ==
  /\ pc[w] = "losing"
  /\ state' = [state EXCEPT ![spare[w]] = "closed"]
  /\ spare' = [spare EXCEPT ![w] = NoStmt]
  /\ pc' = [pc EXCEPT ![w] = "using"]
  /\ UNCHANGED <<items, order, refs, evicted, mu, query, stmt, doomed>>

\* The second critical section still misses and enters evictLocked: lines 58-67.
LockToInsert(w) ==
  /\ pc[w] = "prepared" /\ mu = NoWorker /\ query[w] \notin Cached
  /\ mu' = w
  /\ pc' = [pc EXCEPT ![w] = "inserting"]
  /\ UNCHANGED <<items, order, refs, evicted, state, query, stmt, spare, doomed>>

\* A bug: the room test is > instead of >=.
HasNoRoomOffByOne == Cardinality(Cached) > MaxSize /\ order # <<>>

\* The loop condition of evictLocked: line 89.
HasNoRoom == Cardinality(Cached) >= MaxSize /\ order # <<>>

\* A bug: the evicted statement is closed even while a goroutine executes it.
EvictOldestInUse(w) ==
  /\ pc[w] = "inserting" /\ mu = w /\ HasNoRoom
  /\ order' = Tail(order)
  /\ LET s == items[Head(order)] IN
       IF s = NoStmt THEN UNCHANGED <<items, evicted, state>>
       ELSE /\ items' = [items EXCEPT ![Head(order)] = NoStmt]
            /\ state' = [state EXCEPT ![s] = "closed"]
            /\ UNCHANGED evicted
  /\ UNCHANGED <<refs, mu, pc, query, stmt, spare, doomed>>

\* A bug: evictLocked waits for the users of the oldest entry with the lock held.
EvictOldestWaits(w) ==
  /\ pc[w] = "inserting" /\ mu = w /\ HasNoRoom
  /\ LET s == items[Head(order)] IN
       IF refs[s] > 0 THEN UNCHANGED <<items, order, state>>
       ELSE /\ order' = Tail(order)
            /\ items' = [items EXCEPT ![Head(order)] = NoStmt]
            /\ state' = [state EXCEPT ![s] = "closed"]
  /\ UNCHANGED <<refs, evicted, mu, pc, query, stmt, spare, doomed>>

\* One iteration of evictLocked: lines 89-102.
EvictOldest(w) ==
  /\ pc[w] = "inserting" /\ mu = w /\ HasNoRoom
  /\ order' = Tail(order)
  /\ LET s == items[Head(order)] IN
       IF s = NoStmt THEN UNCHANGED <<items, evicted, state>>
       ELSE /\ items' = [items EXCEPT ![Head(order)] = NoStmt]
            /\ IF refs[s] <= 0
                 THEN state' = [state EXCEPT ![s] = "closed"] /\ UNCHANGED evicted
                 ELSE evicted' = [evicted EXCEPT ![s] = TRUE] /\ UNCHANGED state
  /\ UNCHANGED <<refs, mu, pc, query, stmt, spare, doomed>>

\* A bug: the insertion returns without unlocking.
InsertHoldingLock(w) ==
  /\ pc[w] = "inserting" /\ mu = w /\ ~HasNoRoom
  /\ items' = [items EXCEPT ![query[w]] = spare[w]]
  /\ order' = Append(order, query[w])
  /\ refs' = [refs EXCEPT ![spare[w]] = 1]
  /\ stmt' = [stmt EXCEPT ![w] = spare[w]]
  /\ spare' = [spare EXCEPT ![w] = NoStmt]
  /\ pc' = [pc EXCEPT ![w] = "using"]
  /\ UNCHANGED <<evicted, state, mu, query, doomed>>

\* The new entry is stored with one reference and the lock released: lines 66-71.
Insert(w) ==
  /\ pc[w] = "inserting" /\ mu = w /\ ~HasNoRoom
  /\ items' = [items EXCEPT ![query[w]] = spare[w]]
  /\ order' = Append(order, query[w])
  /\ refs' = [refs EXCEPT ![spare[w]] = 1]
  /\ stmt' = [stmt EXCEPT ![w] = spare[w]]
  /\ spare' = [spare EXCEPT ![w] = NoStmt]
  /\ mu' = NoWorker
  /\ pc' = [pc EXCEPT ![w] = "using"]
  /\ UNCHANGED <<evicted, state, query, doomed>>

-----------------------------------------------------------------------------
(* releaser, run when the Query / Exec call has returned *)

\* A bug: the test for the last user is off by one.
ReleaseLastMissed(w) ==
  /\ pc[w] = "using" /\ mu = NoWorker
  /\ refs' = [refs EXCEPT ![stmt[w]] = @ - 1]
  /\ IF refs'[stmt[w]] < 0 /\ evicted[stmt[w]]
       THEN pc' = [pc EXCEPT ![w] = "closing"] /\ UNCHANGED stmt
       ELSE pc' = [pc EXCEPT ![w] = "idle"] /\ stmt' = [stmt EXCEPT ![w] = NoStmt]
  /\ UNCHANGED <<items, order, evicted, state, mu, query, spare, doomed>>

\* The critical section of the releaser: lines 76-79.
Release(w) ==
  /\ pc[w] = "using" /\ mu = NoWorker
  /\ refs' = [refs EXCEPT ![stmt[w]] = @ - 1]
  /\ IF refs'[stmt[w]] <= 0 /\ evicted[stmt[w]]
       THEN pc' = [pc EXCEPT ![w] = "closing"] /\ UNCHANGED stmt
       ELSE pc' = [pc EXCEPT ![w] = "idle"] /\ stmt' = [stmt EXCEPT ![w] = NoStmt]
  /\ UNCHANGED <<items, order, evicted, state, mu, query, spare, doomed>>

\* The last releaser closes an evicted statement after unlocking: lines 80-82.
CloseReleased(w) ==
  /\ pc[w] = "closing"
  /\ state' = [state EXCEPT ![stmt[w]] = "closed"]
  /\ stmt' = [stmt EXCEPT ![w] = NoStmt]
  /\ pc' = [pc EXCEPT ![w] = "idle"]
  /\ UNCHANGED <<items, order, refs, evicted, mu, query, spare, doomed>>

-----------------------------------------------------------------------------
(* close(), called by ConnectionManager.Close through closeStatements *)

\* A bug: close() forgets to empty the map, so closed statements stay cached.
CloseCacheKeepsItems ==
  /\ mu = NoWorker /\ doomed = {} /\ Cached # {}
  /\ doomed' = CachedStmts
  /\ UNCHANGED <<items, order, refs, evicted, state, mu, pc, query, stmt, spare>>

\* The critical section of close(): lines 109-116.  An empty cache is a no-op.
CloseCache ==
  /\ mu = NoWorker /\ doomed = {} /\ Cached # {}
  /\ doomed' = CachedStmts
  /\ items' = [q \in Queries |-> NoStmt]
  /\ order' = <<>>
  /\ UNCHANGED <<refs, evicted, state, mu, pc, query, stmt, spare>>

\* The loop that closes the entries outside the lock, in map order: lines 118-126.
CloseDoomed ==
  \E s \in doomed :
    /\ state' = [state EXCEPT ![s] = "closed"]
    /\ doomed' = doomed \ {s}
    /\ UNCHANGED <<items, order, refs, evicted, mu, pc, query, stmt, spare>>

-----------------------------------------------------------------------------
Start(w) == \E q \in Queries : AcquireHit(w, q) \/ AcquireMiss(w, q)

Locked(w) == LoseRace(w) \/ LockToInsert(w) \/ Release(w)

Unlocked(w) ==
  \/ Prepare(w) \/ PrepareFails(w) \/ CloseSpare(w)
  \/ EvictOldest(w) \/ Insert(w) \/ CloseReleased(w)

Next ==
  \/ \E w \in Workers : Start(w) \/ Locked(w) \/ Unlocked(w)
  \/ CloseCache
  \/ CloseDoomed

\* A goroutine that is running is scheduled (weak fairness), its database calls
\* return, and sync.Mutex does not starve a waiter (strong fairness of the steps
\* that take the lock).  Nobody is obliged to issue a query or to call close().
Fairness ==
  /\ \A w \in Workers : WF_vars(Unlocked(w)) /\ SF_vars(Locked(w))
  /\ WF_vars(CloseDoomed)

Spec == Init /\ [][Next]_vars
FairSpec == Spec /\ Fairness

-----------------------------------------------------------------------------
\* Every variable has the type of its Go counterpart; cache.mu is held exactly
\* by the goroutine inside evictLocked, and a goroutine has an uncached or an
\* acquired statement exactly where acquire gives it one.
TypeOK ==
  /\ items \in [Queries -> Stmts \cup {NoStmt}]
  /\ order \in Seq(Queries)
  /\ refs \in [Stmts -> Int]
  /\ evicted \in [Stmts -> BOOLEAN]
  /\ state \in [Stmts -> {"unborn", "open", "closed"}]
  /\ mu \in Workers \cup {NoWorker}
  /\ pc \in [Workers -> Pcs]
  /\ query \in [Workers -> Queries]
  /\ stmt \in [Workers -> Stmts \cup {NoStmt}]
  /\ spare \in [Workers -> Stmts \cup {NoStmt}]
  /\ doomed \in SUBSET Stmts
  /\ \A w \in Workers :
       /\ pc[w] = "inserting" <=> mu = w
       /\ spare[w] # NoStmt <=> pc[w] \in {"prepared", "inserting", "losing"}
       /\ stmt[w] # NoStmt <=> pc[w] \in {"losing", "using", "closing"}

\* entry.refs is exactly the number of goroutines that will run the entry's
\* releaser: no acquire path forgets to count, no release counts twice, even
\* when the entry is evicted or close() empties the cache in between.
RefsCountHolders == \A s \in Stmts : refs[s] = Cardinality(Holders(s))

\* cache.order lists exactly the cached queries, each once, and the cache never
\* holds more than maxSize statements ("bounded FIFO cache").
OrderMatchesItems ==
  /\ {order[i] : i \in DOMAIN order} = Cached
  /\ \A i, j \in DOMAIN order : order[i] = order[j] => i = j
  /\ Len(order) <= MaxSize

\* Stmt.Close is never called on a statement that is closed already: whatever is
\* cached, taken by close(), kept as a spare, or about to be closed by the last
\* releaser is still open, and no two of those owners share a statement.
ClosedOnce ==
  /\ \A s \in CachedStmts \cup doomed : state[s] = "open"
  /\ CachedStmts \cap doomed = {}
  /\ \A p, q \in Cached : items[p] = items[q] => p = q
  /\ \A w \in Workers :
       /\ spare[w] # NoStmt =>
            /\ state[spare[w]] = "open"
            /\ spare[w] \notin CachedStmts \cup doomed
            /\ \A v \in Workers : spare[v] = spare[w] => v = w
       /\ pc[w] = "closing" =>
            /\ state[stmt[w]] = "open"
            /\ stmt[w] \notin CachedStmts \cup doomed
            /\ \A v \in Workers : stmt[v] = stmt[w] => v = w

\* No prepared statement leaks: one that is open is cached, is owned by a
\* goroutine that will cache or close it, is in the hands of close(), or is an
\* evicted one whose last releaser is still to come ("closed by the last
\* in-flight user").
NoLeak ==
  \A s \in Stmts : state[s] = "open" =>
    \/ s \in CachedStmts \cup doomed
    \/ \E w \in Workers : spare[w] = s \/ (pc[w] = "closing" /\ stmt[w] = s)
    \/ evicted[s] /\ Holders(s) # {}

\* The life of an entry: an evicted entry has left the cache for good, so nobody
\* can acquire it again, and it is open as long as it has a user; an uncached
\* statement has no user yet; the query being inserted stays uncached while
\* evictLocked makes room for it, which the second lookup of acquire guarantees.
Lifecycle ==
  /\ \A s \in Stmts :
       /\ evicted[s] => state[s] # "unborn" /\ s \notin CachedStmts \cup doomed
       /\ evicted[s] /\ Holders(s) # {} => state[s] = "open"
       /\ state[s] = "unborn" => \A w \in Workers : stmt[w] # s
  /\ \A w \in Workers :
       /\ spare[w] # NoStmt =>
            ~evicted[spare[w]] /\ \A v \in Workers : stmt[v] # spare[w]
       /\ pc[w] = "inserting" => query[w] \notin Cached
  /\ Len(order) = Cardinality(Cached)

\* Only close() may close a statement a goroutine is executing: eviction and
\* releases never do ("a statement evicted while still in flight is not closed
\* immediately").
InFlightClosedOnlyByClose ==
  [][\A s \in Stmts :
       (state[s] = "open" /\ state'[s] = "closed" /\ Holders(s) # {}) => s \in doomed]_vars

\* An evicted statement is eventually closed: its last in-flight user does it.
EvictedIsClosed == \A s \in Stmts : evicted[s] ~> state[s] = "closed"

\* A goroutine that entered acquire gets through prepare, the race for the entry,
\* eviction and release: cache.mu never locks it out.
AcquireCompletes == \A w \in Workers : pc[w] # "idle" ~> pc[w] = "idle"
=============================================================================
