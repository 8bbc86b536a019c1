------------------------------ MODULE QueryCache ------------------------------
(* The query result cache: cachedRows (cache.go) over the built-in store      *)
(* (internal/memcache/store.go), run by several goroutines while a            *)
(* transaction changes the data and the application invalidates keys and      *)
(* tags.  The rows of a query are abstracted to the version of the data they  *)
(* were read from.  A critical section of store.mu is one action; between     *)
(* Get, the load and Set other goroutines run.  A query outside a transaction *)
(* reads from a replica, which may lag behind the primary, unless it asks for *)
(* UsePrimary or the connection has no replicas.                              *)
EXTENDS Integers, FiniteSets

CONSTANTS
  Readers,     \* goroutines running cached queries
  Keys,        \* cache keys
  Tags,        \* cache tags
  Replicas,    \* conn.Reads, the read replicas; may be empty
  TTL,         \* spec.Cache.TTL, in ticks
  MaxVersion,  \* bound on the versions written
  None         \* no entry, no rows

VARIABLES
  items,      \* store.items
  tags,       \* store.tags; a tag without keys has no map entry in the code
  committed,  \* the version committed in the primary database
  applied,    \* the version each replica has got to
  pending,    \* the version of the open transaction, or None
  last,       \* the last version written, committed or not
  rd,         \* the queries: where each is and what it holds
  published,  \* history: every version that was committed
  floor       \* history: the version committed when a key or tag was invalidated

store == <<items, tags>>
data == <<committed, applied, pending, last, published>>
vars == <<store, data, rd, floor>>

Versions == 0..MaxVersion

\* An item: its rows, the ticks until expiresAt, its tags; raced is history: one
\* of its tags or its key was invalidated between the load and Set; lagged is
\* history: the query, one without UsePrimary, was answered by a replica that was
\* behind the primary.
Entry == [rows : Versions, left : 0..TTL, tags : SUBSET Tags, raced : BOOLEAN,
          lagged : BOOLEAN]

ASSUME QueryCacheAssumption ==
  /\ TTL \in Nat \ {0} /\ MaxVersion \in Nat
  /\ Keys \cap Tags = {} /\ None \notin Keys \cup Nat \cup Entry

Idle == [pc |-> "idle", key |-> None, tags |-> {}, inTx |-> FALSE, snap |-> None,
         rows |-> None, raced |-> FALSE, lagged |-> FALSE]

Init ==
  /\ items = [k \in Keys |-> None] /\ tags = [t \in Tags |-> {}]
  /\ committed = 0 /\ pending = None /\ last = 0 /\ published = {0}
  /\ applied = [s \in Replicas |-> 0]
  /\ rd = [r \in Readers |-> Idle]
  /\ floor = [x \in Keys \cup Tags |-> 0]

Set(r, q) == rd' = [rd EXCEPT ![r] = q]

-----------------------------------------------------------------------------
(* The store *)

\* forgetLocked for every key of K: lines 106-119.
ForgetAll(K) ==
  /\ items' = [k \in Keys |-> IF k \in K THEN None ELSE items[k]]
  /\ tags' = [t \in Tags |->
                {k \in tags[t] : ~(k \in K /\ items[k] # None /\ t \in items[k].tags)}]

\* A bug: Set overwrites an entry without taking it out of the tag index.
StorePutOver(k, e) ==
  /\ items' = [items EXCEPT ![k] = e]
  /\ tags' = [t \in Tags |-> IF t \in e.tags THEN tags[t] \cup {k} ELSE tags[t]]

\* Store.Set: lines 54-80.
StorePut(k, e) ==
  /\ items' = [items EXCEPT ![k] = e]
  /\ tags' = [t \in Tags |-> IF t \in e.tags THEN tags[t] \cup {k} ELSE tags[t] \ {k}]

Expired(e) == e.left = 0

\* The queries that hold rows loaded before an invalidation of x.
MarkRaced(x) ==
  rd' = [r \in Readers |->
           IF rd[r].pc = "loaded" /\ (x = rd[r].key \/ x \in rd[r].tags)
           THEN [rd[r] EXCEPT !.raced = TRUE] ELSE rd[r]]

\* Store.Forget called by the application through CacheManager.Forget.
Forget(k) ==
  /\ ForgetAll({k})
  /\ floor' = [floor EXCEPT ![k] = committed]
  /\ MarkRaced(k)
  /\ UNCHANGED data

\* Store.ForgetTag through CacheManager.ForgetTag: lines 92-104.
ForgetTag(t) ==
  /\ ForgetAll(tags[t])
  /\ floor' = [floor EXCEPT ![t] = committed]
  /\ MarkRaced(t)
  /\ UNCHANGED data

-----------------------------------------------------------------------------
(* cachedRows *)

\* A bug: queries inside a transaction use the cache too.
CacheEnabledAlways(q) == TRUE

\* cacheEnabled: a query inside a transaction, hence a locking one too, bypasses
\* the cache.
CacheEnabled(q) == ~q.inTx

\* A query with automatic or explicit key k and some tags starts.
Start(r) ==
  /\ rd[r].pc = "idle"
  /\ \E k \in Keys, T \in SUBSET Tags, inTx \in BOOLEAN :
       /\ inTx => pending # None
       /\ LET q == [Idle EXCEPT !.key = k, !.tags = T, !.inTx = inTx] IN
            Set(r, [q EXCEPT !.pc = IF CacheEnabled(q) THEN "get" ELSE "missed"])
  /\ UNCHANGED <<store, data, floor>>

\* Store.Get under the read lock: store.go lines 41-46.
Lookup(r) ==
  /\ rd[r].pc = "get"
  /\ LET e == items[rd[r].key] IN
       Set(r, [rd[r] EXCEPT !.snap = e, !.pc = IF e = None THEN "missed" ELSE "found"])
  /\ UNCHANGED <<store, data, floor>>

\* A bug: a hit extends the life of the entry.
CheckExpirySliding(r) ==
  /\ rd[r].pc = "found"
  /\ IF Expired(rd[r].snap)
       THEN Set(r, [rd[r] EXCEPT !.pc = "expired", !.snap = None]) /\ UNCHANGED items
       ELSE /\ Set(r, [rd[r] EXCEPT !.pc = "done", !.rows = rd[r].snap.rows, !.snap = None])
            /\ items' = [items EXCEPT ![rd[r].key] = [rd[r].snap EXCEPT !.left = TTL]]
  /\ UNCHANGED <<tags, data, floor>>

\* The expiry test of Get after unlocking, and the hit: store.go lines 47-51,
\* cache.go lines 102-110.
CheckExpiry(r) ==
  /\ rd[r].pc = "found"
  /\ IF Expired(rd[r].snap)
       THEN Set(r, [rd[r] EXCEPT !.pc = "expired", !.snap = None])
       ELSE Set(r, [rd[r] EXCEPT !.pc = "done", !.rows = rd[r].snap.rows, !.snap = None])
  /\ UNCHANGED <<store, data, floor>>

\* Get drops what it found expired, or what is there by now: store.go line 48.
DropExpired(r) ==
  /\ rd[r].pc = "expired"
  /\ ForgetAll({rd[r].key})
  /\ Set(r, [rd[r] EXCEPT !.pc = "missed"])
  /\ UNCHANGED <<data, floor>>

\* A bug: UsePrimary is forgotten, and every read outside a transaction goes to
\* a replica.
ViewReplicas(q, usePrimary) ==
  IF q.inTx /\ pending # None THEN {pending}
  ELSE IF q.inTx \/ Replicas = {} THEN {committed}
  ELSE {applied[s] : s \in Replicas}

\* The rows a statement of the query may see: runnerForQuery and runnerForRead.
\* The transaction's own; with UsePrimary or without replicas the primary's;
\* otherwise those of the replica PickRead takes, whose turn depends on every
\* other read of the process.
View(q, usePrimary) ==
  IF q.inTx /\ pending # None THEN {pending}
  ELSE IF q.inTx \/ usePrimary \/ Replicas = {} THEN {committed}
  ELSE {applied[s] : s \in Replicas}

\* load() on the database: cache.go line 115; a bypassing query returns it.  The
\* query's UsePrimary matters only here: the cache key does not have it
\* (cacheKey, cache.go:167-177).
Load(r) ==
  /\ rd[r].pc = "missed"
  /\ \E usePrimary \in BOOLEAN : \E v \in View(rd[r], usePrimary) :
       Set(r, [rd[r] EXCEPT !.pc = IF CacheEnabled(rd[r]) THEN "loaded" ELSE "done",
                            !.rows = v,
                            !.lagged = ~rd[r].inTx /\ ~usePrimary /\ v # committed])
  /\ UNCHANGED <<store, data, floor>>

\* Cache.Set of the loaded rows: cache.go lines 119-126.
Store(r) ==
  /\ rd[r].pc = "loaded"
  /\ StorePut(rd[r].key, [rows |-> rd[r].rows, left |-> TTL, tags |-> rd[r].tags,
                          raced |-> rd[r].raced, lagged |-> rd[r].lagged])
  /\ Set(r, [rd[r] EXCEPT !.pc = "done", !.raced = FALSE, !.lagged = FALSE])
  /\ UNCHANGED <<data, floor>>

\* The query returns its rows, or before that an error: of the store, of the
\* load, of an event handler after a hit or a miss.
Finish(r) ==
  /\ rd[r].pc \in {"found", "missed", "done"}
  /\ Set(r, Idle)
  /\ UNCHANGED <<store, data, floor>>

-----------------------------------------------------------------------------
(* The transaction, replication and the clock (external) *)

\* The transaction's goroutine is not inside one of its own queries.
TxIdle == \A r \in Readers : ~rd[r].inTx

TxWrite ==
  /\ TxIdle /\ last < MaxVersion
  /\ last' = last + 1 /\ pending' = last + 1
  /\ UNCHANGED <<store, rd, floor, committed, applied, published>>

TxCommit ==
  /\ TxIdle /\ pending # None
  /\ committed' = pending /\ published' = published \cup {pending} /\ pending' = None
  /\ UNCHANGED <<store, rd, floor, applied, last>>

TxRollback ==
  /\ TxIdle /\ pending # None
  /\ pending' = None
  /\ UNCHANGED <<store, rd, floor, committed, applied, published, last>>

\* Replica s applies the primary's commits up to some version.
Replicate(s) ==
  /\ \E v \in published : v > applied[s] /\ applied' = [applied EXCEPT ![s] = v]
  /\ UNCHANGED <<store, rd, floor, committed, pending, last, published>>

Older(e) == IF e = None \/ e.left = 0 THEN e ELSE [e EXCEPT !.left = @ - 1]

Tick ==
  /\ items' = [k \in Keys |-> Older(items[k])]
  /\ rd' = [r \in Readers |-> [rd[r] EXCEPT !.snap = Older(@)]]
  /\ UNCHANGED <<tags, data, floor>>

Query(r) ==
  Lookup(r) \/ CheckExpiry(r) \/ DropExpired(r) \/ Load(r) \/ Store(r) \/ Finish(r)

Next ==
  \/ \E r \in Readers : Start(r) \/ Query(r)
  \/ \E k \in Keys : Forget(k)
  \/ \E t \in Tags : ForgetTag(t)
  \/ \E s \in Replicas : Replicate(s)
  \/ TxWrite \/ TxCommit \/ TxRollback \/ Tick

Spec == Init /\ [][Next]_vars

\* A started query comes to its end, the clock goes on and a replica catches up.
FairSpec ==
  /\ Spec /\ WF_vars(Tick) /\ \A r \in Readers : WF_vars(Query(r))
  /\ \A s \in Replicas : WF_vars(Replicate(s))

-----------------------------------------------------------------------------
QueryState == [pc : {"idle", "get", "found", "expired", "missed", "loaded", "done"},
           key : Keys \cup {None}, tags : SUBSET Tags, inTx : BOOLEAN,
           snap : Entry \cup {None}, rows : Versions \cup {None}, raced : BOOLEAN,
           lagged : BOOLEAN]

\* What a query holds at each point of cachedRows.
Placed(q) ==
  /\ q.pc # "idle" <=> q.key # None
  /\ q.snap # None <=> q.pc = "found"
  /\ q.rows # None <=> q.pc \in {"loaded", "done"}

StoreTyped == items \in [Keys -> Entry \cup {None}] /\ tags \in [Tags -> SUBSET Keys]

DataTyped ==
  /\ committed \in Versions /\ pending \in Versions \cup {None} /\ last \in Versions
  /\ published \in SUBSET Versions /\ applied \in [Replicas -> Versions]
  /\ floor \in [Keys \cup Tags -> Versions]

\* The types of the store, of the data and of the running queries.
TypeOK ==
  /\ StoreTyped /\ DataTyped
  /\ rd \in [Readers -> QueryState] /\ \A r \in Readers : Placed(rd[r])

\* store.tags and the tags of the items say the same, whatever Set, Forget,
\* ForgetTag and expiring Gets interleave: ForgetTag can neither miss an entry nor
\* drop one that no longer has the tag, and the index does not outgrow the items.
IndexExact ==
  \A t \in Tags : tags[t] = {k \in Keys : items[k] # None /\ t \in items[k].tags}

\* Only committed rows are cached: no query inside a transaction fills the cache
\* with rows that may still be rolled back (cacheEnabled, cache.go:68).
CachedIsCommitted == \A k \in Keys : items[k] # None => items[k].rows \in published

\* After Forget or ForgetTag, rows older than the invalidation are cached again
\* in two ways only: by a query that had loaded them before it and reaches Set
\* after it, and by a query without UsePrimary that PickRead sends to a replica
\* which has not applied the change yet (query_helpers.go:574).  A query with
\* UsePrimary, or on a connection without replicas, loses only that race.
InvalidationHolds ==
  \A k \in Keys : items[k] # None =>
    \/ items[k].raced
    \/ items[k].lagged /\ Replicas # {}
    \/ \A x \in {k} \cup items[k].tags : items[k].rows >= floor[x]

\* A query inside a transaction returns the transaction's own rows, never ones
\* that another goroutine cached and never a replica's.
TxSeesItself ==
  \A r \in Readers : rd[r].inTx /\ rd[r].pc = "done" => rd[r].rows = pending

\* Once the data no longer changes, stale rows stop being served, with or without
\* invalidation, although invalidation can lose the race against Set and a
\* replica can lag (as long as it catches up in the end): every entry that has
\* not expired holds the current rows, for good.
EventuallyFresh ==
  (committed = MaxVersion) ~>
     [](\A k \in Keys : items[k] # None /\ ~Expired(items[k]) => items[k].rows = committed)
=============================================================================
