# Oro in TLA+

TLA+ models of the Oro ORM: its caches and transactions, the schema synchroniser
and the nested set extension, the query builders and the SQL of the three dialects,
the scopes, relations and shards of reading, and the writes of models and relations.
TLC checks small instances of the models; TLAPS proves some of the properties for
every instance. `PROJECT.json` maps each definition to the lines it models and
lists the components, runs, mutants, findings, hazards and theorems.

## 1. The system

Oro turns Go calls into SQL statements on `database/sql`. It is a library: the
goroutines, the processes and the database belong to the program that uses it.

| Part | State it owns | Operations | Hard behaviour |
| --- | --- | --- | --- |
| Statement cache (`statement_cache.go`, used by `sql_runner.go`) | map of prepared statements, FIFO order, reference counts | acquire, release, evict, close | prepare outside the lock, eviction of a statement in use, close against everything |
| Transactions (`transaction.go`) | the handle's `sql.Tx`, depth, closed flag | Transaction, Begin, Commit, Rollback, Savepoint | nesting, retries, panics, timeouts, events, server-side aborts |
| Query cache (`cache.go`, `internal/memcache`) | entries with expiry, tag index | cachedRows, Forget, ForgetTag | load and store are apart, expiry is decided under one lock and applied under another |
| Nested set (`extensions/nestedset`) | left and right bounds, depth and parent of every row | create, move, update, delete, rebuild, check | bounds arithmetic, sibling read before the transaction |
| Schema sync (`syncer.go`, `internal/syncdiff`, `internal/schemasnapshot`) | the tables, their indexes, the snapshot table | diff, apply, save the snapshot | no transaction around the statements, concurrent processes, renames |
| Query building (`query_*.go`, `scope.go`, `apply.go`) | slices shared between copies of a query | builder methods, scopes, running copies | copies that share a backing array, additions by the library |
| Dialects and SQL texts (`driver/*/dialect.go`, `sql_cache.go`, `internal/fifocache`) | bounded FIFO map of texts | compile, cached compile | numbering of holes, keys that describe a shape |
| Reading (`relation_*.go`, `shard.go`, `extensions/tenant`) | none | scopes, relation filters and loading, fan-out over shards | conditions of the library beside the caller's, keys of different Go types, global order and page |
| Model writes (`query_model.go`, `model_create_batch.go`, `hook.go`) | rows | create, update, delete, restore, upsert, FirstOrCreate, batches | hooks inside a transaction that may be repeated, optimistic lock, reported keys |
| Relation writes (`relation_writer.go`) | references and pivot rows | set, add, remove, replace, attach, detach, sync | read then write of the pivot table |
| Streams, events, registry, connections, value mapping, other extensions | little | see section 5 | |

The parts meet in these places. A query inside a transaction bypasses the query
cache and the statement cache. A structural write of the nested set, a write with
hooks and a relation write are each one call of Transaction, which may run its
closure again. Commit emits an event, and the handler's error comes back as the
error of Commit. Every read and write passes through the query specification, the
scopes, the text cache and a dialect.

## 2. Modules

| Module | Models |
| --- | --- |
| `StatementCache`, `StatementCacheProofs` | `statementCache`, one step per critical section and per call of `Stmt.Close`; its theorems |
| `SqlTx` | external: what `database/sql` and a server session do with BEGIN, COMMIT, ROLLBACK, savepoints, failed statements, deadlocks and lost connections, for PostgreSQL, MySQL and SQLite |
| `Transaction` | `DB.Transaction` and what it calls, over `SqlTx`, one step per database call |
| `NestedTx`, `NestedTxProofs` | the abstract promise: a stack of transactions that hand their writes outwards or discard them, with its theorems |
| `QueryCache`, `QueryCacheProofs` | `cachedRows` and the memory store, one step per critical section, with a database that has one transaction at a time and read replicas that follow it; its theorems |
| `NestedSet` | the nested set operations on the rows of one tree, one step per transaction |
| `OrderedForest` | the abstract promise: lists of children, edited as the caller asked |
| `SchemaSync` | `syncSchemaOnConnection` for one table, one step per statement |
| `SqlText` | the syntax trees of `internal/queryast`, texts as words and holes, and how a server reads holes |
| `PgsqlDialect`, `MysqlDialect`, `SqliteDialect` | the compilation of a tree to a text and its arguments, function by function |
| `SqlCache` | the shape keys and the FIFO map of SQL texts, over the dialects |
| `QueryBuilder` | the builder methods of model, table, relation and raw queries on Go slices, and operations that run a copy |
| `Conditions`, `QueryScope` | condition lists and what they select; soft delete, tenant, relation filters and aggregates added to them |
| `RelationLoad` | loading of every kind of relation in chunks |
| `Shards` | strategies, choice of a shard, fan-out, global order and pages |
| `Reads` | one call of a read, update, delete, restore, relation load or sharded read, over the four above |
| `Rows` | external: a READ COMMITTED database with row locks, unique keys, generated keys and deadlocks |
| `ModelWrite` | the writes of models and tables, one step per statement |
| `RelationWriter` | the writes of relations, one step per statement |
| `Writes` | sessions that make these calls on the same rows |
| `MC...` | the instances for TLC |

`Transaction` extends `SqlTx`; `MCTransaction` holds the refinement mapping to
`NestedTx`, and `NestedSet` the one to `OrderedForest`. `SqlCache` is over any
dialect, and `MCSqlCache` gives it the three; `Reads` extends `QueryScope`, `RelationLoad` and `Shards`, and
`Writes` stands on `RelationWriter`, `ModelWrite` and `Rows`.

**How state corresponds to the code.** In `StatementCache`, `items`, `order`,
`refs`, `evicted` and `mu` are the fields of `statementCache` and
`cachedStatement`; `state` says whether a `sql.Stmt` is open; `pc`, `query`,
`stmt` and `spare` are a goroutine's place and locals; `doomed` is the `entries`
slice of `close()`. In `Transaction`, `stack` holds one record per active call of
`Transaction` (attempt number, first write, expired context, last error, manual
savepoints) and the engine variables are those of `SqlTx`; `failed`, `retried`,
`rewound`, `acked` and `announced` are history, read by properties only. In
`QueryCache`, `items` and `tags` are the fields of `memcache.Store`, `rd` is the
state of each running query, `applied` how far each read replica has come, and `floor`,
`raced` and `lagged` are history. In `NestedSet`,
`rows` is the table and `pend` a MoveUp or MoveDown that has read its sibling. In
`SchemaSync`, `table`, `index` and `snap` are the database, `todo` and `rest` what
a process has still to execute, `safe` is history. In
`SqlCache`, `items` and `order` are the fields of `fifocache.Cache` and `last` the
statement compiled last. A text is a sequence of words and holes; an argument is a
number of its own, so that a value in another hole than its own shows. In
`QueryBuilder`, `heap` holds backing arrays, a query is a window on one, and `wanted`
is history. In `Reads`, `call` is the input and `result` the answer of the code. In
`Writes`, `rows`, `seq` and `tx` are the database; `call` holds what the Go closures
capture, which a repeated attempt finds as the one before left it; `did` and `clash`
are history.

## 3. Runs

| Run | Instance | Shows |
| --- | --- | --- |
| `stmt_cache` | 2 goroutines, 3 queries, 3 statements, cache of 2 | reference counts are exact, order and map agree and are bounded, no statement is closed twice or leaked, only `close()` closes one in flight; evicted statements get closed and nobody is locked out |
| `tx_pgsql` | 3 nested calls, 2 writes, 2 attempts, PostgreSQL | atomicity of failed, retried and acknowledged work, no leaked `sql.Tx`, refinement of `NestedTx`, every call returns and gives its connection back |
| `tx_mysql_savepoints` | 3 calls, 3 writes, 2 manual savepoints one at a time, MySQL deadlocks | rolled-back savepoints are never durable, AfterCommit announces durable work |
| `query_cache` | 2 queries, 1 key, 1 tag, 2 versions of the data, a read replica, lifetime 2 | exact tag index, no uncommitted rows in the cache, invalidation loses only to a store that had loaded before it or from a replica that was behind, a transaction sees itself, stale rows are not served for ever |
| `nested_set` | 3 nodes | bounds form a nested set, reads by bounds agree with the parents, Check's verdict is right, refinement of `OrderedForest` |
| `schema_sync` | 2 processes, 6 models on SQLite | nil from Sync means all of the model and nothing else is in the table, the snapshot never mixes models, an interrupted sync can be repeated |
| `sql_text` | products of clauses, 3 dialects, text cache of 2 | every value is read by the server in the clause it was written for, although fragments are compiled apart and renumbered; a text from the cache is the text the dialect would have compiled |
| `query_builder` | 5 builder calls, 2 running operations, every list of every builder | each query holds what its calls asked for; an operation compiles what was asked when it started |
| `reads` | conditions with groups, negations and relation filters (by a self-relation under an alias), 7 sources of the tenant; up to 4 models and 3 related rows; 2 shards, ordered by numbers or text | a call is about the rows the caller means and about no deleted or foreign one; a related row reaches exactly its models; several shards answer like one table |
| `writes` | 2 sessions, one call each of every write, 2 attempts, 3 dialects' ways of reporting keys and counts | checked updates never overwrite each other; keys, counts and "created" are those of the committed rows; Upsert answers its own row; a relation is left as asked |

Every property of a passing run has a mutant of the modelled code that breaks it.

Two runs show where the code does something else than its documentation says. Each
is a finding of `PROJECT.json` with the line quoted.

| Run | The code does |
| --- | --- |
| `builder_alias` | two queries continued from one common query share its backing array; the second call overwrites what the first one added |
| `scope_or` | conditions of the library are joined with AND to the caller's list without brackets, so an OrWhere at its top is not confined by them |

**Known deviations.** The passing runs say what holds without these; a configuration
reproduces each (the property in it is violated).

| Configuration | The code does |
| --- | --- |
| `MCTxNestedTimeout.cfg` | a nested call whose own timeout has passed cannot send its ROLLBACK TO; its writes are committed by the outer call (`transaction.go:227`) |
| `MCTxTwoSavepoints.cfg` | two open savepoints of one handle share a name; rolling back the first stops at the second (`transaction.go:253`) |
| `MCTxNestedEvent.cfg` | AfterCommit is emitted when a nested call releases its savepoint (`transaction.go:204`) |
| `MCTxHandlerRetry.cfg` | a retryable error of an AfterCommit handler runs a committed transaction again (`transaction.go:108`) |
| `MCTxMysqlRetry.cfg` | a nested retry after a MySQL deadlock runs in autocommit mode (`transaction.go:108`) |
| `MCSchemaReuse.cfg` | a column name that one field leaves and another takes over is not added again (`internal/syncdiff/diff.go:54`) |
| `MCSqlCacheEscape.cfg` | the key of a cached text leaves out the escape of a LIKE (`sql_cache.go:344`) |
| `MCSchemaTighten.cfg` | a renamed field that is also tightened to NOT NULL is not checked: the sync returns nil with a nullable column, and the next one is refused (`internal/syncdiff/diff.go:51`; `guides/schema-sync.mdx:33` lists "tightening nullable constraints" among the refused changes) |
| `MCSqlRawHoles.cfg` | on PostgreSQL a raw SET or a raw ORDER BY with holes of its own is not renumbered (`driver/pgsql/dialect.go:630`, `969`) |
| `MCReadsSelf.cfg` | a filter or an aggregate by a relation of a table to itself, without `As` on the query or inside another such filter, qualifies both sides with the table's name and compares each row with itself (`relation_filter.go:229`) |
| `MCReadsOrder.cfg` | the merge of all shards compares decimals and collated text as byte strings, "10.00" before "9.00" (`shard.go:414`, `internal/scanconv/value.go:38`), and puts NULL first, also where PostgreSQL puts it last |
| `MCWritesCounted.cfg` | UpsertMany adds up its count, and CreateMany one by one its models, over the attempts of a repeated transaction (`query_model.go:1284`, `1003`) |

Read from the code while modelling, and visible in the models: the callback of
WhereHas cannot ask for deleted rows; Update and Delete of a table query carry no
scope; Restore drops the caller's own null tests on the soft delete column; table
CreateMany inserts its chunks without a transaction, and on PostgreSQL answers no
keys, since the statement has no RETURNING and pgx reports none
(`query_helpers.go:1152-1168`; `query_table.go:645` says it "returns generated primary
IDs"); UpsertMany counts an updated row twice on MySQL, as `reference/write-options.mdx:76`
says; Upsert on MySQL reads its row back by the reported key, and fails with ErrScan after
the change was made when the row kept its values, is deleted, or went away in between
(`query_helpers.go:1303`); a read outside a transaction goes to a replica unless UsePrimary
asks for the primary, so it may cache rows older than an invalidation, and since the
cache key does not contain UsePrimary, such rows also answer a UsePrimary query with the
same key (`query_helpers.go:574`, `cache.go:167`); an error of the after-write step of CreateMany, Upsert and FirstOrCreate
is returned after the commit; overlapping Syncs can attach a pair twice; Set of a
hasOne leaves the old target attached.

**Bounds.** Two goroutines and a cache of two with three queries make every race
of the statement cache happen: the lost race, the eviction of a used statement and
the close between the two critical sections. A statement is used up when it is
closed, which bounds a behaviour to the three of `Stmts`. Three nested calls are
the smallest number in which a call has both an outer and an inner one; two writes
tell a kept from a lost one; two attempts are the first and a retry. Two versions
of the data and one key suffice for stale rows, with a tag and a lifetime of two
ticks; one replica (`Replicas`) is behind or not. Three nodes give every shape of move, into, out of and across subtrees. In
`nested_set` RebuildTree gets all existing rows and any new ones, siblings in
ascending or descending key order. The six models of `schema_sync` contain a
rename, added columns and indexes, a type change, a tightened null constraint, a
dropped column and a column whose SQLite type differs in kind from its field's; none
renames and tightens one field at once.

The statements of `sql_text` combine each list of conditions, sources, joins,
selected expressions, groups and orders with the others, so that a clause with
values stands before and after every other one; a text cache of two evicts. Five
builder calls let append grow an array and write into its spare room. `reads`
has single calls: a read has no state, and the interesting part is the product of
conditions, modes, tenants and data. Up to four models in chunks of one and of the
scaled-down default reach a chunk boundary; two shards with up to two rows each, equal
and NULL ones included, reach every page boundary; a column (`OrderColumns`) says
whether Go compares numbers or text. Two sessions are enough for an overwritten
update, a key taken between look-up and insert, and a deadlock; two sessions are
interchangeable, which the symmetry of `writes` uses. `MaxId` bounds the rows that
can be inserted and is never reached.

Configurations leave `CHECK_DEADLOCK` off where the program may have nothing more to
do: once the calls of a transaction run are made, after the single call of `reads`,
after the statements of `sql_text` and the calls of `query_builder`. The transaction
configurations also fix which of the deviations above may occur (`NestedTimeouts`,
`SwallowDeadlock`, `HandlerResults`, `MaxOpen`): `tx_pgsql` has no timeouts of nested
calls and no retryable handler errors, `tx_mysql_savepoints` has no nested calls, one
open savepoint at a time, and an fn that returns the deadlock it sees. `writes` does
not repeat the calls that add up over attempts (`CountedRetries`), `query_builder`
continues every query once (`Branching`), `sql_text` uses one escape (`Escaped`) and
raw SET and ORDER BY fragments with holes on MySQL and SQLite only (`RawHoles`), `reads`
has self-relations only at the top of a query with an alias (`Wheres`, `Filters`) and
orders shards by numbers and byte-ordered text (`OrderColumns`). In `writes` plain
updates run on PostgreSQL, which counts the rows that meet the conditions; MySQL has a
generated key and its driver's default way of counting (no `clientFoundRows`), and
there are no replicas.

**Fairness.** Go runs every runnable goroutine, and a database call returns (weak
fairness of the steps of a call that has started). `sync.Mutex` hands the lock to a
waiter that has waited too long, which is strong fairness of the steps that take
it. The clock goes on, and a replica catches up with its primary in the end, which is
the database's part. fn returns: `CallReturns` is about the library, not about an
fn that never ends. Nobody is assumed to issue a query, to call `close()` or to
invalidate anything.

## 4. Proofs

`StatementCacheProofs` proves, for any sets of goroutines, queries and statements
and any positive cache size:

* `TypeCorrect`: the type invariant;
* `CacheSafe`: `RefsCountHolders`, `OrderMatchesItems`, `ClosedOnce`, `NoLeak`
  and `Lifecycle`, and for each of the first four a theorem of its own;
* `InFlightSafe`: `InFlightClosedOnlyByClose`.

None of the first four of these is inductive. `ClosedOnce` needs to know that an
evicted entry has left the cache for good, and that an uncached statement has no
user; `NoLeak` needs the count to be exact to know that the last releaser is the
last. `Lifecycle` says these things, and the inductive invariant is the conjunction
of all of them. The proof has one lemma per action. Facts about how an action
changes the holders of a statement come first, and each conjunct is then proved
pointwise from them. Assumptions: `Workers` and `Queries` are finite, the two
sentinels are outside, `MaxSize` is a positive natural.

`QueryCacheProofs` proves, for any goroutines, keys, tags, replicas, lifetime and
number of versions, all safety properties of the run: `IndexIsExact`,
`NothingUncommittedCached`, `InvalidationLosesOnlyToRaceOrLag` and
`TransactionSeesItself`. `IndexExact` is inductive with the types. The others need
to know what a query in flight holds (`QueryOK`: a query that uses the cache is
outside a transaction, and the rows it is about to store were committed and are no
older than the last invalidation of its key and tags unless it has lost the race or was
read from a replica that was behind) and that versions grow and no replica is ahead
(`Growing`). ForgetTag preserves `InvalidationHolds` only because
the index is exact, which is why one invariant carries all of them. Assumptions: keys
and tags are disjoint, as they are different arguments of the store, and `None` is
neither a key, a version nor an entry.

`NestedTxProofs` proves about the abstract specification that a write is in exactly
one place (`WritesAreExclusive`).
With the refinement that `tx_pgsql` checks, the same holds of the code on that
instance.

Only model-checked: everything about the other modules, both refinements, and all
liveness. Liveness under fairness is out of the prover's reach, and so is induction
over data, which the folds and tours of `NestedSet`, the recursive trees of `SqlText`
and `QueryScope`, and the sorted pages of `Shards` would need.

## 5. Not modelled

* Struct tag parsing, naming, formatting, options and inspectors: text without state.
* Value conversion: single values by Go type, reflection without state.
* Streams, events, the registry, opening of connections: one critical section or one
  goroutine each. Known there: a handler can run after it was unsubscribed, since Emit
  calls the handlers of a copy (`internal/eventbus/bus.go:68`), and a failed opening
  leaves the connections opened before it (`connection.go:68`).
* Audit, log rolling, metrics and translation extensions: single statements or
  counters on top of what is modelled.
* In `Transaction`: programs that mix Begin, Commit and Rollback by hand, and one
  handle used by several goroutines. AfterRollback is left out, its handlers'
  errors are dropped.
* In `NestedSet`: structural writes that overlap in a database that does not
  serialise them, a write between Rebuild's read and its transaction, several
  scopes, a RebuildTree payload that leaves rows out, and structural writes on a
  tree with plain rows that was not rebuilt.
* In `SchemaSync`: PostgreSQL and MySQL, several connections, unique indexes.
* In `Reads`: nested With, and Chunk and Stream, which do not load relations.
* In `Writes`: isolation levels other than READ COMMITTED, several calls per session.

## 6. Plan

1. `NestedSet` with a split Rebuild and overlapping writes; `SchemaSync` on the
   other dialects.
2. Pages and chunks of a table that changes between the statements.
3. Proofs: `RetryStartsClean` and `FnErrorRollsBack` of `Transaction`; `NoLostUpdate`
   of `Writes`; the safety part of `SchemaSync`.
