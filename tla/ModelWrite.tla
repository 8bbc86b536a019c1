----------------------------- MODULE ModelWrite -----------------------------
(***************************************************************************)
(* The write operations of model and table queries on a table with a unique *)
(* column `key`, one step per statement: create, update, delete, restore,   *)
(* upsert, FirstOrCreate and the batches, with hooks and events that may     *)
(* fail, inside a transaction that the library repeats after a retryable     *)
(* error. `call` holds what the Go closures capture, which a repeated        *)
(* attempt finds as the one before left it.                                *)
(***************************************************************************)
EXTENDS Rows

CONSTANTS Attempts,         \* Config.Retry.TxDeadlockAttempts
          CountedRetries    \* are calls repeated that add up over their attempts?

VARIABLE call

wvars == <<rows, seq, tx, did, clash, call>>

Range(f) == {f[i] : i \in DOMAIN f}
Post(key, val) == [NoRow EXCEPT !.table = "posts", !.key = key, !.val = val, !.ver = 1]

WriteOps == {"create", "createMany", "createManyResult", "upsertMany", "upsert", "firstOrCreate",
             "update", "delete", "forceDelete", "restore",
             "tableCreateMany", "tableUpdate", "tableDelete"}

Many(c)   == c.op \in {"createMany", "createManyResult"}
Goto(s, pc) == call' = [call EXCEPT ![s].pc = pc]
Ended(c) == IF c.apply THEN "applies" ELSE "returned"
Fail(s, error) == call' = [call EXCEPT ![s].pc = "fail", ![s].error = error]

(* The limits of the code, scaled down: two columns, at most two rows. *)
defaultCreateBatchSize == 2
defaultMaxBatchParams  == 5

createBatchSize(option) == IF option > 0 THEN option ELSE defaultCreateBatchSize

paramCappedBatchSize(columns, size, maxParams) ==
    LET paramRows == IF maxParams \div columns = 0 THEN 1 ELSE maxParams \div columns
    IN  IF paramRows < size THEN paramRows ELSE size

(* The keys and the model ids of the next chunk. *)
Chunk(c, list) ==
    LET size == paramCappedBatchSize(2, createBatchSize(c.size), defaultMaxBatchParams)
        last == IF c.next + size - 1 < Len(list) THEN c.next + size - 1 ELSE Len(list)
    IN  SubSeq(list, c.next, last)

Mixed(models) == \E i, j \in DOMAIN models : models[i] = 0 /\ models[j] # 0

(* How a create goes about it in this attempt: model by model with hooks or  *)
(* when only some models have a key, otherwise in chunks. CreateMany tries   *)
(* the fast path in a transaction of its own and does nothing in it when    *)
(* that path does not apply.                                               *)
Plan(c) ==
    CASE c.op = "create" \/ (Many(c) /\ c.hooks) -> "each"
      [] Many(c) /\ ~c.hooks /\ c.phase = "fast" /\ (~c.fast \/ Mixed(c.models)) -> "none"
      [] Many(c) /\ ~c.hooks /\ c.phase = "batch" /\ Mixed(c.models) -> "each"
      [] OTHER -> "chunks"

(* A transaction, or none with SkipDefaultTransaction. *)
runModelWrite(s) ==
    LET c == call[s]
        plan == Plan(c)
    IN  /\ c.pc = "begin"
        /\ IF c.skip THEN NoChange ELSE BeginTx(s)
        /\ call' = [call EXCEPT ![s].pc = IF plan = "none" THEN "commit" ELSE "write",
                                ![s].plan = plan, ![s].next = 1, ![s].ids = <<>>, ![s].error = ""]

(* A before or an after hook, or an event handler, returns an error. *)
hookFails(s) ==
    /\ call[s].hooks /\ call[s].pc \in {"write", "after"}
    /\ Fail(s, "plain")
    /\ NoChange

(* The database breaks the transaction off. *)
databaseFails(s) ==
    /\ call[s].pc \in {"write", "relation", "commit"}
    /\ Contended(s)
    /\ Fail(s, "retry")
    /\ NoChange

Retries(c) ==
    IF c.op = "upsertMany" \/ (Many(c) /\ c.hooks)
    THEN IF CountedRetries THEN Attempts ELSE 1
    ELSE Attempts

Commit(s) ==
    LET c == call[s]
    IN  /\ c.pc = "commit"
        /\ IF tx[s].open THEN CommitTx(s) ELSE NoChange
        /\ call' = IF c.plan = "none"
                   THEN [call EXCEPT ![s].phase = "batch", ![s].pc = "begin", ![s].attempt = 1]
                   ELSE [call EXCEPT ![s].pc = IF Many(c) THEN Ended(c) ELSE "returned"]

(* The after-write applies of a query come when everything is committed. *)
applyModelAfterWrite(s) ==
    /\ call[s].pc = "applies"
    /\ \E error \in {"", "apply"} : call' = [call EXCEPT ![s].pc = "returned", ![s].error = error]
    /\ NoChange

Rollback(s) ==
    LET c == call[s]
    IN  /\ c.pc = "fail" /\ c.op \in WriteOps
        /\ RollbackTx(s)
        /\ call' = IF c.error = "retry" /\ c.attempt < Retries(c)
                   THEN [call EXCEPT ![s].pc = "begin", ![s].attempt = @ + 1]
                   ELSE [call EXCEPT ![s].pc = "returned"]

-----------------------------------------------------------------------------
(* An insert of rows with these keys and ids, unless one is a duplicate.    *)
Insert(s, keys, given, after) ==
    LET ids == KeysFor(given)
        c   == call[s]
    IN  /\ ~Undecided(s, "posts", Range(keys))
        /\ \/ /\ Match(s, LAMBDA r : r.table = "posts" /\ r.key \in Range(keys)) # {}
              /\ Fail(s, "plain")
              /\ NoChange
           \/ /\ Match(s, LAMBDA r : r.table = "posts" /\ r.key \in Range(keys)) = {}
              /\ Change(s, [id \in Range(ids) |-> Post(keys[CHOOSE i \in DOMAIN ids : ids[i] = id], c.val)])
              /\ seq' = seq + Drawn(given)
              /\ call' = [call EXCEPT ![s] = after]

createWithSpec(s) ==
    LET c == call[s]
        given == <<c.models[c.next]>>
    IN  /\ c.pc = "write" /\ c.plan = "each" /\ (c.op = "create" \/ Many(c))
        /\ Insert(s, <<c.keys[c.next]>>, given,
                  [c EXCEPT !.pc = "after", !.models[c.next] = KeysFor(given)[1]])

(* One model is done: createManyOneByOne appends to the list it captured,    *)
(* the others set theirs.                                                  *)
afterCreate(s) ==
    LET c == call[s]
        last == c.next = Len(c.keys)
    IN  /\ c.pc = "after" /\ (c.op = "create" \/ Many(c))
        /\ call' = [call EXCEPT ![s].pc = IF last THEN "commit" ELSE "write",
                                ![s].next = @ + 1,
                                ![s].created = IF Many(c) /\ c.hooks THEN Append(@, c.models[c.next])
                                               ELSE SubSeq(c.models, 1, c.next)]
        /\ NoChange

(* The keys of inserted rows as the code works them out: RETURNING gives      *)
(* them, otherwise from the one key the driver reports, the last of the       *)
(* statement on SQLite, the first on MySQL.                                 *)
createdPrimaryValues(c, given) ==
    LET last == LastInsertId(c.dialect, given)
        startID == IF c.dialect = "sqlite" THEN last - Len(given) + 1 ELSE last
    IN  IF \A i \in DOMAIN given : given[i] # 0 THEN given
        ELSE [i \in DOMAIN given |-> startID + i - 1]

assignModelBatchPrimaryValues(c, given) ==
    IF c.dialect = "pgsql" THEN KeysFor(given) ELSE createdPrimaryValues(c, given)

(* The call after a chunk. The keys are put into the models, also in an      *)
(* attempt that will be rolled back.                                       *)
AfterChunk(c, ids) ==
    LET next == c.next + Len(ids)
        models == [i \in DOMAIN c.models |->
                      IF i \in c.next .. next - 1 THEN ids[i - c.next + 1] ELSE c.models[i]]
    IN  [c EXCEPT !.models = models, !.next = next, !.ids = @ \o ids,
                  !.pc = IF next > Len(c.keys) THEN "commit" ELSE "write",
                  !.created = IF next > Len(c.keys) THEN c.ids \o ids ELSE @]

createManyBatchFast(s) ==
    LET c == call[s]
        given == Chunk(c, c.models)
    IN  /\ c.pc = "write" /\ c.plan = "chunks" /\ Many(c) /\ c.fast
        /\ Insert(s, Chunk(c, c.keys), given, AfterChunk(c, assignModelBatchPrimaryValues(c, given)))

(* The general path: by statement with RETURNING, or by the reported key. *)
createManyBatch(s) ==
    LET c == call[s]
        given == Chunk(c, c.models)
    IN  /\ c.pc = "write" /\ c.plan = "chunks" /\ Many(c) /\ ~c.fast
        /\ \E exec \in {e \in BOOLEAN : e => c.dialect # "pgsql"} :
              Insert(s, Chunk(c, c.keys), given,
                     AfterChunk(c, IF exec THEN createdPrimaryValues(c, given) ELSE KeysFor(given)))

(* INSERT ... ON CONFLICT (key) for some keys: the changed rows. *)
Upserted(s, keys, doNothing, val) ==
    LET Of(k)  == Match(s, LAMBDA r : r.table = "posts" /\ r.key = k)
        absent == SelectSeq(keys, LAMBDA k : Of(k) = {})
        ids    == KeysFor([i \in DOMAIN absent |-> 0])
        new    == [id \in Range(ids) |-> Post(absent[CHOOSE i \in DOMAIN ids : ids[i] = id], val)]
        old    == IF doNothing THEN {} ELSE UNION {Of(k) : k \in Range(keys)}
    IN  new @@ [id \in old |-> [View(s)[id] EXCEPT !.val = val]]

Absent(s, keys) ==
    Cardinality({k \in Range(keys) : Match(s, LAMBDA r : r.table = "posts" /\ r.key = k) = {}})

(* The count of affected rows is added to the captured one. *)
UpsertMany(s) ==
    LET c == call[s]
        keys == Chunk(c, c.keys)
        new == Upserted(s, keys, c.doNothing, c.val)
    IN  /\ c.pc = "write" /\ c.op = "upsertMany"
        /\ ~Undecided(s, "posts", Range(keys))
        /\ Change(s, new)
        /\ seq' = seq + Absent(s, keys)
        /\ call' = [call EXCEPT ![s].affected = @ + RowsAffected(s, c.dialect, new), ![s].next = @ + Len(keys),
                                ![s].pc = IF c.next + Len(keys) > Len(c.keys) THEN "commit" ELSE "write"]

(* Upsert runs without a transaction. RETURNING gives no row when the        *)
(* conflict was ignored; a dialect without it looks the row up afterwards,   *)
(* by the key that the driver reports.                                     *)
Upsert(s) ==
    LET c == call[s]
        new == Upserted(s, c.keys, c.doNothing, c.val)
    IN  /\ c.pc = "upsert"
        /\ ~Undecided(s, "posts", Range(c.keys))
        /\ Change(s, new)
        /\ seq' = seq + Absent(s, c.keys)
        /\ \/ /\ c.dialect # "mysql" /\ DOMAIN new = {}
              /\ Fail(s, "scan")
           \/ /\ c.dialect # "mysql" /\ DOMAIN new # {}
              /\ call' = [call EXCEPT ![s].pc = Ended(c), ![s].found = DOMAIN new]
           \/ /\ c.dialect = "mysql"
              /\ call' = [call EXCEPT ![s].pc = "find", ![s].last = UpsertInsertId(s, new)]

(* The driver of MySQL always reports a key, so the row is looked up by it. *)
upsertLookupConditions(c) == {c.last}

(* The lookup is a read of the table like any other: it does not see a       *)
(* deleted row. The key is one that the database generates, and there is no  *)
(* replica that the read could go to.                                      *)
upsertRowsWithoutReturning(s) ==
    LET c == call[s]
        found == Match(s, LAMBDA r : ~r.gone) \cap upsertLookupConditions(c)
    IN  /\ c.pc = "find"
        /\ IF found = {} THEN Fail(s, "scan")
           ELSE call' = [call EXCEPT ![s].pc = Ended(c), ![s].found = found]
        /\ NoChange

-----------------------------------------------------------------------------
(* Live rows, deleted rows. *)
Live(c, r) == r.table = "posts" /\ r.key = c.keys[1] /\ ~r.gone
Dead(c, r) == r.table = "posts" /\ r.key = c.keys[1] /\ r.gone

(* A mutant of applyOptimisticLock: the version is counted up, not compared. *)
applyOptimisticLockUnchecked(c) == c.where

(* The condition on the version is appended to the captured spec. *)
applyOptimisticLock(c) == IF c.version = 0 THEN c.where ELSE Append(c.where, c.version)

updateInTransaction(s) ==
    LET c == call[s]
        where == applyOptimisticLock(c)
        Meant(r) == Live(c, r) /\ \A i \in DOMAIN where : r.ver = where[i]
        hit == Match(s, Meant)
        To(r) == [r EXCEPT !.val = c.val, !.ver = IF c.version = 0 THEN @ ELSE @ + 1]
    IN  /\ c.pc = "write" /\ c.op = "update"
        /\ ~Locked(s, LAMBDA r : Live(c, r))
        /\ \/ /\ c.version # 0 /\ hit = {}
              /\ call' = [call EXCEPT ![s].where = where, ![s].pc = "fail", ![s].error = "stale"]
              /\ NoChange
           \/ /\ c.version = 0 \/ hit # {}
              /\ Change(s, [id \in hit |-> To(View(s)[id])])
              /\ call' = [call EXCEPT ![s].where = where, ![s].affected = Cardinality(hit), ![s].pc = "after"]
              /\ UNCHANGED seq

(* Delete marks the live rows, ForceDelete removes them. *)
deleteInTransaction(s) ==
    LET c == call[s]
        hit == Match(s, LAMBDA r : Live(c, r))
    IN  /\ c.pc = "write" /\ c.op \in {"delete", "forceDelete"}
        /\ ~Locked(s, LAMBDA r : Live(c, r))
        /\ Change(s, [id \in hit |-> IF c.op = "delete" THEN [View(s)[id] EXCEPT !.gone = TRUE] ELSE NoRow])
        /\ call' = [call EXCEPT ![s].affected = Cardinality(hit), ![s].pc = "after"]
        /\ UNCHANGED seq

restoreInTransaction(s) ==
    LET c == call[s]
        hit == Match(s, LAMBDA r : Dead(c, r))
    IN  /\ c.pc = "write" /\ c.op = "restore"
        /\ ~Locked(s, LAMBDA r : Dead(c, r))
        /\ Change(s, [id \in hit |-> [View(s)[id] EXCEPT !.gone = FALSE]])
        /\ call' = [call EXCEPT ![s].affected = Cardinality(hit), ![s].pc = "after"]
        /\ UNCHANGED seq

afterChange(s) ==
    /\ call[s].pc = "after" /\ call[s].op \in {"update", "delete", "forceDelete", "restore"}
    /\ Goto(s, "commit")
    /\ NoChange

-----------------------------------------------------------------------------
(* FirstOrCreate: a lookup, an insert that ignores a conflict, a lookup;     *)
(* three statements without a transaction.                                 *)
firstLookup(s) ==
    LET c == call[s]
        found == Match(s, LAMBDA r : Live(c, r))
    IN  /\ c.pc = "lookup"
        /\ call' = [call EXCEPT ![s].found = found, ![s].pc = IF found = {} THEN "insert" ELSE "returned"]
        /\ NoChange

(* A mutant of createdByCall: the row was not there, so this call made it.   *)
createdAnyway(affected) == TRUE

createdByCall(affected) == affected > 0

firstInsert(s) ==
    LET c == call[s]
        new == Upserted(s, c.keys, TRUE, c.val)
    IN  /\ c.pc = "insert"
        /\ ~Undecided(s, "posts", Range(c.keys))
        /\ Change(s, new)
        /\ seq' = seq + Absent(s, c.keys)
        /\ call' = [call EXCEPT ![s].affected = RowsAffected(s, c.dialect, new), ![s].pc = "again"]

secondLookup(s) ==
    LET c == call[s]
        found == Match(s, LAMBDA r : Live(c, r))
    IN  /\ c.pc = "again"
        /\ call' = IF found = {} THEN [call EXCEPT ![s].pc = "fail", ![s].error = "scan"]
                   ELSE [call EXCEPT ![s].found = found, ![s].made = createdByCall(c.affected),
                                     ![s].pc = IF c.affected > 0 THEN Ended(c) ELSE "returned"]
        /\ NoChange

-----------------------------------------------------------------------------
(* Table queries: single statements, and CreateMany chunk by chunk without a *)
(* transaction. They know nothing of deleted rows. Keys come only from the   *)
(* driver's report, which PostgreSQL's has not: there the answer has none.   *)
tableCreateMany(s) ==
    LET c == call[s]
        keys == Chunk(c, c.keys)
        given == [i \in DOMAIN keys |-> 0]
        next == c.next + Len(keys)
    IN  /\ c.pc = "table" /\ c.op = "tableCreateMany"
        /\ Insert(s, keys, given, [c EXCEPT !.next = next, !.affected = @ + Len(keys),
                                            !.created = IF c.dialect = "pgsql" THEN @
                                                        ELSE @ \o createdPrimaryValues(c, given),
                                            !.pc = IF next > Len(c.keys) THEN "returned" ELSE "table"])

tableChange(s) ==
    LET c == call[s]
        Meant(r) == r.table = "posts" /\ r.key = c.keys[1]
        hit == Match(s, Meant)
    IN  /\ c.pc = "table" /\ c.op \in {"tableUpdate", "tableDelete"}
        /\ ~Locked(s, Meant)
        /\ Change(s, [id \in hit |-> IF c.op = "tableDelete" THEN NoRow ELSE [View(s)[id] EXCEPT !.val = c.val]])
        /\ call' = [call EXCEPT ![s].affected = Cardinality(hit), ![s].pc = "returned"]
        /\ UNCHANGED seq

modelWriteStep(s) ==
    \/ runModelWrite(s) \/ hookFails(s) \/ databaseFails(s) \/ Commit(s) \/ Rollback(s)
    \/ applyModelAfterWrite(s)
    \/ createWithSpec(s) \/ afterCreate(s) \/ createManyBatchFast(s) \/ createManyBatch(s)
    \/ UpsertMany(s) \/ Upsert(s) \/ upsertRowsWithoutReturning(s)
    \/ updateInTransaction(s) \/ deleteInTransaction(s) \/ restoreInTransaction(s) \/ afterChange(s)
    \/ firstLookup(s) \/ firstInsert(s) \/ secondLookup(s)
    \/ tableCreateMany(s) \/ tableChange(s)
=============================================================================
