------------------------------- MODULE Reads --------------------------------
(***************************************************************************)
(* What a call of the library is about: the rows that its conditions and    *)
(* scopes select, the relations it loads, the shards it goes to. One call,  *)
(* compared with what the caller asked for.                                *)
(***************************************************************************)
EXTENDS QueryScope, RelationLoad, Shards, TLC

CONSTANTS Wheres,                   \* condition lists of callers, with the alias of the query
          Filters,                  \* relations that WithCount counts, with the alias
          Tenants,                  \* where the tenant comes from
          Models, Tables,           \* loaded models; rows of a relation's tables
          Batches,                  \* configured batch sizes
          ShardRows, Strategies,    \* rows of every shard, shard strategies
          OrderColumns,             \* columns that rows of shards are ordered by
          ShardValues               \* values a shard is chosen by

VARIABLES call, result

vars == <<call, result>>

RECURSIVE Plain(_)
(* Conditions without relation filters: a table query has no relations. *)
Plain(cs) == \A i \in DOMAIN cs : cs[i].op # "relation_filter" /\ Plain(cs[i].conds)

Asking(kind) ==
    \E asked \in Wheres, mode \in {"default", "with", "only"}, t \in Tenants :
        /\ kind \in {"tableRead", "tableChange"} => mode = "default" /\ Plain(asked.where)
        /\ kind \in {"change", "restore"} => asked.alias = ""
        /\ call = [kind |-> kind, where |-> asked.where, alias |-> asked.alias, mode |-> mode,
                   handle |-> t.handle, context |-> t.context, resolver |-> t.resolver]

Counting ==
    \E f \in Filters, t \in Tenants :
        call = [kind |-> "withCount", filter |-> f.filter, where |-> <<f.filter>>, alias |-> f.alias,
                mode |-> "default", handle |-> t.handle, context |-> t.context, resolver |-> t.resolver]

Loading ==
    \E rel \in Relations, models \in Models, tables \in Tables, batch \in Batches :
        call = [kind |-> "load", rel |-> rel, models |-> models, batch |-> batch,
                rows |-> tables.rows, through |-> tables.through]

ReadingShards ==
    \E shards \in ShardRows, op \in {"get", "first", "count", "exists", "page"},
       order \in {"none", "asc", "desc", "raw", "unread"}, column \in OrderColumns, model \in BOOLEAN, tx \in 0 .. 1,
       offset \in 0 .. 3, limit \in -1 .. 2 :
        call = [kind |-> "allShards", shards |-> shards, op |-> op, order |-> order,
                column |-> column, model |-> model, tx |-> tx, offset |-> offset, limit |-> limit, page |-> offset]

(* A row is created with one value for the shard and looked up with another. *)
Creating ==
    \E strategy \in Strategies, explicit, tenant, written, asked \in ShardValues, tx \in 0 .. 2 :
        call = [kind |-> "row", strategy |-> strategy, explicit |-> explicit, tenant |-> tenant,
                written |-> written, asked |-> asked, tx |-> tx]

Pending == [done |-> FALSE, error |-> FALSE]
Failed  == [done |-> TRUE, error |-> TRUE]

Init ==
    /\ \/ \E kind \in {"read", "find", "change", "restore", "tableRead", "tableChange"} : Asking(kind)
       \/ Counting \/ Loading \/ ReadingShards \/ Creating
    /\ result = Pending

Running(kind) == call.kind = kind /\ ~result.done

(* The rows that conditions select, unless the call fails: an unknown field, *)
(* a tenant that cannot be told, a write without conditions.                *)
Found(conditions) ==
    IF \/ ~convertModelConditions(call.where)
       \/ TenantError(call) /\ call.kind # "tableChange"
       \/ call.where = <<>> /\ call.kind \in {"change", "restore", "tableChange"}
    THEN Failed
    ELSE [done |-> TRUE, error |-> FALSE,
          rows |-> {p \in Posts : Selects(conditions, LAMBDA c : Holds(c, p, p))}]

(* First, Get, Count, Exists, the aggregates, Stream, Chunk and Paginate. *)
ModelRead ==
    /\ Running("read")
    /\ result' = Found(modelQuerySpec(call))
    /\ UNCHANGED call

Find ==
    /\ Running("find")
    /\ result' = Found(modelQuerySpec(call) \o <<Test("id")>>)
    /\ UNCHANGED call

(* Update, Delete and ForceDelete. *)
ModelChange ==
    /\ Running("change")
    /\ result' = Found(modelWriteSpecMode(call))
    /\ UNCHANGED call

Restore ==
    /\ Running("restore")
    /\ result' = Found(withoutSoftDeleteConditions(modelWriteSpecMode(call)) \o <<Test("is not null")>>)
    /\ UNCHANGED call

TableRead ==
    /\ Running("tableRead")
    /\ result' = Found(finalizeReadSpec(call))
    /\ UNCHANGED call

TableChange ==
    /\ Running("tableChange")
    /\ result' = Found(call.where)
    /\ UNCHANGED call

WithCount ==
    /\ Running("withCount")
    /\ result' = IF TenantError(call) \/ ~convertModelConditions(call.where) THEN Failed
                 ELSE [done |-> TRUE, error |-> FALSE,
                       counts |-> {<<p, buildRelationAggregateSelect(call.filter, call, p)>> : p \in Posts}]
    /\ UNCHANGED call

LoadRelations ==
    /\ Running("load")
    /\ result' = [done |-> TRUE, error |-> FALSE, loaded |-> loadAnyModelRelations(call)]
    /\ UNCHANGED call

ReadAllShards ==
    /\ Running("allShards")
    /\ result' = IF Refused(call) THEN Failed ELSE [done |-> TRUE, error |-> FALSE] @@ AllShards(call)
    /\ UNCHANGED call

CreateAndFind ==
    LET find == [call EXCEPT !.explicit = call.asked, !.tx = 0]
    IN  /\ Running("row")
        /\ result' = IF \/ ~validateShardWriteValues(call, call.written)
                        \/ applyShardConnection(call) = 0 \/ applyShardConnection(find) = 0
                     THEN Failed
                     ELSE [done |-> TRUE, error |-> FALSE,
                           written |-> applyShardConnection(call), found |-> applyShardConnection(find)]
        /\ UNCHANGED call

Next == \/ ModelRead \/ Find \/ ModelChange \/ Restore \/ TableRead \/ TableChange
        \/ WithCount \/ LoadRelations \/ ReadAllShards \/ CreateAndFind

Spec == Init /\ [][Next]_vars

-----------------------------------------------------------------------------
(* What the caller means by the scopes: the rows of the tenant, and the      *)
(* deleted ones only where the mode says so.                               *)
InScope(row, mode, q) ==
    /\ values(q) \in {"without", row.tenant}
    /\ mode = "default" => ~row.gone
    /\ mode = "only" => row.gone

RECURSIVE Means(_, _, _)
(* The rows that the caller means by a relation and its callback. *)
RelatedInScope(c, row, q) ==
    {to \in Related(c.rel) : /\ Joined(c.rel, row, to)
                             /\ Dynamic(c.rel) => to.typed
                             /\ Selects(c.conds, LAMBDA d : Means(d, to, q))
                             /\ InScope(to, c.mode, q)}

Means(c, row, q) ==
    CASE c.op = "group" -> Selects(c.conds, LAMBDA d : Means(d, row, q))
      [] c.op = "not" -> ~Selects(c.conds, LAMBDA d : Means(d, row, q))
      [] c.op = "relation_filter" -> (c.not = c.count) = (RelatedInScope(c, row, q) # {})
      [] OTHER -> Holds(c, row, row)

(* Every operation is about the rows that meet the caller's conditions and  *)
(* lie in the scopes of the operation, whatever the conditions, groups,     *)
(* negations and nested relation filters are and wherever the tenant comes  *)
(* from: the conditions that the library adds (tenant, soft delete, key,    *)
(* correlation of subqueries) neither lose nor add rows. A filter by a      *)
(* relation of a table to itself is covered where the query has an alias    *)
(* (As): without one, or nested, relation_filter.go:229-230 qualifies both  *)
(* sides by the table's name and the subquery compares each row with        *)
(* itself (MCReadsSelf.cfg).                                               *)
ScopeHolds ==
    result.done /\ ~result.error =>
    CASE call.kind = "withCount" ->
            \A pair \in result.counts : pair[2] = Cardinality(RelatedInScope(call.filter, pair[1], call))
      [] call.kind \in {"read", "find", "change", "restore", "tableRead", "tableChange"} ->
            LET mode == IF call.kind = "restore" THEN "only" ELSE call.mode
            IN  result.rows = {p \in Posts :
                    /\ Selects(call.where, LAMBDA c : Means(c, p, call))
                    /\ call.kind # "tableChange" => InScope(p, mode, call)
                    /\ call.kind = "find" => p = Key}
      [] OTHER -> TRUE

(* A model gets exactly the rows of a relation that belong to it, however   *)
(* the keys are spread over chunks, repeated, NULL or of another Go type    *)
(* than the rows: none of another model, none missing, none twice.          *)
LoadedIsRelated ==
    call.kind = "load" /\ result.done => RelatedIs(call, result.loaded)

(* How the database orders the values of a column: by what they are, with   *)
(* NULL before (MySQL, SQLite) or after the others (PostgreSQL).           *)
Less(column, x, y) ==
    IF 0 \in {x, y} THEN x # y /\ (y = 0) = column.nullsLast ELSE x < y

(* Rows strictly before a row in the order asked for. *)
Before(q, row) ==
    {at \in {<<s, i>> : s \in DOMAIN q.shards, i \in 1 .. 2} :
        /\ at[2] <= Len(q.shards[at[1]])
        /\ LET value == q.shards[at[1]][at[2]]
           IN  IF q.order = "desc" THEN Less(q.column, row.value, value) ELSE Less(q.column, value, row.value)}

(* The shards are one table: a page over all of them is the page of the      *)
(* whole, in its order and without repetition, with the total and the number *)
(* of pages that go with it; and a row created with a shard value is found    *)
(* with an equal one, of whatever integer type. The order is one by numbers, *)
(* times or text that the database compares byte by byte, NULL first:        *)
(* shard.go:402-416 compares decimals (scanconv/value.go:38, 58) and text of *)
(* another collation as strings too, so that "10.00" goes before "9.00", and *)
(* shard.go:388-396 puts NULL first where PostgreSQL puts it last; then the  *)
(* page is not the one of the whole (MCReadsOrder.cfg).                     *)
ShardsAreOneTable ==
    result.done /\ ~result.error =>
    /\ call.kind = "allShards" =>
          LET q == call
              all == Len(q.shards[1]) + Len(q.shards[2])
              limit == IF q.op = "first" THEN 1 ELSE IF q.limit < 0 THEN all ELSE q.limit
              offset == IF q.op = "page" THEN (q.page - 1) * q.limit ELSE q.offset
              due == IF offset >= all THEN 0 ELSE IF offset + limit > all THEN all - offset ELSE limit
              rows == result.rows
          IN  CASE q.op = "count" -> result.total = all
                [] q.op = "exists" -> (result.total = 1) = (all > 0)
                [] OTHER ->
                      /\ Len(rows) = due
                      /\ \A m, n \in DOMAIN rows : m # n => rows[m].at # rows[n].at
                      /\ q.order \in {"asc", "desc"} => \A n \in DOMAIN rows :
                            /\ Cardinality(Before(q, rows[n])) < offset + n
                            /\ \A m \in 1 .. n - 1 : Before(q, rows[m]) \subseteq Before(q, rows[n])
                      /\ q.op = "page" => /\ result.total = all
                                         /\ result.pages * q.limit >= all
                                         /\ (result.pages - 1) * q.limit < all
    /\ call.kind = "row" =>
          (call.asked \in {<<"int", call.written[2]>>, <<"uint64", call.written[2]>>} => result.found = result.written)
=============================================================================
