------------------------------- MODULE Shards -------------------------------
(***************************************************************************)
(* Sharded tables: the choice of the shard that holds a row, reads that go  *)
(* to all shards and are merged, and their pages. A shard is a number, its  *)
(* rows a list of values to order by, 0 for NULL. The column that they are  *)
(* of says what Go makes of them: numbers and times, or text, of which       *)
(* `bytes` is the place in the order of strings.Compare; decimals are text. *)
(***************************************************************************)
EXTENDS Integers, Sequences, FiniteSets
LOCAL INSTANCE SequencesExt
LOCAL INSTANCE FiniteSetsExt

Answer(rows, total, pages) == [rows |-> rows, total |-> total, pages |-> pages]

compareOrderValues(left, right, column) ==
    CASE left = right -> 0
      [] left # right /\ left = 0 -> -1
      [] left # right /\ right = 0 -> 1
      [] OTHER -> IF IF column.numeric THEN left < right ELSE column.bytes[left] < column.bytes[right]
                  THEN -1 ELSE 1

compareOrderedRows(left, right, q) ==
    LET result == compareOrderValues(left.value, right.value, q.column)
    IN  IF q.order = "desc" THEN -result ELSE result

(* A stable sort, then the page. *)
applyGlobalShardOrderAndPage(rows, q) ==
    LET Rank(i) == Cardinality({j \in DOMAIN rows :
                      LET c == compareOrderedRows(rows[j], rows[i], q)
                      IN  c < 0 \/ (c = 0 /\ j <= i)})
        sorted == IF q.order = "none" THEN rows
                  ELSE [n \in DOMAIN rows |-> rows[CHOOSE i \in DOMAIN rows : Rank(i) = n]]
        end == IF q.limit >= 0 /\ q.offset + q.limit < Len(rows) THEN q.offset + q.limit ELSE Len(rows)
    IN  SubSeq(sorted, q.offset + 1, end)

(* The rows of a shard, each known by its shard and its place. *)
RowsOf(q, s) == [i \in DOMAIN q.shards[s] |-> [at |-> <<s, i>>, value |-> q.shards[s][i]]]

(* A mutant of fanOutShardRows: every shard applies the page by itself. *)
fanOutPages(q) ==
    applyGlobalShardOrderAndPage(
        FlattenSeq([s \in DOMAIN q.shards |->
            applyGlobalShardOrderAndPage(RowsOf(q, s), q)]),
        [q EXCEPT !.offset = 0, !.limit = -1])

fanOutShardRows(q) ==
    applyGlobalShardOrderAndPage(FlattenSeq([s \in DOMAIN q.shards |-> RowsOf(q, s)]), q)

queryAllShardCounts(q) == MapThenSumSet(LAMBDA s : Len(q.shards[s]), DOMAIN q.shards)

queryAllShardExists(q) == \E s \in DOMAIN q.shards : q.shards[s] # <<>>

pagesForTotal(total, size) == (total + size - 1) \div size

(* A raw order cannot be merged, nor one by a column that was not read. A   *)
(* read over all shards leaves the connection of a transaction, except that *)
(* Exists of a table stops at the first shard with a row.                  *)
Refused(q) ==
    \/ /\ q.tx # 0
       /\ ~(q.op = "exists" /\ ~q.model /\ q.tx = 1 /\ q.shards[1] # <<>>)
    \/ q.order = "raw" /\ q.op \notin {"count", "exists"}
    \/ q.order = "unread" /\ q.op \notin {"count", "exists"} /\ queryAllShardExists(q)
    \/ q.order = "none" /\ q.op = "first"
    \/ q.op = "page" /\ (q.limit < 1 \/ q.page < 1)

AllShards(q) ==
    LET total == queryAllShardCounts(q)
        Rows(offset, limit) == fanOutShardRows([q EXCEPT !.offset = offset, !.limit = limit])
    IN  CASE q.op = "get" -> Answer(Rows(q.offset, q.limit), 0, 0)
          [] q.op = "first" -> Answer(Rows(q.offset, 1), 0, 0)
          [] q.op = "count" -> Answer(<<>>, total, 0)
          [] q.op = "exists" -> Answer(<<>>, IF queryAllShardExists(q) THEN 1 ELSE 0, 0)
          [] q.op = "page" ->
                Answer(Rows((q.page - 1) * q.limit, q.limit), total, pagesForTotal(total, q.limit))

-----------------------------------------------------------------------------
(* The strategies. A value is a pair <<Go kind, number>>.                  *)
Integer(value) == value[1] \in {"int", "uint8", "uint64"}

ModPick(value, n) ==
    IF Integer(value) /\ value[2] >= 0 THEN 1 + (value[2] % n) ELSE 0

(* fnv.New64a stands for some function of the text that fmt.Sprint gives to   *)
(* a number, the same for all kinds.                                        *)
Fnv(number) == number * number

HashPick(value, n) == 1 + (Fnv(value[2]) % n)

(* The first range that holds the value, if its connection is one of the    *)
(* shards. *)
RangePick(value, n, ranges) ==
    LET fits == {i \in DOMAIN ranges : ranges[i].min <= value[2] /\ value[2] <= ranges[i].max}
    IN  IF Integer(value) /\ fits # {} /\ ranges[Min(fits)].shard <= n THEN ranges[Min(fits)].shard ELSE 0

Pick(strategy, value, n) ==
    CASE value[1] = "nil" -> 0
      [] value[1] # "nil" /\ strategy.kind = "mod" -> ModPick(value, n)
      [] value[1] # "nil" /\ strategy.kind = "hash" -> HashPick(value, n)
      [] OTHER -> RangePick(value, n, strategy.ranges)

(* The shard of a model's query: the caller's value goes before the one of  *)
(* the tenant, and inside a transaction it has to be that of the           *)
(* transaction. 0 is an error.                                             *)
applyShardConnection(q) ==
    LET value == IF q.explicit[1] # "nil" THEN q.explicit ELSE q.tenant
        shard == Pick(q.strategy, value, 2)
    IN  IF q.tx \in {0, shard} THEN shard ELSE 0

(* A create names the shard by a value and writes one into the row: they    *)
(* must be the same value of the same kind.                                *)
validateShardWriteValues(q, written) ==
    LET value == IF q.explicit[1] # "nil" THEN q.explicit ELSE q.tenant
    IN  value = written
=============================================================================
