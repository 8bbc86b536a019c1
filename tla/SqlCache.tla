------------------------------- MODULE SqlCache -------------------------------
(* The cache of SQL texts (sql_cache.go) on top of internal/fifocache: a       *)
(* statement whose shape the key describes completely is compiled once, later  *)
(* ones take the text from the cache and only the arguments from themselves.   *)
(* A key is the tuple of the parts the code writes into the key string.        *)
EXTENDS SqlText, TLC

CONSTANTS
  Dialects,    \* the dialects in use
  Dialect,     \* Dialect.Compile: the text and arguments of <<dialect, statement>>
  Cached,      \* the statements run through the cache, with their dialects
  Compiling,   \* Compiling[d]: the statements given to dialect d only
  MaxSize      \* SQLCacheSize

ASSUME SqlCacheAssumption == MaxSize \in Nat \ {0}

VARIABLES
  items,  \* Cache.items: key to SQL text
  order,  \* Cache.order
  last    \* the last statement compiled, with its text and arguments

vars == <<items, order, last>>

-----------------------------------------------------------------------------
(* The key.  Each helper returns ok, the shape that enters the key and the     *)
(* arguments in the order of the text.                                         *)

Shape(shape, args) == [ok |-> TRUE, shape |-> shape, args |-> args]
NoShape == [ok |-> FALSE, shape |-> <<>>, args |-> <<>>]

RECURSIVE simpleConditionsArgs(_, _)

simpleJSONArgs(d, c) ==
  LET path == Arg(IF d = "pgsql" THEN "pgpath" ELSE "path", c.value[1].n)
      value == Arg(IF d \in {"mysql", "pgsql"} THEN "json" ELSE "val", c.value[2].n)
  IN CASE c.sub \in {"=", "!=", "contains"} -> Shape(<<>>, <<path, value>>)
       [] c.sub \in {"is null", "is not null", "exists"} -> Shape(<<>>, <<path>>)
       [] OTHER -> NoShape

\* The default case leaves the escape character out of the shape.
simpleConditionArgs(d, c) ==
  CASE c.op \in {"invalid", "raw", "in", "exists", "count", "fulltext"} -> NoShape
    [] c.op \in {"group", "not"} ->
         LET inner == simpleConditionsArgs(d, c.kids)
         IN [inner EXCEPT !.shape = <<c.op, inner.shape>>]
    [] c.op = "column" -> Shape(<<c.field, "col", c.sub, c.right>>, <<>>)
    [] c.op = "json" ->
         LET json == simpleJSONArgs(d, c)
         IN [json EXCEPT !.shape = <<c.field, "json", c.sub, c.value[1].n>>]
    [] c.op \in {"in_values", "not_in_values", "between"} ->
         Shape(<<c.field, c.op, Len(c.value)>>, c.value)
    [] c.op \in {"is null", "is not null"} -> Shape(<<c.field, c.op>>, <<>>)
    [] OTHER -> IF c.src # NoSource THEN NoShape ELSE Shape(<<c.field, c.op>>, <<c.value[1]>>)

simpleConditionsArgs(d, conditions) ==
  FoldLeft(LAMBDA acc, c :
             LET one == simpleConditionArgs(d, c)
             IN IF acc.ok /\ one.ok
                THEN Shape(Append(acc.shape, <<c.bool, one.shape>>), acc.args \o one.args)
                ELSE NoShape,
           Shape(<<>>, <<>>), conditions)

hasRawSelectOrOrder(stmt) ==
  \/ \E i \in DOMAIN stmt.select : stmt.select[i].kind \notin {"field", "count", "sum"}
  \/ \E i \in DOMAIN stmt.order : stmt.order[i].raw \/ stmt.order[i].args # <<>>

appendSelectShape(select) ==
  [i \in DOMAIN select |-> <<select[i].kind, select[i].expr, select[i].alias>>]

\* A key that forgets the direction of an order.
appendOrderShapeUndirected(orders) == [i \in DOMAIN orders |-> orders[i].expr]

appendOrderShape(orders) == [i \in DOMAIN orders |-> <<orders[i].expr, orders[i].desc>>]

selectSQLCacheKey(d, stmt) ==
  LET where == simpleConditionsArgs(d, stmt.where)
  IN IF \/ stmt.from # NoSource \/ stmt.joins # <<>> \/ stmt.having # <<>> \/ stmt.group # <<>>
        \/ stmt.lock # "" \/ hasRawSelectOrOrder(stmt) \/ ~where.ok
     THEN NoShape
     ELSE Shape(<<"s", d, stmt.table, stmt.alias, appendSelectShape(stmt.select), where.shape,
                  appendOrderShape(stmt.order), stmt.limit, stmt.offset>>, where.args)

insertSQLCacheKey(d, stmt) ==
  IF ~sameColumns(stmt.values) \/ stmt.conflict.columns # <<>> THEN NoShape
  ELSE LET keys == sortedKeys(stmt.values[1])
       IN Shape(<<"i", d, stmt.table, stmt.returning, Len(stmt.values), keys>>,
                FlattenSeq([r \in DOMAIN stmt.values |->
                              [k \in DOMAIN keys |-> Arg("val", stmt.values[r][keys[k]])]]))

simpleSetValueArgs(to) ==
  CASE to.kind \in {"inc", "dec"} -> Shape(<<to.kind>>, <<Arg("val", to.value)>>)
    [] to.kind = "raw" -> IF to.raw.sql = <<>> THEN NoShape
                          ELSE Shape(<<"raw", to.raw.sql, Len(to.raw.args)>>, to.raw.args)
    [] OTHER -> Shape(<<"value">>, <<Arg("val", to.value)>>)

updateSQLCacheKey(d, stmt) ==
  LET keys == sortedKeys(stmt.values)
      sets == [k \in DOMAIN keys |-> simpleSetValueArgs(stmt.values[keys[k]])]
      where == simpleConditionsArgs(d, stmt.where)
  IN IF keys = <<>> \/ ~where.ok \/ \E k \in DOMAIN keys : ~sets[k].ok THEN NoShape
     ELSE Shape(<<"u", d, stmt.table, [k \in DOMAIN keys |-> <<keys[k], sets[k].shape>>], where.shape>>,
                FlattenSeq([k \in DOMAIN keys |-> sets[k].args]) \o where.args)

deleteSQLCacheKey(d, stmt) ==
  LET where == simpleConditionsArgs(d, stmt.where)
  IN IF ~where.ok THEN NoShape ELSE Shape(<<"d", d, stmt.table, where.shape>>, where.args)

lightweightSQLCacheKey(d, stmt) ==
  CASE stmt.kind = "select" -> selectSQLCacheKey(d, stmt)
    [] stmt.kind = "insert" -> insertSQLCacheKey(d, stmt)
    [] stmt.kind = "update" -> updateSQLCacheKey(d, stmt)
    [] OTHER -> deleteSQLCacheKey(d, stmt)

-----------------------------------------------------------------------------
(* The cache *)

Nothing == [d |-> "", cached |-> TRUE, stmt |-> DeleteAST, out |-> Empty]

Init == items = <<>> /\ order = <<>> /\ last = Nothing

\* Cache.setLocked: a new key pushes out the oldest one.
setLocked(key, sql) ==
  LET full == Cardinality(DOMAIN items) >= MaxSize /\ order # <<>>
      kept == IF full THEN DOMAIN items \ {order[1]} ELSE DOMAIN items
  IN IF key \in DOMAIN items
     THEN items' = [items EXCEPT ![key] = sql] /\ UNCHANGED order
     ELSE /\ items' = (key :> sql) @@ [k \in kept |-> items[k]]
          /\ order' = Append(IF full THEN Tail(order) ELSE order, key)

\* compileStatementSQL: the text from the cache with the arguments of the key, or
\* the dialect's, which is then stored unless it is an error or empty.
compileStatementSQL(d, stmt) ==
  LET key == lightweightSQLCacheKey(d, stmt)
      hit == key.ok /\ key.shape \in DOMAIN items
      out == IF hit THEN Compiled(items[key.shape], key.args) ELSE Dialect[d, stmt]
  IN /\ last' = [d |-> d, cached |-> TRUE, stmt |-> stmt, out |-> out]
     /\ IF key.ok /\ ~hit /\ out.ok /\ out.sql # <<>> THEN setLocked(key.shape, out.sql)
        ELSE UNCHANGED <<items, order>>

Execute ==
  /\ last.cached
  /\ \E c \in Cached : compileStatementSQL(c.d, c.stmt)

\* A statement given to the dialect only; the program ends there.
CompileOnly ==
  /\ last = Nothing
  /\ \E d \in Dialects : \E stmt \in Compiling[d] :
       last' = [d |-> d, cached |-> FALSE, stmt |-> stmt, out |-> Dialect[d, stmt]]
  /\ UNCHANGED <<items, order>>

Next == Execute \/ CompileOnly

Spec == Init /\ [][Next]_vars

-----------------------------------------------------------------------------
(* Properties *)

\* Every value the caller gave stands in the hole of its own clause: reading the
\* text with its arguments, as the database does, gives the values of the
\* statement in the order of its clauses, through joins, nested groups,
\* subqueries, raw fragments and rebased numbers.  For PostgreSQL the raw
\* fragments of SET and ORDER BY are excepted: its compileSet and compileOrder
\* (driver/pgsql/dialect.go:630, 969) leave a caller's "?" as it is, and the
\* database refuses it, unlike the other two (MCSqlRawHoles.cfg); a number the
\* caller wrote is kept.
ValuesInPlace ==
  LET c == last.out
      read == IF last.d = "pgsql" THEN ReadNumbered(c) ELSE ReadPositional(c)
  IN c.ok => [i \in DOMAIN read |-> read[i].n] = Values(last.stmt)

\* Whatever was executed before, the text and the arguments a statement is sent
\* with are the ones the dialect makes of that statement: a key describes the
\* text completely (compileStatementSQL, lightweightSQLCacheKey).
TextIsCompiled == last.d # "" => last.out = Dialect[last.d, last.stmt]
=============================================================================
