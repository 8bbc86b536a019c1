----------------------------- MODULE SqliteDialect ----------------------------
(* The compiler of driver/sqlite/dialect.go: positional holes, ON CONFLICT as   *)
(* in PostgreSQL, no locks, no full text search.                               *)
EXTENDS SqlText

RECURSIVE compileSelect(_), compileWhere(_), compileJoinConditions(_)

Hole(arg) == Compiled(<<Word("?")>>, <<arg>>)
RawText(raw) == Compiled(raw.sql, raw.args)

compileScalarSource(source) ==
  CASE source.query # <<>> -> Paren(compileSelect(source.query[1]))
    [] source.query = <<>> /\ source.raw # <<>> -> Paren(RawText(source.raw[1]))
    [] OTHER -> Invalid

compileSource(source) ==
  IF source.table # "" THEN Cat(Text(<<source.table>>), As(source.alias))
  ELSE IF source.alias = "" THEN Invalid
  ELSE Cat(compileScalarSource(source), As(source.alias))

compileSelectSource(stmt) ==
  IF stmt.from = NoSource
  THEN compileSource([NoSource EXCEPT !.table = stmt.table, !.alias = stmt.alias])
  ELSE compileSource([stmt.from EXCEPT !.alias = IF @ = "" THEN stmt.alias ELSE @])

compileSelectExpr(item) ==
  CASE item.kind \in {"source", "exists"} ->
         IF item.alias = "" THEN Invalid
         ELSE Cat(Cat(IF item.kind = "exists" THEN Text(<<"exists">>) ELSE Empty,
                      compileScalarSource(item.src)), As(item.alias))
    [] item.kind = "score" -> Invalid
    [] item.kind = "raw" -> Cat(RawText(item.raw), As(item.alias))
    [] OTHER -> Cat(Text(<<item.kind, item.expr>>), As(item.alias))

compileJoinConditions(conditions) ==
  LET One(c) == IF c.group # <<>> THEN Paren(compileJoinConditions(c.group))
                ELSE IF c.column THEN Text(<<"left", "=", "right">>)
                ELSE Cat(Text(<<"left", "=">>), Hole(Arg("val", c.value)))
  IN FoldLeft(LAMBDA acc, i : Conjoin(acc, i, conditions[i].bool, One(conditions[i])),
              Empty, [i \in DOMAIN conditions |-> i])

compileJoin(join) ==
  IF join.raw # <<>> THEN RawText(join.raw[1])
  ELSE Cat(Cat(Text(<<join.type>>), compileSource(join.source)),
           CASE join.type = "cross join" -> Empty
             [] join.type # "cross join" /\ join.on = <<>> -> Invalid
             [] OTHER -> Cat(Text(<<"on">>), compileJoinConditions(join.on)))

compileJoins(joins) == ListOf(compileJoin, joins, <<>>)

compileInValuesCondition(c) ==
  IF c.value = <<>> THEN Text(<<"1", IF c.op = "not_in_values" THEN "=1" ELSE "=0">>)
  ELSE Cat(Text(<<c.field, c.op>>), Paren(ListOf(Hole, c.value, <<",">>)))

compileBetweenCondition(c) ==
  IF Len(c.value) # 2 THEN Invalid
  ELSE Cat(Cat(Text(<<c.field, "between">>), Hole(c.value[1])), Cat(Text(<<"and">>), Hole(c.value[2])))

compileCountCondition(c) ==
  Cat(Cat(compileScalarSource(c.src), Text(<<c.sub>>)), Hole(c.value[1]))

\* SQLite compares the value as it is and has no containment test.
compileJSONCondition(c) ==
  LET path == Hole(Arg("path", c.value[1].n))
      expr == Cat(Text(<<"json_extract", c.field>>), path)
  IN CASE c.sub \in {"=", "!=", "like"} -> Cat(Cat(expr, Text(<<c.sub>>)), Hole(c.value[2]))
       [] c.sub \in {"is null", "is not null"} -> Cat(expr, Text(<<c.sub>>))
       [] c.sub = "exists" -> Cat(Text(<<"json_type", c.field>>), path)
       [] OTHER -> Invalid

compileFullTextCondition(c) == Invalid

compileColumnCondition(c) ==
  IF c.right = "" \/ c.sub \notin SafeColumnOperators THEN Invalid
  ELSE Text(<<c.field, c.sub, c.right>>)

compileComparison(c) ==
  IF c.op \notin SafeOperators THEN Invalid
  ELSE IF c.src # NoSource THEN Cat(Text(<<c.field, c.op>>), compileScalarSource(c.src))
  ELSE Cat(Cat(Text(<<c.field, c.op>>), Hole(c.value[1])),
           IF c.escape THEN Text(<<"escape">>) ELSE Empty)

compileCondition(c) ==
  CASE c.op \in {"group", "not"} -> Grouped(c.op, compileWhere(c.kids))
    [] c.op = "invalid" -> Invalid
    [] c.op = "raw" -> RawText(c.raw)
    [] c.op = "json" -> compileJSONCondition(c)
    [] c.op = "fulltext" -> compileFullTextCondition(c)
    [] c.op = "column" -> compileColumnCondition(c)
    [] c.op = "in" -> Cat(Text(<<c.field, "in">>), compileScalarSource(c.src))
    [] c.op \in {"in_values", "not_in_values"} -> compileInValuesCondition(c)
    [] c.op = "between" -> compileBetweenCondition(c)
    [] c.op = "exists" -> Cat(Text(<<"exists">>), compileScalarSource(c.src))
    [] c.op = "count" -> compileCountCondition(c)
    [] c.op \in {"is null", "is not null"} -> Text(<<c.field, c.op>>)
    [] OTHER -> compileComparison(c)

compileWhere(conditions) ==
  FoldLeft(LAMBDA acc, i :
             Conjoin(acc, i, conditions[i].bool, compileCondition(conditions[i])),
           Empty, [i \in DOMAIN conditions |-> i])

compileOrder(items) ==
  ListOf(LAMBDA item : Compiled(item.expr \o Words(IF item.desc THEN <<"desc">>
                                                   ELSE IF item.raw THEN <<>> ELSE <<"asc">>),
                                item.args),
         items, <<",">>)

\* SQLite locks the whole file: a lock is left out, its options are refused.
compileLock(stmt) == IF stmt.lock # "" /\ stmt.wait # "" THEN Invalid ELSE Empty

\* OFFSET needs a LIMIT: -1 stands for none.
compilePage(stmt) ==
  IF stmt.limit < NoLimit \/ stmt.offset < NoLimit THEN Invalid
  ELSE Cat(IF stmt.limit >= 0 THEN Compiled(<<Arg("limit", stmt.limit)>>, <<>>)
           ELSE IF stmt.offset >= 0 THEN Text(<<"limit -1">>) ELSE Empty,
           IF stmt.offset < 0 THEN Empty ELSE Compiled(<<Arg("offset", stmt.offset)>>, <<>>))

compileSelect(stmt) ==
  FoldLeft(Cat, Text(<<"select">>),
           <<OrElseText(ListOf(compileSelectExpr, stmt.select, <<",">>), <<"*">>),
             Text(<<"from">>), compileSelectSource(stmt),
             compileJoins(stmt.joins),
             Clause(<<"where">>, compileWhere(stmt.where)),
             Clause(<<"group by">>, Text(stmt.group)),
             Clause(<<"having">>, compileWhere(stmt.having)),
             Clause(<<"order by">>, compileOrder(stmt.order)),
             compilePage(stmt), compileLock(stmt)>>)

-----------------------------------------------------------------------------
(* Writes *)

compileSet(column, to) ==
  LET is == Text(<<column, "=">>)
  IN CASE to.kind = "inc" -> Cat(Cat(is, Text(<<column, "+">>)), Hole(Arg("val", to.value)))
       [] to.kind = "dec" -> Cat(Cat(is, Text(<<column, "-">>)), Hole(Arg("val", to.value)))
       [] to.kind = "raw" -> Cat(is, RawText(to.raw))
       [] OTHER -> Cat(is, Hole(Arg("val", to.value)))

compileSets(values) == ListOf(LAMBDA c : compileSet(c, values[c]), sortedKeys(values), <<",">>)

compileValues(stmt) ==
  LET columns == sortedKeys(stmt.values[1])
      Row(row) == Paren(ListOf(LAMBDA c : Hole(Arg("val", row[c])), columns, <<",">>))
  IN IF ~sameColumns(stmt.values) THEN Invalid
     ELSE Cat(Text(<<"insert into", stmt.table>> \o columns), ListOf(Row, stmt.values, <<",">>))

compileConflictUpdate(conflict, row) ==
  LET fields == conflictColumns(conflict, row)
      first == conflict.columns[1]
      Excluded(c) == Text(<<c, "= excluded.", c>>)
  IN CASE conflict.doNothing -> Text(<<"do nothing">>)
       [] ~conflict.doNothing /\ DOMAIN conflict.map # {} -> Cat(Text(<<"do update set">>), compileSets(conflict.map))
       [] OTHER -> Cat(Text(<<"do update set">>),
                       IF fields = <<>> THEN Text(<<first, "=", first>>) ELSE ListOf(Excluded, fields, <<",">>))

compileUpsert(stmt) ==
  Cat(Cat(compileValues(stmt), Text(<<"on conflict">> \o stmt.conflict.columns)),
      compileConflictUpdate(stmt.conflict, stmt.values[1]))

compileInsert(stmt) ==
  IF stmt.values = <<>> THEN Invalid
  ELSE Cat(IF stmt.conflict.columns # <<>> THEN compileUpsert(stmt) ELSE compileValues(stmt),
           IF stmt.returning THEN Text(<<"returning *">>) ELSE Empty)

compileUpdate(stmt) ==
  IF DOMAIN stmt.values = {} THEN Invalid
  ELSE Cat(Cat(Text(<<"update", stmt.table, "set">>), compileSets(stmt.values)),
           Clause(<<"where">>, compileWhere(stmt.where)))

compileDelete(stmt) == Cat(Text(<<"delete from", stmt.table>>), Clause(<<"where">>, compileWhere(stmt.where)))

Compile(stmt) ==
  CASE stmt.kind = "select" -> compileSelect(stmt)
    [] stmt.kind = "insert" -> compileInsert(stmt)
    [] stmt.kind = "update" -> compileUpdate(stmt)
    [] OTHER -> compileDelete(stmt)
=============================================================================
