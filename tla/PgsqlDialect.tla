----------------------------- MODULE PgsqlDialect -----------------------------
(* The compiler of driver/pgsql/dialect.go: holes are numbered $1, $2, ...  A  *)
(* part is compiled where the numbering has got to; a part that was numbered   *)
(* from 1, or that the caller wrote, is rebased.  In the code each function    *)
(* also returns the next number: it is start plus the number of arguments.     *)
EXTENDS SqlText

RECURSIVE compileSelect(_), compileWhere(_, _), compileJoinConditions(_, _)

Placeholder(index) == [w |-> "$", n |-> index]
Hole(index, arg) == Compiled(<<Placeholder(index)>>, <<arg>>)

\* A text with a question mark anywhere has its bare ones numbered; any other has
\* its numbers shifted.
rebasePlaceholders(sql, offset) ==
  IF \E i \in DOMAIN sql : sql[i].w \in {"?", "'?'"}
  THEN [i \in DOMAIN sql |->
          IF sql[i].w = "?"
          THEN Placeholder(offset + Cardinality({j \in 1..i : sql[j].w = "?"})) ELSE sql[i]]
  ELSE [i \in DOMAIN sql |-> IF sql[i].w = "$" THEN Placeholder(sql[i].n + offset) ELSE sql[i]]

Rebased(c, start) == [c EXCEPT !.sql = rebasePlaceholders(c.sql, start - 1)]
RawText(raw, start) == Rebased(Compiled(raw.sql, raw.args), start)

compileScalarSource(source, start) ==
  CASE source.query # <<>> -> Paren(Rebased(compileSelect(source.query[1]), start))
    [] source.query = <<>> /\ source.raw # <<>> -> Paren(RawText(source.raw[1], start))
    [] OTHER -> Invalid

compileSource(source, start) ==
  IF source.table # "" THEN Cat(Text(<<source.table>>), As(source.alias))
  ELSE IF source.alias = "" THEN Invalid
  ELSE Cat(compileScalarSource(source, start), As(source.alias))

compileSelectSource(stmt, start) ==
  IF stmt.from = NoSource
  THEN compileSource([NoSource EXCEPT !.table = stmt.table, !.alias = stmt.alias], start)
  ELSE compileSource([stmt.from EXCEPT !.alias = IF @ = "" THEN stmt.alias ELSE @], start)

compileFullTextScore(item, start) == Cat(Text(<<"ts_rank", "plainto_tsquery">>), Hole(start, Arg("val", item.value)))

compileSelectExpr(item, start) ==
  CASE item.kind \in {"source", "exists"} ->
         IF item.alias = "" THEN Invalid
         ELSE Cat(Cat(IF item.kind = "exists" THEN Text(<<"exists">>) ELSE Empty,
                      compileScalarSource(item.src, start)), As(item.alias))
    [] item.kind = "score" -> Cat(compileFullTextScore(item, start), As(item.alias))
    [] item.kind = "raw" -> Cat(RawText(item.raw, start), As(item.alias))
    [] OTHER -> Cat(Text(<<item.kind, item.expr>>), As(item.alias))

compileJoinConditions(conditions, start) ==
  LET One(c, at) == IF c.group # <<>> THEN Paren(compileJoinConditions(c.group, at))
                    ELSE IF c.column THEN Text(<<"left", "=", "right">>)
                    ELSE Cat(Text(<<"left", "=">>), Hole(at, Arg("val", c.value)))
  IN FoldLeft(LAMBDA acc, i :
                Conjoin(acc, i, conditions[i].bool, One(conditions[i], start + Len(acc.args))),
              Empty, [i \in DOMAIN conditions |-> i])

\* A join whose conditions are numbered as if its source had no arguments.
compileJoinUnshifted(join, start) ==
  IF join.raw # <<>> THEN RawText(join.raw[1], start)
  ELSE Cat(Cat(Cat(Text(<<join.type>>), compileSource(join.source, start)), Text(<<"on">>)),
           compileJoinConditions(join.on, start))

compileJoin(join, start) ==
  IF join.raw # <<>> THEN RawText(join.raw[1], start)
  ELSE Then(Cat(Text(<<join.type>>), compileSource(join.source, start)), start,
            LAMBDA at : CASE join.type = "cross join" -> Empty
                          [] join.type # "cross join" /\ join.on = <<>> -> Invalid
                          [] OTHER -> Cat(Text(<<"on">>), compileJoinConditions(join.on, at)))

compileJoins(joins, start) == List(compileJoin, joins, start, <<>>)

compileInValuesCondition(c, start) ==
  IF c.value = <<>> THEN Text(<<"1", IF c.op = "not_in_values" THEN "=1" ELSE "=0">>)
  ELSE Cat(Text(<<c.field, c.op>>),
           Paren(List(LAMBDA v, at : Hole(at, v), c.value, start, <<",">>)))

compileBetweenCondition(c, start) ==
  IF Len(c.value) # 2 THEN Invalid
  ELSE Cat(Cat(Text(<<c.field, "between">>), Hole(start, c.value[1])),
           Cat(Text(<<"and">>), Hole(start + 1, c.value[2])))

compileCountCondition(c, start) ==
  Then(Cat(compileScalarSource(c.src, start), Text(<<c.sub>>)), start, LAMBDA at : Hole(at, c.value[1]))

\* The JSON operators: the value is bound as JSON, except for LIKE.
compileJSONCondition(c, start) ==
  LET path == Hole(start, Arg("pgpath", c.value[1].n))
      expr == Cat(Text(<<c.field, "#>">>), path)
      json == Hole(start + 1, Arg("json", c.value[2].n))
  IN CASE c.sub \in {"=", "!=", "contains"} -> Cat(Cat(expr, Text(<<c.sub>>)), json)
       [] c.sub \in {"is null", "is not null"} -> Cat(expr, Text(<<c.sub>>))
       [] c.sub = "exists" -> Cat(expr, Text(<<"is not null">>))
       [] c.sub = "like" -> Cat(Cat(Text(<<c.field, "#>>">>), path),
                                Cat(Text(<<"like">>), Hole(start + 1, c.value[2])))
       [] OTHER -> Invalid

compileColumnCondition(c) ==
  IF c.right = "" \/ c.sub \notin SafeColumnOperators THEN Invalid
  ELSE Text(<<c.field, c.sub, c.right>>)

\* The default case of compileWhere: a comparison with a subquery or a value.
compileComparison(c, start) ==
  IF c.op \notin SafeOperators THEN Invalid
  ELSE IF c.src # NoSource
  THEN Cat(Text(<<c.field, c.op>>), compileScalarSource(c.src, start))
  ELSE Cat(Cat(Text(<<c.field, c.op>>), Hole(start, c.value[1])),
           IF c.escape THEN Text(<<"escape">>) ELSE Empty)

compileCondition(c, start) ==
  CASE c.op \in {"group", "not"} -> Grouped(c.op, compileWhere(c.kids, start))
    [] c.op = "invalid" -> Invalid
    [] c.op = "raw" -> RawText(c.raw, start)
    [] c.op = "json" -> compileJSONCondition(c, start)
    [] c.op = "fulltext" -> Cat(Text(<<c.field, "@@ plainto_tsquery">>), Hole(start, c.value[1]))
    [] c.op = "column" -> compileColumnCondition(c)
    [] c.op = "in" -> Cat(Text(<<c.field, "in">>), compileScalarSource(c.src, start))
    [] c.op \in {"in_values", "not_in_values"} -> compileInValuesCondition(c, start)
    [] c.op = "between" -> compileBetweenCondition(c, start)
    [] c.op = "exists" -> Cat(Text(<<"exists">>), compileScalarSource(c.src, start))
    [] c.op = "count" -> compileCountCondition(c, start)
    [] c.op \in {"is null", "is not null"} -> Text(<<c.field, c.op>>)
    [] OTHER -> compileComparison(c, start)

\* A group without conditions is skipped.
compileWhere(conditions, start) ==
  FoldLeft(LAMBDA acc, i :
             Conjoin(acc, i, conditions[i].bool, compileCondition(conditions[i], start + Len(acc.args))),
           Empty, [i \in DOMAIN conditions |-> i])

\* Raw order expressions keep the numbers the caller wrote.
compileOrder(items) ==
  List(LAMBDA item, at : Compiled(item.expr \o Words(IF item.desc THEN <<"desc">>
                                                     ELSE IF item.raw THEN <<>> ELSE <<"asc">>),
                                  item.args),
       items, 1, <<",">>)

compileLock(stmt) ==
  IF stmt.lock = "" THEN Empty ELSE Cat(Text(<<stmt.lock>>), Clause(<<>>, Text(<<stmt.wait>>)))

compilePage(stmt) ==
  IF stmt.limit < NoLimit \/ stmt.offset < NoLimit THEN Invalid
  ELSE Cat(IF stmt.limit < 0 THEN Empty ELSE Compiled(<<Arg("limit", stmt.limit)>>, <<>>),
           IF stmt.offset < 0 THEN Empty ELSE Compiled(<<Arg("offset", stmt.offset)>>, <<>>))

\* The conditions after HAVING are numbered from the arguments so far.
compileSelect(stmt) ==
  LET From(at) == Cat(Text(<<"from">>), compileSelectSource(stmt, at))
      Joined(at) == compileJoins(stmt.joins, at)
      Where(at) == Cat(Clause(<<"where">>, compileWhere(stmt.where, at)),
                       Clause(<<"group by">>, Text(stmt.group)))
      Having(at) == Clause(<<"having">>, compileWhere(stmt.having, at))
      Rest(at) == Cat(Cat(Clause(<<"order by">>, compileOrder(stmt.order)), compilePage(stmt)),
                      compileLock(stmt))
      select == OrElseText(List(compileSelectExpr, stmt.select, 1, <<",">>), <<"*">>)
  IN Then(Then(Then(Then(Then(Cat(Text(<<"select">>), select), 1, From), 1, Joined), 1, Where),
               1, Having), 1, Rest)

-----------------------------------------------------------------------------
(* Writes *)

\* Raw SQL keeps the numbers the caller wrote, though the numbering moves on.
compileSet(column, to, index) ==
  LET is == Text(<<column, "=">>)
  IN CASE to.kind = "inc" -> Cat(Cat(is, Text(<<column, "+">>)), Hole(index, Arg("val", to.value)))
       [] to.kind = "dec" -> Cat(Cat(is, Text(<<column, "-">>)), Hole(index, Arg("val", to.value)))
       [] to.kind = "raw" -> Cat(is, Compiled(to.raw.sql, to.raw.args))
       [] OTHER -> Cat(is, Hole(index, Arg("val", to.value)))

compileSets(values, start) ==
  List(LAMBDA column, at : compileSet(column, values[column], at), sortedKeys(values), start, <<",">>)

compileValues(stmt) ==
  LET columns == sortedKeys(stmt.values[1])
      Row(row, at) == Paren(List(LAMBDA c, i : Hole(i, Arg("val", row[c])), columns, at, <<",">>))
  IN IF ~sameColumns(stmt.values) THEN Invalid
     ELSE Cat(Text(<<"insert into", stmt.table>> \o columns), List(Row, stmt.values, 1, <<",">>))

compileConflictUpdate(conflict, row, start) ==
  LET fields == conflictColumns(conflict, row)
      Excluded(c, at) == Text(<<c, "= excluded.", c>>)
      first == conflict.columns[1]
  IN CASE conflict.doNothing -> Text(<<"do nothing">>)
       [] ~conflict.doNothing /\ DOMAIN conflict.map # {} -> Cat(Text(<<"do update set">>), compileSets(conflict.map, start))
       [] OTHER -> Cat(Text(<<"do update set">>),
                       IF fields = <<>> THEN Text(<<first, "=", first>>) ELSE List(Excluded, fields, 1, <<",">>))

compileUpsert(stmt) ==
  Then(Cat(compileValues(stmt), Text(<<"on conflict">> \o stmt.conflict.columns)), 1,
       LAMBDA at : compileConflictUpdate(stmt.conflict, stmt.values[1], at))

compileInsert(stmt) ==
  IF stmt.values = <<>> THEN Invalid
  ELSE Cat(IF stmt.conflict.columns # <<>> THEN compileUpsert(stmt) ELSE compileValues(stmt),
           IF stmt.returning THEN Text(<<"returning *">>) ELSE Empty)

compileUpdate(stmt) ==
  IF DOMAIN stmt.values = {} THEN Invalid
  ELSE Then(Cat(Text(<<"update", stmt.table, "set">>), compileSets(stmt.values, 1)), 1,
            LAMBDA at : Clause(<<"where">>, compileWhere(stmt.where, at)))

compileDelete(stmt) ==
  Cat(Text(<<"delete from", stmt.table>>), Clause(<<"where">>, compileWhere(stmt.where, 1)))

Compile(stmt) ==
  CASE stmt.kind = "select" -> compileSelect(stmt)
    [] stmt.kind = "insert" -> compileInsert(stmt)
    [] stmt.kind = "update" -> compileUpdate(stmt)
    [] OTHER -> compileDelete(stmt)
=============================================================================
