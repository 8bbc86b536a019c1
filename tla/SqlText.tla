------------------------------- MODULE SqlText -------------------------------
(* Statements as the query builder hands them to a dialect                    *)
(* (internal/queryast/types.go), the SQL text a dialect makes of them, and     *)
(* what a database reads in the holes of that text.                            *)
(*                                                                             *)
(* A text is a sequence of tokens.  "?" is a positional hole, "$" with a       *)
(* number a numbered one, "'?'" a question mark inside a string literal; names *)
(* and keywords are words.  An argument is a token too: "val" as the caller    *)
(* gave it, "json" its JSON encoding, "path" a JSON path.                      *)
EXTENDS Integers, FiniteSets, SequencesExt

Word(w) == [w |-> w, n |-> 0]
Words(ws) == [i \in DOMAIN ws |-> Word(ws[i])]
Arg(kind, v) == [w |-> kind, n |-> v]

\* CompiledSQL, with ok FALSE where the code returns an error.
Compiled(sql, args) == [ok |-> TRUE, sql |-> sql, args |-> args]
Empty == Compiled(<<>>, <<>>)
Invalid == [ok |-> FALSE, sql |-> <<>>, args |-> <<>>]
Text(ws) == Compiled(Words(ws), <<>>)
Cat(a, b) == [ok |-> a.ok /\ b.ok, sql |-> a.sql \o b.sql, args |-> a.args \o b.args]
Paren(a) == Cat(Cat(Text(<<"(">>), a), Text(<<")">>))
As(alias) == IF alias = "" THEN Empty ELSE Text(<<"as", alias>>)

\* Clause(word, a): the clause is left out when nothing follows its keyword.
Clause(ws, a) == IF a.ok /\ a.sql = <<>> THEN Empty ELSE Cat(Text(ws), a)

\* Then(a, start, Part): a, numbered from start on, and a part numbered after it.
Then(a, start, Part(_)) == Cat(a, Part(start + Len(a.args)))

OrElseText(a, ws) == IF a = Empty THEN Text(ws) ELSE a

\* Grouped(op, a): a group in brackets, left out when it is empty.
Grouped(op, a) ==
  IF a = Empty THEN Empty ELSE Cat(IF op = "not" THEN Text(<<"not">>) ELSE Empty, Paren(a))

\* The i-th condition after the ones before it: the prefix depends on its place
\* in the list, not on whether anything was written before it.
Conjoin(acc, i, bool, one) ==
  IF one = Empty THEN acc
  ELSE Cat(Cat(acc, IF i > 1 THEN Text(<<bool>>) ELSE Empty), one)

\* The parts of a list, each compiled where the numbering of holes has got to.
List(Part(_, _), items, start, sep) ==
  FoldLeft(LAMBDA acc, x : IF acc = Empty THEN Part(x, start)
                           ELSE Cat(Cat(acc, Text(sep)), Part(x, start + Len(acc.args))),
           Empty, items)

\* The same for a text whose holes are not numbered.
ListOf(Part(_), items, sep) == List(LAMBDA x, at : Part(x), items, 1, sep)

-----------------------------------------------------------------------------
(* The AST.  A source holds at most one of a table, a query and raw SQL.       *)

Raw(sql, args) == [sql |-> sql, args |-> args]
NoSource == [table |-> "", alias |-> "", query |-> <<>>, raw |-> <<>>]

Condition == [bool |-> "and", op |-> "=", field |-> "a", value |-> <<>>, sub |-> "=", right |-> "b",
              kids |-> <<>>, src |-> NoSource, raw |-> Raw(<<>>, <<>>), escape |-> FALSE]

JoinCondition == [bool |-> "and", column |-> TRUE, value |-> 0, group |-> <<>>]

Join == [type |-> "join", raw |-> <<>>, source |-> NoSource, on |-> <<JoinCondition>>]

SelectExpr == [kind |-> "field", expr |-> "a", alias |-> "", raw |-> Raw(<<>>, <<>>),
               src |-> NoSource, value |-> 0]

OrderExpr == [expr |-> Words(<<"a">>), desc |-> FALSE, raw |-> FALSE, args |-> <<>>]

NoLimit == -1

SelectAST == [kind |-> "select", table |-> "t", alias |-> "", from |-> NoSource, joins |-> <<>>,
              where |-> <<>>, select |-> <<>>, group |-> <<>>, having |-> <<>>, order |-> <<>>,
              limit |-> NoLimit, offset |-> NoLimit, lock |-> "", wait |-> ""]

\* A row is a function of its columns; a conflict clause without columns is none.
Conflict == [columns |-> <<>>, doNothing |-> FALSE, update |-> <<>>, all |-> FALSE, except |-> {},
             map |-> <<>>]

InsertAST == [kind |-> "insert", table |-> "t", values |-> <<>>, conflict |-> Conflict,
              returning |-> FALSE]

\* What a column is set to: kind "value", "inc", "dec" or "raw".
SetTo == [kind |-> "value", value |-> 0, raw |-> Raw(<<>>, <<>>)]

UpdateAST == [kind |-> "update", table |-> "t", values |-> <<>>, where |-> <<>>]
DeleteAST == [kind |-> "delete", table |-> "t", where |-> <<>>]

\* sortedKeys: the columns are sorted by name.
ColumnOrder == <<"a", "b", "id">>
sortedKeys(row) == SelectSeq(ColumnOrder, LAMBDA c : c \in DOMAIN row)

\* The operators a caller may compare with, NormalizeConditionOperator applied.
SafeOperators == {"=", "!=", "<", "like", "ilike"}
SafeColumnOperators == {"=", "!=", "<"}

\* The columns an upsert overwrites with the inserted values.
conflictColumns(conflict, row) ==
  IF conflict.all
  THEN SelectSeq(sortedKeys(row), LAMBDA c : c \notin Range(conflict.columns) \cup conflict.except)
  ELSE SelectSeq(ColumnOrder, LAMBDA c : c \in Range(conflict.update) /\ c \in DOMAIN row)

\* Every row must have exactly the columns of the first.
sameColumns(values) ==
  values # <<>> /\ \A i \in DOMAIN values : DOMAIN values[i] = DOMAIN values[1]

-----------------------------------------------------------------------------
(* What the caller asked for: the values of a statement in the order in which  *)
(* SQL writes its clauses.                                                      *)

RECURSIVE SelectValues(_), WhereValues(_), OnValues(_)

RawValues(raw) == [i \in DOMAIN raw.args |-> raw.args[i].n]

SourceValues(source) ==
  IF source.query # <<>> THEN SelectValues(source.query[1])
  ELSE IF source.raw # <<>> THEN RawValues(source.raw[1]) ELSE <<>>

\* The values of a list of things, each given by V.
Each(V(_), items) == FoldLeft(LAMBDA acc, x : acc \o V(x), <<>>, items)

WhereValues(conditions) ==
  Each(LAMBDA c : WhereValues(c.kids) \o RawValues(c.raw) \o SourceValues(c.src)
                  \o [i \in DOMAIN c.value |-> c.value[i].n], conditions)

OnValues(conditions) ==
  Each(LAMBDA c : IF c.group # <<>> THEN OnValues(c.group)
                  ELSE IF c.column THEN <<>> ELSE <<c.value>>, conditions)

SelectValues(stmt) ==
  Each(LAMBDA x : RawValues(x.raw) \o SourceValues(x.src) \o IF x.kind = "score" THEN <<x.value>> ELSE <<>>,
       stmt.select)
  \o SourceValues(stmt.from)
  \o Each(LAMBDA j : IF j.raw # <<>> THEN RawValues(j.raw[1])
                     ELSE SourceValues(j.source) \o IF j.type = "cross join" THEN <<>> ELSE OnValues(j.on),
          stmt.joins)
  \o WhereValues(stmt.where) \o WhereValues(stmt.having) \o Each(RawValues, stmt.order)

SetValues(values) ==
  Each(LAMBDA c : IF values[c].kind = "raw" THEN RawValues(values[c].raw) ELSE <<values[c].value>>,
       sortedKeys(values))

Values(stmt) ==
  CASE stmt.kind = "select" -> SelectValues(stmt)
    [] stmt.kind = "insert" ->
         Each(LAMBDA row : Each(LAMBDA c : <<row[c]>>, sortedKeys(row)), stmt.values)
         \o (IF stmt.conflict.doNothing THEN <<>> ELSE SetValues(stmt.conflict.map))
    [] stmt.kind = "update" -> SetValues(stmt.values) \o WhereValues(stmt.where)
    [] OTHER -> WhereValues(stmt.where)

-----------------------------------------------------------------------------
(* The database: the values that stand in the holes, read from left to right.  *)

Holes(sql) == SelectSeq(sql, LAMBDA t : t.w \in {"?", "$"})

\* "?" takes the next argument; every argument must be taken.
ReadPositional(c) == IF Len(Holes(c.sql)) = Len(c.args) THEN c.args ELSE <<Word("refused")>>

\* "$n" takes argument n; PostgreSQL knows no "?" and wants every parameter used.
ReadNumbered(c) ==
  LET holes == Holes(c.sql)
      used == {holes[i].n : i \in DOMAIN holes}
  IN IF used = 1..Len(c.args) /\ \A i \in DOMAIN holes : holes[i].w = "$"
     THEN [i \in DOMAIN holes |-> c.args[holes[i].n]]
     ELSE <<Word("refused")>>
=============================================================================
