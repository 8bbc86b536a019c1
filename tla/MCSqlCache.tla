----------------------------- MODULE MCSqlCache -----------------------------
(* SqlCache for TLC.  Every value of a statement is a number of its own, so    *)
(* that a misplaced argument shows.                                            *)
EXTENDS SqlCache

CONSTANTS
  Escaped,   \* whether Contains, which escapes, is used beside Like
  RawHoles   \* the dialects whose raw SET and ORDER BY fragments have "?" holes

V(n) == Arg("val", n)
RawOf(n) == Raw(Words(<<"a +", "?", "+ b +", "?">>), <<V(n), V(n + 1)>>)

Eq(f, n) == [Condition EXCEPT !.field = f, !.value = <<V(n)>>]
Op(op, f, n) == [Eq(f, n) EXCEPT !.op = op]
OrElse(c) == [c EXCEPT !.bool = "or"]
Group(op, kids) == [Condition EXCEPT !.op = op, !.kids = kids]
RawC(n) == [Condition EXCEPT !.op = "raw", !.raw = RawOf(n)]
JSONC(op, n) == [Condition EXCEPT !.op = "json", !.sub = op,
                   !.value = IF op \in {"=", "!=", "contains", "like"} THEN <<V(n), V(n + 1)>> ELSE <<V(n)>>]

\* A subquery, its values from n on.
SubSelect(n) == [SelectAST EXCEPT !.table = "u", !.where = <<Eq("a", n), RawC(n + 1)>>]
OfQuery(alias, n) == [NoSource EXCEPT !.query = <<SubSelect(n)>>, !.alias = alias]
OfRaw(alias, n) == [NoSource EXCEPT !.raw = <<RawOf(n)>>, !.alias = alias]
OfTable(t) == [NoSource EXCEPT !.table = t]

Wheres ==
  {<<>>,
   <<Eq("a", 51), OrElse(Op("like", "b", 52))>>,
   <<Group("group", <<Eq("a", 51), OrElse(RawC(52))>>), Group("group", <<>>), Group("not", <<Eq("b", 54)>>)>>,
   <<[Condition EXCEPT !.op = "in_values", !.value = <<V(51), V(52)>>], Op("in_values", "b", 53),
     [Condition EXCEPT !.op = "between", !.value = <<V(54), V(55)>>]>>,
   <<[Condition EXCEPT !.op = "in", !.src = OfQuery("", 51)], Eq("b", 54)>>,
   <<[Condition EXCEPT !.op = "exists", !.src = OfRaw("", 51)],
     [Condition EXCEPT !.op = "count", !.src = OfQuery("", 53), !.value = <<V(56)>>],
     [Condition EXCEPT !.op = "=", !.src = OfQuery("", 57)], Eq("b", 60)>>,
   <<JSONC("contains", 51), JSONC("exists", 53), JSONC("like", 54), Eq("b", 56)>>,
   <<JSONC("=", 51), Op("fulltext", "a", 53), RawC(54)>>,
   <<Op("invalid", "a", 51)>>, <<Op("=> drop", "a", 51)>>}

Havings == {<<>>, <<RawC(71), Eq("b", 73)>>}

Selects ==
  {<<>>,
   <<SelectExpr, [SelectExpr EXCEPT !.kind = "raw", !.raw = RawOf(11)]>>,
   <<[SelectExpr EXCEPT !.kind = "source", !.alias = "s", !.src = OfQuery("", 11)],
     [SelectExpr EXCEPT !.kind = "exists", !.alias = "e", !.src = OfRaw("", 14)]>>,
   <<[SelectExpr EXCEPT !.kind = "score", !.alias = "r", !.value = 11]>>,
   <<[SelectExpr EXCEPT !.kind = "source", !.src = OfQuery("", 11)]>>}

Froms == {NoSource, OfTable("v"), OfQuery("q", 21), OfRaw("q", 21), OfRaw("", 21)}

On(n) == <<JoinCondition, [JoinCondition EXCEPT !.column = FALSE, !.value = n],
           [JoinCondition EXCEPT !.bool = "or",
              !.group = <<[JoinCondition EXCEPT !.column = FALSE, !.value = n + 1]>>]>>
Joins ==
  {<<>>,
   <<[Join EXCEPT !.source = OfQuery("j", 31), !.on = On(34)], [Join EXCEPT !.raw = <<RawOf(36)>>]>>,
   <<[Join EXCEPT !.type = "cross join", !.source = OfRaw("j", 31)],
     [Join EXCEPT !.type = "left join", !.source = OfTable("w"), !.on = On(33)]>>,
   <<[Join EXCEPT !.source = OfTable("w"), !.on = <<>>]>>}

Order == <<OrderExpr, [OrderExpr EXCEPT !.desc = TRUE, !.raw = TRUE]>>

\* An order expression with a value, and a subquery that has one.
HoleOrder(n) == <<OrderExpr, [OrderExpr EXCEPT !.raw = TRUE, !.expr = Words(<<"a +", "?">>), !.args = <<V(n)>>]>>
OfOrdered(n) == [NoSource EXCEPT !.query = <<[SubSelect(n) EXCEPT !.order = HoleOrder(n + 3), !.limit = 1]>>]

Sets ==
  {("a" :> [SetTo EXCEPT !.value = 81]),
   ("a" :> [SetTo EXCEPT !.value = 81] @@ "b" :> [SetTo EXCEPT !.kind = "inc", !.value = 82]),
   ("b" :> [SetTo EXCEPT !.kind = "dec", !.value = 82] @@ "a" :> [SetTo EXCEPT !.kind = "raw", !.raw = Raw(Words(<<"now">>), <<>>)])}

SetRaw(raw) == [SetTo EXCEPT !.kind = "raw", !.raw = raw]

\* Raw values with holes, and one whose number the caller wrote.
HoleSets ==
  {("a" :> SetRaw(RawOf(81)) @@ "b" :> [SetTo EXCEPT !.value = 83]),
   ("a" :> [SetTo EXCEPT !.value = 81] @@ "b" :> SetRaw(RawOf(82)))}
NumberedSet ==
  "a" :> SetRaw(Raw(Words(<<"a +">>) \o <<Arg("$", 1)>>, <<V(81)>>)) @@ "b" :> [SetTo EXCEPT !.value = 82]

Row2(n) == "a" :> n @@ "b" :> n + 1
Inserts ==
  {[InsertAST EXCEPT !.values = vs, !.conflict = cf, !.returning = r] :
     r \in BOOLEAN, vs \in {<<Row2(91)>>, <<Row2(91), Row2(93)>>, <<Row2(91), ("a" :> 93)>>, <<>>},
     cf \in {Conflict, [Conflict EXCEPT !.columns = <<"a">>, !.doNothing = TRUE]}
            \cup {[Conflict EXCEPT !.columns = <<"a">>, !.map = m] : m \in Sets}
            \cup {[Conflict EXCEPT !.columns = <<"a">>, !.all = TRUE, !.except = x] : x \in {{}, {"b"}}}}

Everywhere ==
  {[SelectAST EXCEPT !.where = w, !.having = h, !.select = s, !.from = f, !.joins = j,
                     !.order = IF h = <<>> THEN <<>> ELSE Order, !.group = IF h = <<>> THEN <<>> ELSE <<"a">>] :
     w \in Wheres, h \in Havings, s \in Selects, f \in Froms, j \in Joins}
  \cup {[SelectAST EXCEPT !.limit = l, !.offset = o, !.lock = k, !.wait = x] :
          l \in -2..1, o \in -1..1, k \in {"", "for update", "for share"}, x \in {"", "nowait"}}
  \cup Inserts
  \cup {[UpdateAST EXCEPT !.values = v, !.where = w] : v \in Sets, w \in Wheres}
  \cup {[DeleteAST EXCEPT !.where = w] : w \in Wheres}

WithRawHoles ==
  {[SelectAST EXCEPT !.where = w, !.select = s, !.joins = j, !.order = HoleOrder(75)] :
     w \in Wheres, s \in Selects, j \in Joins}
  \cup {[SelectAST EXCEPT !.where = <<[Condition EXCEPT !.op = "in", !.src = OfOrdered(51)], Eq("b", 55)>>]}
  \cup {[UpdateAST EXCEPT !.values = v, !.where = w] : v \in HoleSets, w \in Wheres}
  \cup {[InsertAST EXCEPT !.values = <<Row2(91)>>, !.conflict = [Conflict EXCEPT !.columns = <<"a">>, !.map = m]] :
           m \in HoleSets}

Numbered == {[UpdateAST EXCEPT !.values = NumberedSet, !.where = w] : w \in Wheres}

MCCompiling ==
  [d \in Dialects |-> Everywhere \cup (IF d \in RawHoles THEN WithRawHoles ELSE {})
                                 \cup (IF d = "pgsql" THEN Numbered ELSE {})]

\* Statements whose keys differ in one part only, or not at all.
Sel(w) == [SelectAST EXCEPT !.where = w]
Statements ==
  {Sel(<<Eq("a", 1)>>), Sel(<<Op("like", "a", 2)>>),
   Sel(<<Eq("a", 1), Eq("b", 2)>>), Sel(<<Eq("a", 1), OrElse(Eq("b", 2))>>),
   Sel(<<Group("not", <<Eq("a", 1), Eq("b", 2)>>)>>),
   Sel(<<Op("in_values", "a", 1)>>), Sel(<<[Condition EXCEPT !.op = "in_values", !.value = <<V(1), V(2)>>]>>),
   Sel(<<JSONC("=", 1)>>), Sel(<<JSONC("contains", 1)>>),
   [SelectAST EXCEPT !.limit = 1], [SelectAST EXCEPT !.offset = 1],
   [SelectAST EXCEPT !.select = <<[SelectExpr EXCEPT !.kind = "count"]>>],
   [SelectAST EXCEPT !.order = <<OrderExpr>>], [SelectAST EXCEPT !.order = <<[OrderExpr EXCEPT !.desc = TRUE]>>],
   [SelectAST EXCEPT !.joins = <<[Join EXCEPT !.source = OfTable("w"), !.on = On(33)]>>],
   [InsertAST EXCEPT !.values = <<Row2(91)>>], [InsertAST EXCEPT !.values = <<Row2(91), Row2(93)>>],
   [DeleteAST EXCEPT !.where = <<Eq("a", 1)>>]}
  \cup {[UpdateAST EXCEPT !.values = v, !.where = <<Eq("a", 1)>>] : v \in Sets}
  \cup (IF Escaped THEN {Sel(<<[Op("like", "a", 3) EXCEPT !.escape = TRUE]>>)} ELSE {})

MCCached ==
  {[d |-> "pgsql", stmt |-> s] : s \in Statements}
  \cup {[d |-> "sqlite", stmt |-> s] :
          s \in {Sel(<<Eq("a", 1)>>), [InsertAST EXCEPT !.values = <<Row2(91)>>],
                 [UpdateAST EXCEPT !.values = "a" :> SetRaw(RawOf(81)), !.where = <<Eq("a", 1)>>]}}

Pgsql == INSTANCE PgsqlDialect
Mysql == INSTANCE MysqlDialect
Sqlite == INSTANCE SqliteDialect

\* The drivers behind the interface Dialect.
MCDialect ==
  [c \in {<<s.d, s.stmt>> : s \in MCCached} \cup UNION {{d} \X MCCompiling[d] : d \in Dialects} |->
     CASE c[1] = "pgsql" -> Pgsql!Compile(c[2])
       [] c[1] = "mysql" -> Mysql!Compile(c[2])
       [] OTHER -> Sqlite!Compile(c[2])]
=============================================================================
