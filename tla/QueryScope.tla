----------------------------- MODULE QueryScope -----------------------------
(***************************************************************************)
(* From the conditions of the caller to the rows an operation is about:    *)
(* relation filters become subqueries, and the library adds the tenant,     *)
(* the soft-delete scope and its own key, in the order of the code. The     *)
(* database holds every kind of post, each with at most one comment, so     *)
(* that one query is tried on all of them.                                 *)
(***************************************************************************)
EXTENDS Conditions, FiniteSets

Fine == [c |-> TRUE, gone |-> FALSE, tenant |-> "1", typed |-> TRUE]
NoComment == [Fine EXCEPT !.c = FALSE, !.gone = TRUE, !.typed = FALSE]
Posts ==
    [a : BOOLEAN, b : BOOLEAN, gone : BOOLEAN, tenant : {"1", "2"},
     has : {NoComment, Fine, [Fine EXCEPT !.c = FALSE], [Fine EXCEPT !.gone = TRUE],
            [Fine EXCEPT !.tenant = "2"], [Fine EXCEPT !.typed = FALSE]}]
Comments ==
    {[owner |-> p, c |-> p.has.c, gone |-> p.has.gone, tenant |-> p.has.tenant, typed |-> p.has.typed] :
        p \in {q \in Posts : q.has # NoComment}}

(* The post whose key Find is called with. *)
Key == [a |-> TRUE, b |-> FALSE, gone |-> FALSE, tenant |-> "1", has |-> Fine]

(* The parent of a post is a post: a relation of a table to itself.         *)
Parent(p) == [p EXCEPT !.a = ~@]

(* The table and the rows that a relation leads to, and whether `to` is one *)
(* of the rows that `from` is related with.                                *)
Table(rel) == IF rel \in {"belongsTo", "parent"} THEN "posts" ELSE "comments"
Related(rel) == IF Table(rel) = "posts" THEN Posts ELSE Comments
Joined(rel, from, to) ==
    CASE rel = "belongsTo" -> from.owner = to
      [] rel = "parent" -> Parent(from) = to
      [] OTHER -> to.owner = from

RECURSIVE Holds(_, _, _)
(* Does a condition hold of a row, in a subquery for the row `outer`? A      *)
(* qualified column is one of the innermost table of that name.             *)
Holds(c, row, outer) ==
    CASE c.op = "group" -> Selects(c.conds, LAMBDA d : Holds(d, row, outer))
      [] c.op = "not" -> ~Selects(c.conds, LAMBDA d : Holds(d, row, outer))
      [] c.op \in {"exists", "count"} ->
            (c.op = "exists") = (\E to \in Related(c.rel) : Selects(c.conds, LAMBDA d : Holds(d, to, row)))
      [] c.op = "column" -> Joined(c.rel, IF c.source = c.target THEN row ELSE outer, row)
      [] c.op = "type" -> row.typed
      [] c.op = "a" -> row.a
      [] c.op = "b" -> row.b
      [] c.op = "c" -> row.c
      [] c.op = "id" -> row = Key
      [] c.op = "tenant" -> row.tenant = c.value
      [] c.op = "is null" -> ~row.gone
      [] c.op = "is not null" -> row.gone

-----------------------------------------------------------------------------
(* Where the tenant comes from: the handle, then the context, then the      *)
(* resolver. *)
values(q) ==
    CASE q.handle # "" -> q.handle
      [] q.handle = "" /\ q.context # "" -> q.context
      [] OTHER -> q.resolver

TenantError(q) == values(q) \in {"", "error"}

tenantConditions(q) ==
    IF values(q) = "without" THEN <<>>
    ELSE <<[Condition EXCEPT !.op = "tenant", !.value = values(q)]>>

softDeleteConditions(mode) ==
    CASE mode = "default" -> <<Test("is null")>>
      [] mode = "only"    -> <<Test("is not null")>>
      [] OTHER            -> <<>>

Dynamic(rel) == rel \in {"dynamicHasMany", "dynamicManyToMany"}

(* How the columns of a query are qualified: by its alias, or else by the    *)
(* name of its table, which an inner query of the same table has too.        *)
Qualifier(alias, table) == IF alias # "" THEN alias ELSE table

(* The subquery has no alias. *)
applyRelationFilterCorrelation(rel, source) ==
    <<[Condition EXCEPT !.op = "column", !.rel = rel,
                        !.source = source, !.target = Qualifier("", Table(rel))]>>
        \o IF Dynamic(rel) THEN <<Test("type")>> ELSE <<>>

RECURSIVE resolveRelationFilterConditions(_, _, _)

(* The conditions of a filter's subquery: those of the callback stand       *)
(* between the key and the scopes, and its soft-delete mode is not read.    *)
relationFilterSubquery(c, source, q) ==
    resolveRelationFilterConditions(applyRelationFilterCorrelation(c.rel, source) \o c.conds,
                                    Qualifier("", Table(c.rel)), q)
        \o tenantConditions(q) \o softDeleteConditions("default")

buildRelationFilter(c, source, q) ==
    LET found == [Condition EXCEPT !.op = IF c.count THEN "count" ELSE "exists", !.rel = c.rel,
                                   !.conds = relationFilterSubquery(c, source, q)]
    IN  withBool(c.bool, IF c.not THEN Not(found) ELSE found)

resolveRelationFilterConditions(cs, source, q) ==
    [i \in DOMAIN cs |->
        CASE cs[i].op \in {"group", "not"} ->
                [cs[i] EXCEPT !.conds = resolveRelationFilterConditions(@, source, q)]
          [] cs[i].op = "relation_filter" -> buildRelationFilter(cs[i], source, q)
          [] OTHER -> cs[i]]

RECURSIVE convertModelConditions(_)
(* Does every condition name a field or a relation that the model has and   *)
(* that it may filter by?                                                  *)
convertModelConditions(cs) ==
    \A i \in DOMAIN cs : /\ cs[i].op # "unknown"
                         /\ cs[i].rel # "dynamicBelongsTo"
                         /\ convertModelConditions(cs[i].conds)

modelQuerySpec(q) ==
    resolveRelationFilterConditions(q.where, Qualifier(q.alias, "posts"), q)
        \o tenantConditions(q) \o softDeleteConditions(q.mode)

modelWriteSpecMode(q) == modelQuerySpec(q)

finalizeReadSpec(q) ==
    q.where \o tenantConditions(q) \o softDeleteConditions("default")

(* A mutant of withoutSoftDeleteConditions: the scope stays. *)
withSoftDeleteConditions(cs) == cs

withoutSoftDeleteConditions(cs) ==
    SelectSeq(cs, LAMBDA c : c.op \notin {"is null", "is not null"})

(* The value of CountOf a relation for a post; the other aggregates run over *)
(* the same rows.                                                          *)
buildRelationAggregateSelect(c, q, p) ==
    Cardinality({to \in Related(c.rel) :
        Selects(relationFilterSubquery(c, Qualifier(q.alias, "posts"), q), LAMBDA d : Holds(d, to, p))})
=============================================================================
