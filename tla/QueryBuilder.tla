---------------------------- MODULE QueryBuilder ----------------------------
(***************************************************************************)
(* The query builders. A builder method copies the query structure and     *)
(* appends to one of the lists of its spec. A Go slice is a window on a    *)
(* backing array: the copy shares the array, and append writes into it     *)
(* when there is room. An operation that runs a query first makes a deep   *)
(* copy of the spec and then adds the conditions of the library to that.   *)
(*                                                                         *)
(* The lists of a spec have arrays of their own, so a behaviour follows    *)
(* one of them, chosen in Init together with the kind of builder.          *)
(***************************************************************************)
EXTENDS Naturals, Sequences

CONSTANTS Branching,    \* may a query be extended in two different ways?
          MaxCalls,     \* bound on the number of queries
          MaxRuns       \* bound on the operations that run a query

ASSUME QueryBuilderAssumption ==
    Branching \in BOOLEAN /\ MaxCalls \in Nat \ {0} /\ MaxRuns \in Nat

VARIABLES kind,       \* "model", "table", "relation" or "raw"
          list,       \* the list of the spec that is followed
          heap,       \* the backing arrays; the length of one is its capacity
          queries,    \* the queries made so far: their slice, and who they extend
          wanted,     \* history: what the calls that made a query asked for
          running,    \* operations in progress: their spec, and what was asked
          runs        \* how many have started

vars == <<kind, list, heap, queries, wanted, running, runs>>

Unset == 0
Added == MaxCalls + 1       \* a condition or order of the library
Nil == [at |-> 0, len |-> 0]

ListsOf ==
    [model |-> {"where", "select", "with", "joins", "order", "group", "having",
                "tags", "hidden", "applies"},
     table |-> {"where", "select", "joins", "order", "group", "having", "tags"},
     relation |-> {"where", "with", "order"},
     raw |-> {"tags"}]

Contents(h, s) == IF s.at = 0 THEN <<>> ELSE SubSeq(h[s.at], 1, s.len)

(* The capacity Go gives to a slice that append has to move. *)
Grown(cap, need) == IF need > 2 * cap THEN need ELSE 2 * cap

(* append(s, xs...): the heap afterwards and the slice it returns. *)
append(h, s, xs) ==
    LET cap  == IF s.at = 0 THEN 0 ELSE Len(h[s.at])
        need == s.len + Len(xs)
        Item(old, i) == IF i \in s.len + 1 .. need THEN xs[i - s.len] ELSE old
        moved == [i \in 1 .. Grown(cap, need) |->
                     Item(IF i <= s.len THEN h[s.at][i] ELSE Unset, i)]
    IN  IF xs = <<>>     THEN [heap |-> h, slice |-> s]
        ELSE IF need <= cap
             THEN [heap  |-> [h EXCEPT ![s.at] = [i \in 1 .. cap |-> Item(@[i], i)]],
                   slice |-> [s EXCEPT !.len = need]]
             ELSE [heap  |-> Append(h, moved),
                   slice |-> [at |-> Len(h) + 1, len |-> need]]

Times(x, k) == [i \in 1 .. k |-> x]

MayExtend(q) ==
    /\ q \in DOMAIN queries
    /\ Len(queries) < MaxCalls
    /\ Branching \/ \A c \in DOMAIN queries : queries[c].from # q

(* A mutant of Clone: the method appends to its receiver as well. *)
CloneInPlace(q, k) ==
    LET items == Times(Len(queries) + 1, k)
        a     == append(heap, queries[q].slice, items)
    IN  /\ MayExtend(q)
        /\ heap' = a.heap
        /\ queries' = Append([queries EXCEPT ![q].slice = a.slice],
                             [from |-> q, slice |-> a.slice])
        /\ wanted' = Append(wanted, wanted[q] \o items)
        /\ UNCHANGED <<kind, list, running, runs>>

(* clone := *query, then an append of k items to the clone's list. No item  *)
(* is appended for an empty group and for an argument in error.            *)
Clone(q, k) ==
    LET items == Times(Len(queries) + 1, k)
        a     == append(heap, queries[q].slice, items)
    IN  /\ MayExtend(q)
        /\ heap' = a.heap
        /\ queries' = Append(queries, [from |-> q, slice |-> a.slice])
        /\ wanted' = Append(wanted, wanted[q] \o items)
        /\ UNCHANGED <<kind, list, running, runs>>

(* query.spec... = append(query.spec...): the receiver itself changes. *)
InPlace(q, k) ==
    LET items == Times(Len(wanted[q]) + 1, k)
        a     == append(heap, queries[q].slice, items)
    IN  /\ Len(wanted[q]) < MaxCalls
        /\ heap' = a.heap
        /\ queries' = [queries EXCEPT ![q].slice = a.slice]
        /\ wanted' = [wanted EXCEPT ![q] = @ \o items]
        /\ UNCHANGED <<kind, list, running, runs>>

Method(builder, l, counts) ==
    kind = builder /\ list = l /\ \E q \in DOMAIN queries, k \in counts : Clone(q, k)
Option(builder) ==
    kind = builder /\ \E q \in DOMAIN queries : Clone(q, 0)

ModelWhere    == Method("model", "where", 0 .. 2)
ModelSelect   == Method("model", "select", 0 .. 2)
ModelWith     == Method("model", "with", 0 .. 1)
ModelFor      == Method("model", "where", 0 .. 2)
ModelHidden   == Method("model", "hidden", 0 .. 2)
ModelTags     == Method("model", "tags", 0 .. 2)
ModelJoin     == Method("model", "joins", {1})
ModelOrder    == Method("model", "order", 0 .. 2)
ModelGroup    == Method("model", "group", 0 .. 2)
ModelHaving   == Method("model", "having", 0 .. 2)
ModelSwitches == Option("model")
ModelLimits   == Option("model")

(* Apply copies the list before it appends; without arguments it returns   *)
(* the query itself.                                                       *)
ModelApply ==
    /\ kind = "model" /\ list = "applies"
    /\ \E q \in DOMAIN queries, k \in 1 .. 2 :
        LET items == Times(Len(queries) + 1, k)
            c == append(heap, Nil, Contents(heap, queries[q].slice))
            a == append(c.heap, c.slice, items)
        IN  /\ MayExtend(q)
            /\ heap' = a.heap
            /\ queries' = Append(queries, [from |-> q, slice |-> a.slice])
            /\ wanted' = Append(wanted, wanted[q] \o items)
            /\ UNCHANGED <<kind, list, running, runs>>

TableWhere    == Method("table", "where", 0 .. 2)
TableSelect   == Method("table", "select", 0 .. 2)
TableTags     == Method("table", "tags", 0 .. 2)
TableJoin     == Method("table", "joins", {1})
TableOrder    == Method("table", "order", 0 .. 2)
TableGroup    == Method("table", "group", 0 .. 2)
TableHaving   == Method("table", "having", 0 .. 2)
TableSwitches == Option("table")
TableLimits   == Option("table")
RawTags       == Method("raw", "tags", 0 .. 2)

(* Inside a scope the methods are those of the wrapped query, and the       *)
(* wrapper moves on to the clone.                                          *)
AsMany(l) == IF l \in {"joins", "with"} THEN 0 .. 1 ELSE 0 .. 2
ScopeConditions      == Method("model", "where", 0 .. 2)
ScopeClauses         == \E l \in ListsOf.model \ {"applies"} : Method("model", l, AsMany(l))
TableScopeConditions == Method("table", "where", 0 .. 2)
TableScopeClauses    == \E l \in ListsOf.table \ {"where"} : Method("table", l, AsMany(l))

(* The query given to a relation callback is changed in place. *)
RelationWhere ==
    /\ kind = "relation" /\ list = "where"
    /\ \E q \in DOMAIN queries, k \in 0 .. 2 : InPlace(q, k)
RelationClauses ==
    /\ kind = "relation" /\ list \in {"with", "order"}
    /\ \E q \in DOMAIN queries, k \in 0 .. 2 : InPlace(q, k)

(* A mutant of cloneQuerySpec: the copy shares the backing array. *)
cloneQuerySpecShallow(h, s) == [heap |-> h, slice |-> s]

(* The deep copy of a spec, of which the followed list is one. *)
cloneQuerySpec(h, s) == append(h, Nil, Contents(h, s))

(* An operation that runs a query: it copies the spec and adds k items.    *)
Run(q, k) ==
    LET c == cloneQuerySpec(heap, queries[q].slice)
        a == append(c.heap, c.slice, Times(Added, k))
    IN  /\ runs < MaxRuns
        /\ heap' = a.heap
        /\ running' = running \cup {[slice |-> a.slice, asked |-> wanted[q] \o Times(Added, k)]}
        /\ runs' = runs + 1
        /\ UNCHANGED <<kind, list, queries, wanted>>

(* What is added to the copy: tenant and soft delete conditions; the        *)
(* primary key as order of Chunk when there is none.                       *)
Additions(q) ==
    CASE list = "where" -> 0 .. 2
      [] list = "order" /\ wanted[q] = <<>> -> 0 .. 1
      [] OTHER -> {0}

RunModel == kind = "model" /\ \E q \in DOMAIN queries : \E k \in Additions(q) : Run(q, k)
RunTable == kind = "table" /\ \E q \in DOMAIN queries : \E k \in Additions(q) : Run(q, k)

(* FirstOrCreate extends the query by a condition per conflict field and    *)
(* runs the result before and after the insert.                            *)
ModelFirstOrCreate == Method("model", "where", {1})
TableFirstOrCreate == Method("table", "where", {1})

(* The spec has been compiled. *)
Compile ==
    \E r \in running :
        running' = running \ {r} /\ UNCHANGED <<kind, list, heap, queries, wanted, runs>>

Init ==
    /\ kind \in DOMAIN ListsOf
    /\ list \in ListsOf[kind]
    /\ heap = <<>>
    /\ queries = <<[from |-> 0, slice |-> Nil]>>
    /\ wanted = << <<>> >>
    /\ running = {}
    /\ runs = 0

Next ==
    \/ ModelWhere \/ ModelSelect \/ ModelWith \/ ModelFor \/ ModelHidden \/ ModelTags
    \/ ModelJoin \/ ModelOrder \/ ModelGroup \/ ModelHaving \/ ModelSwitches
    \/ ModelLimits \/ ModelApply \/ ModelFirstOrCreate \/ RunModel
    \/ TableWhere \/ TableSelect \/ TableTags \/ TableJoin \/ TableOrder \/ TableGroup
    \/ TableHaving \/ TableSwitches \/ TableLimits \/ TableFirstOrCreate \/ RunTable
    \/ ScopeConditions \/ ScopeClauses \/ TableScopeConditions \/ TableScopeClauses
    \/ RelationWhere \/ RelationClauses \/ RawTags \/ Compile

Spec == Init /\ [][Next]_vars

-----------------------------------------------------------------------------
(* A query holds what the calls that made it asked for, whatever is done   *)
(* with the queries it was made from: "ModelQuery is a clone-on-write query *)
(* builder".                                                               *)
QueriesIndependent ==
    \A q \in DOMAIN queries : Contents(heap, queries[q].slice) = wanted[q]

(* The spec that an operation compiles holds what its query asked for when  *)
(* it started and what the library added for this operation, although the  *)
(* query is extended and run again meanwhile.                              *)
RunAsAsked ==
    \A r \in running : Contents(heap, r.slice) = r.asked
=============================================================================
