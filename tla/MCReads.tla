------------------------------ MODULE MCReads -------------------------------
(***************************************************************************)
(* The inputs of Reads: condition lists with every connective and kind of   *)
(* relation filter, small tables, two shards.                              *)
(***************************************************************************)
EXTENDS Reads

A == Test("a")
B == Test("b")
C == Test("c")
Or(c) == withBool("or", c)

Has(rel, conds) == [Condition EXCEPT !.op = "relation_filter", !.rel = rel, !.conds = conds]

HasFilters ==
    {Has(rel, conds) : rel \in {"hasMany", "dynamicHasMany", "manyToMany"},
                       conds \in {<<>>, <<C>>, <<Not(C)>>, <<Group(<<C, Or(Not(C))>>)>>}}
    \cup {Has("dynamicManyToMany", <<Has("belongsTo", <<A>>)>>), Has("dynamicBelongsTo", <<>>)}

(* A post's parent is a post of the same table: the query has an alias. *)
SelfFilters == {Has("parent", conds) : conds \in {<<>>, <<A>>, <<Group(<<B, Or(A)>>)>>, <<Has("hasMany", <<C>>)>>}}

With(alias, filters) == {[alias |-> alias, filter |-> f] : f \in filters}
MCFilters == With("", HasFilters) \cup With("p", SelfFilters)

(* WhereHas, WhereDoesntHave and a Count in the callback. *)
Asked == HasFilters
    \cup {[f EXCEPT !.not = TRUE] : f \in HasFilters}
    \cup {[Has("hasMany", <<C>>) EXCEPT !.count = TRUE, !.not = n] : n \in BOOLEAN}

UnaliasedWheres ==
    {<<>>, <<A>>, <<Not(B)>>, <<A, B>>, <<Group(<<A, Or(B)>>)>>, <<Test("unknown")>>,
     <<B, Not(Group(<<A, Or(B)>>))>>, <<Group(<<A, Or(Has("hasMany", <<C>>))>>)>>}
    \cup {<<f>> : f \in Asked}

Under(alias, wheres) == {[alias |-> alias, where |-> w] : w \in wheres}

MCWheres ==
    Under("", UnaliasedWheres)
    \cup Under("p", {<<f>> : f \in SelfFilters} \cup {<<A, [f EXCEPT !.not = TRUE]>> : f \in SelfFilters}
                     \cup {<<Has("hasMany", <<C>>)>>})

(* The same with an OrWhere at the top. *)
MCOrWheres == Under("", {<<A, Or(B)>>})

(* The same with a parent filter and no alias, and with one in another. *)
MCSelfWheres == Under("", {<<Has("parent", <<>>)>>}) \cup Under("p", {<<Has("parent", <<Has("parent", <<>>)>>)>>})

MCTenants ==
    LET From(h, c, r) == [handle |-> h, context |-> c, resolver |-> r]
    IN  {From("1", "2", "2"), From("without", "1", ""), From("", "2", "1"),
         From("", "without", "error"), From("", "", "1"), From("", "", "error"), From("", "", "")}

I(n) == <<"int", n>>
U(n) == <<"uint64", n>>

MCModels ==
    LET model(key, type) == [key |-> key, type |-> type]
    IN  {<<model(I(1), "T")>>,
         <<model(I(2), "U"), model(Nil, "T"), model(I(1), "T")>>,
         <<model(I(1), "U"), model(I(1), "T"), model(I(2), "V")>>,
         <<model(I(1), "T"), model(I(2), "T"), model(I(3), "T"), model(I(4), "T")>>}

(* Three target rows, with any references and types or with rows between    *)
(* that lead to two of them and to one that is not there.                  *)
MCTables ==
    LET Row(n, ref, type, out) == [id |-> U(n), ref |-> ref, type |-> type, ok |-> (n # out)]
        Link == [source : {U(1), U(2)}, target : {U(2), U(3), U(5)}, type : {"T", "U"}]
    IN  {[rows |-> [n \in 1 .. 3 |-> Row(n, refs[n], types[n], out)], through |-> <<>>] :
            refs \in [1 .. 3 -> {Nil, U(1), U(2)}], types \in [1 .. 3 -> {"T", "U"}], out \in {0, 2}}
        \cup {[rows |-> [n \in 1 .. 3 |-> Row(n, Nil, "T", out)], through |-> links] :
            links \in {<<l>> : l \in Link} \cup {<<l, m>> : l, m \in Link}, out \in {0, 2}}

MCBatches == {[relation |-> 1, read |-> 0], [relation |-> 0, read |-> 0], [relation |-> 0, read |-> 5]}

MCShardRows ==
    {<<>>, <<0>>, <<1>>, <<2>>, <<0, 1>>, <<1, 0>>, <<1, 1>>, <<2, 1>>} \X {<<>>, <<0>>, <<1>>, <<2>>, <<1, 2>>}

(* Numbers, and text in the order of its bytes. *)
Numbers == [numeric |-> TRUE, bytes |-> <<>>, nullsLast |-> FALSE]
Texts == [numeric |-> FALSE, bytes |-> <<1, 2>>, nullsLast |-> FALSE]
MCOrderColumns == {Numbers, Texts}

(* Decimals of which the larger has the smaller text, and PostgreSQL's NULLs. *)
MCOtherColumns == {[Texts EXCEPT !.bytes = <<2, 1>>], [Numbers EXCEPT !.nullsLast = TRUE]}

MCStrategies ==
    {[kind |-> k, ranges |-> <<>>] : k \in {"mod", "hash"}}
    \cup {[kind |-> "range", ranges |-> <<[min |-> 0, max |-> 1, shard |-> 2],
                                          [min |-> 1, max |-> 2, shard |-> 1],
                                          [min |-> 3, max |-> 3, shard |-> 3]>>]}

MCShardValues ==
    {<<"nil", 0>>, I(0), I(1), U(1), I(2), U(3), I(-1), <<"string", 1>>}
=============================================================================
