------------------------------ MODULE MCWrites ------------------------------
(* Two sessions on a table with a live and a deleted row, or on a relation    *)
(* whose source has one of three targets.                                  *)
EXTENDS Writes

Call(op, keys)  == [NewCall EXCEPT !.op = op, !.keys = keys, !.models = [i \in DOMAIN keys |-> 0], !.val = "v"]
Hooked(c)       == [c EXCEPT !.hooks = TRUE]

Singles ==
    {Call(op, <<k>>) : op \in {"update", "delete", "forceDelete", "restore"}, k \in {"a", "b"}}
    \cup {Hooked(Call(op, <<"a">>)) : op \in {"update", "delete", "forceDelete"}}
    \cup {Hooked(Call("restore", <<"b">>)), [Call("update", <<"a">>) EXCEPT !.skip = TRUE]}
    \cup {[Call("update", <<"a">>) EXCEPT !.checked = TRUE, !.hooks = h] : h \in BOOLEAN}
    \cup {Call(op, <<"a">>) : op \in {"tableUpdate", "tableDelete"}} \cup {Call("tableUpdate", <<"b">>)}

Creates ==
    {Call("create", <<"c">>), Hooked(Call("create", <<"c">>)), Call("create", <<"a">>),
     Call("firstOrCreate", <<"a">>), Call("firstOrCreate", <<"b">>), Call("firstOrCreate", <<"c">>)}
    \cup {[Call("upsert", <<k>>) EXCEPT !.doNothing = n] : k \in {"a", "c"}, n \in BOOLEAN}
    \cup {[Call("upsert", <<k>>) EXCEPT !.val = "w"] : k \in {"a", "b"}}
    \cup {[Call(op, <<"c">>) EXCEPT !.apply = TRUE] : op \in {"upsert", "firstOrCreate"}}

Batches ==
    {[Call(op, <<"c", "d">>) EXCEPT !.size = size] : op \in {"createMany", "createManyResult", "tableCreateMany"}, size \in {0, 1}}
    \cup {[Call("createMany", <<"c", "a">>) EXCEPT !.size = 1, !.skip = b] : b \in BOOLEAN}
    \cup {Hooked(Call(op, <<"d", "c">>)) : op \in {"createMany"}}
    \cup {[Hooked(Call("createManyResult", <<"c", "d">>)) EXCEPT !.apply = TRUE]}
    \cup {[Call(op, <<"c", "d">>) EXCEPT !.models = <<9, 0>>] : op \in {"createMany", "createManyResult"}}
    \cup {[Call(op, <<"c", "d">>) EXCEPT !.fast = FALSE] : op \in {"createMany", "createManyResult"}}
    \cup {[Call("upsertMany", <<"a", "c">>) EXCEPT !.size = 1, !.doNothing = n] : n \in BOOLEAN}

Posts(dialect, calls) ==
    [rows  |-> <<Post("a", "old"), [Post("b", "old") EXCEPT !.gone = TRUE]>>,
     calls |-> {[c EXCEPT !.dialect = dialect] : c \in calls}]

Row(table, key, ref) == [NoRow EXCEPT !.table = table, !.key = key, !.ref = ref, !.val = "old"]

Relation ==
    [rows  |-> <<Row("sources", "s", "t1"), Row("items", "t1", "s"), Row("items", "t2", ""), Row("items", "t3", "u"),
                 Row("pivot", "t1", "s"), Row("pivot", "t2", "u")>>,
     calls |-> {Call(op, <<"t2">>) : op \in DOMAIN SingleStatement \ {"removeHas", "Detach"}}
               \cup {Call(op, <<"t1">>) : op \in {"removeHas", "Detach", "Attach", "UpdateThrough"}}
               \cup {Call(op, ks) : op \in {"replace"}, ks \in {<<"t1">>, <<"t3">>}}
               \cup {Call(op, ks) : op \in {"addMany", "removeMany", "attachMany", "detachMany"},
                                    ks \in {<<"t1", "t3">>}}
               \cup {Call(op, ks) : op \in {"sync", "syncWithoutDetach"},
                                    ks \in {<<"t2", "t3">>, <<"t1", "t2", "t2">>}}]

(* A source of another model has the same id. *)
Dynamic ==
    LET Typed(r, type) == [r EXCEPT !.type = type]
    IN  [rows  |-> <<Typed(Row("items", "t1", "s"), "S"), Typed(Row("items", "t2", "s"), "T"), Row("items", "t3", ""),
                     Typed(Row("pivot", "t1", "s"), "S"), Typed(Row("pivot", "t2", "s"), "T")>>,
         calls |-> {[Call(op, ks) EXCEPT !.dynamic = TRUE] :
                       op \in {"addMany", "removeMany", "clearHas", "attachMany", "detachMany", "clearThrough",
                               "UpdateThrough", "sync", "syncWithoutDetach"},
                       ks \in {<<"t2", "t3">>, <<"t1", "t2">>}}]

const_Scenes ==
    {Posts("pgsql", Singles \cup Creates \cup Batches), Relation, Dynamic}
    \cup {Posts(d, Creates \cup Batches \cup {Call("tableDelete", <<"a">>)}) : d \in {"sqlite", "mysql"}}
Perms == Permutations(Sessions)
=============================================================================
