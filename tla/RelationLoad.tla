---------------------------- MODULE RelationLoad ----------------------------
(***************************************************************************)
(* Loading the relations that With names: the keys of the loaded models,    *)
(* one query per chunk of keys, and the found rows handed back to the       *)
(* models. A value is a pair <<Go kind, number>>; the fields of a model and *)
(* the rows of a driver may hold different kinds for one number. A row      *)
(* that is not `ok` is outside the conditions and scopes of the relation.   *)
(* A nested With repeats all this with the found rows as models.           *)
(***************************************************************************)
EXTENDS Naturals, Sequences, FiniteSets
LOCAL INSTANCE SequencesExt

Nil == <<"nil", 0>>

(* What a comparison in SQL says of two values. *)
Equal(v, w) == v # Nil /\ w # Nil /\ v[2] = w[2]

(* A mutant of comparableKey: the value itself, kind and all. *)
valueKey(value) == value

(* Integers of every kind become their decimal text. *)
comparableKey(value) == IF value = Nil THEN Nil ELSE <<"text", value[2]>>

Relations == {"belongsTo", "hasOne", "hasMany", "manyToMany",
              "dynamicBelongsTo", "dynamicHasMany", "dynamicManyToMany"}

(* The limits of the code, scaled down. *)
defaultChunkSize      == 2
defaultMaxBatchParams == 3

relationBatchSize(config) ==
    LET size == IF config.relation > 0 THEN config.relation
                ELSE IF config.read > 0 THEN config.read ELSE defaultChunkSize
    IN  IF size > defaultMaxBatchParams THEN defaultMaxBatchParams ELSE size

(* The distinct keys among some values, each as it first appears. *)
modelFieldValues(vs) ==
    LET First(i) == /\ comparableKey(vs[i]) # Nil
                    /\ \A j \in 1 .. i - 1 : comparableKey(vs[j]) # comparableKey(vs[i])
        firsts == SelectSeq([i \in DOMAIN vs |-> i], First)
    IN  [n \in DOMAIN firsts |-> vs[firsts[n]]]

(* The rows of a table whose column is one of the keys, chunk after chunk. *)
relationRowsInChunks(rows, column, keys, size) ==
    FlattenSeq([n \in 1 .. (Len(keys) + size - 1) \div size |->
        SelectSeq(rows, LAMBDA r : \E i \in DOMAIN keys :
            (i - 1) \div size = n - 1 /\ Equal(r[column], keys[i]))])

ModelKeys(q) == modelFieldValues([i \in DOMAIN q.models |-> q.models[i].key])

(* The rows that the scopes and the callback let through. *)
relationRowsWithConditions(rows) == SelectSeq(rows, LAMBDA r : r.ok)

(* Every model's rows, for has one and has many. *)
loadHas(q) ==
    LET rows == relationRowsInChunks(relationRowsWithConditions(q.rows), "ref", ModelKeys(q), relationBatchSize(q.batch))
        Grouped(key) == SelectSeq(rows, LAMBDA r : key # Nil /\ comparableKey(r.ref) = key)
        Items(i) == Grouped(comparableKey(q.models[i].key))
    IN  [i \in DOMAIN q.models |->
            IF q.rel = "hasOne" /\ Items(i) # <<>> THEN <<Head(Items(i))>> ELSE Items(i)]

(* The same for the rows of the relation's type. *)
loadDynamicHasMany(q) == loadHas([q EXCEPT !.rows = SelectSeq(@, LAMBDA r : r.type = "T")])

(* The last row with the key wins. *)
loadBelongsTo(q) ==
    LET rows == relationRowsInChunks(relationRowsWithConditions(q.rows), "ref", ModelKeys(q), relationBatchSize(q.batch))
        ByKey(key) == SelectSeq(rows, LAMBDA r : key # Nil /\ comparableKey(r.ref) = key)
        Found(i) == ByKey(comparableKey(q.models[i].key))
    IN  [i \in DOMAIN q.models |-> IF Found(i) = <<>> THEN <<>> ELSE <<Last(Found(i))>>]

(* One query per type; a type that no model is registered for is passed by. *)
loadDynamicBelongsTo(q) ==
    LET Of(type) == SelectSeq(q.models, LAMBDA m : m.type = type)
        Ids(type) == modelFieldValues([i \in DOMAIN Of(type) |-> Of(type)[i].key])
        Rows(type) == relationRowsInChunks(
                          SelectSeq(q.rows, LAMBDA r : r.ok /\ r.type = type),
                          "id", Ids(type), relationBatchSize(q.batch))
        Found(m) == IF m.type \notin {"T", "U"} THEN <<>>
                    ELSE SelectSeq(Rows(m.type), LAMBDA r :
                            comparableKey(m.key) # Nil /\ comparableKey(r.id) = comparableKey(m.key))
    IN  [i \in DOMAIN q.models |-> Found(q.models[i])]

(* The rows of the table between, then the targets they name, then for      *)
(* every model the targets in the order of the rows between.               *)
loadManyToMany(q) ==
    LET through == relationRowsInChunks(
                       SelectSeq(q.through, LAMBDA r : q.rel = "dynamicManyToMany" => r.type = "T"),
                       "source", ModelKeys(q), relationBatchSize(q.batch))
        keys == modelFieldValues([n \in DOMAIN through |-> through[n].target])
        rows == relationRowsInChunks(relationRowsWithConditions(q.rows), "id", keys, relationBatchSize(q.batch))
        Of(m) == SelectSeq(through, LAMBDA t :
                    comparableKey(m.key) # Nil /\ comparableKey(t.source) = comparableKey(m.key))
        Targets(t) == SelectSeq(rows, LAMBDA r : comparableKey(r.id) = comparableKey(t.target))
    IN  [i \in DOMAIN q.models |->
            FlattenSeq([n \in DOMAIN Of(q.models[i]) |-> Targets(Of(q.models[i])[n])])]

loadAnyModelRelations(q) ==
    CASE q.rel = "belongsTo" -> loadBelongsTo(q)
      [] q.rel = "dynamicBelongsTo" -> loadDynamicBelongsTo(q)
      [] q.rel \in {"hasOne", "hasMany"} -> loadHas(q)
      [] q.rel = "dynamicHasMany" -> loadDynamicHasMany(q)
      [] q.rel \in {"manyToMany", "dynamicManyToMany"} -> loadManyToMany(q)

-----------------------------------------------------------------------------
(* What belongs to a model: for every row, how often it is to be loaded.    *)
Belongs(q, m, r) ==
    LET links == {n \in DOMAIN q.through :
                    /\ Equal(q.through[n].source, m.key) /\ Equal(q.through[n].target, r.id)
                    /\ q.rel = "dynamicManyToMany" => q.through[n].type = "T"}
        once == CASE q.rel \in {"hasOne", "hasMany", "belongsTo"} -> Equal(r.ref, m.key)
                  [] q.rel = "dynamicHasMany" -> Equal(r.ref, m.key) /\ r.type = "T"
                  [] q.rel = "dynamicBelongsTo" -> Equal(r.id, m.key) /\ r.type = m.type
    IN  CASE ~r.ok -> 0
          [] r.ok /\ q.rel \in {"manyToMany", "dynamicManyToMany"} -> Cardinality(links)
          [] OTHER -> IF once THEN 1 ELSE 0

RelatedIs(q, loaded) ==
    \A i \in DOMAIN q.models :
        LET Times(r) == Cardinality({n \in DOMAIN loaded[i] : loaded[i][n] = r})
            Due(r)   == Belongs(q, q.models[i], r)
            rows     == {q.rows[n] : n \in DOMAIN q.rows}
        IN  IF q.rel \in {"hasOne", "belongsTo"}
            THEN /\ Len(loaded[i]) = IF \E r \in rows : Due(r) > 0 THEN 1 ELSE 0
                 /\ \A n \in DOMAIN loaded[i] : Due(loaded[i][n]) > 0
            ELSE /\ \A r \in rows : Times(r) = Due(r)
                 /\ \A n \in DOMAIN loaded[i] : loaded[i][n] \in rows
=============================================================================
