---------------------------- MODULE MCSchemaSync ----------------------------
(* Instances of SchemaSync for TLC.                                           *)
EXTENDS SchemaSync

C(col, kind, null, pk) == [col |-> col, kind |-> kind, null |-> null, pk |-> pk]
Id == C("id", "integer", FALSE, TRUE)

\* SQLite stores a bool as an integer.
SqliteKinds == [k \in {"integer", "string", "bool"} |-> IF k = "bool" THEN "integer" ELSE k]

\* A field that changes its column and its name, fields and indexes that come
\* later, a type change and a tightened null constraint.
Evolution == {
  [cols |-> (1 :> Id @@ 2 :> C("a", "string", TRUE, FALSE)), idx |-> Empty],
  [cols |-> (1 :> Id @@ 2 :> C("b", "string", TRUE, FALSE) @@ 3 :> C("n", "bool", TRUE, FALSE)),
   idx |-> "i" :> <<"b">>],
  [cols |-> (1 :> Id @@ 2 :> C("a", "string", TRUE, FALSE) @@ 3 :> C("n", "bool", FALSE, FALSE)),
   idx |-> "i" :> <<"a">>],
  [cols |-> (1 :> Id @@ 2 :> C("a", "integer", TRUE, FALSE) @@ 4 :> C("m", "string", TRUE, FALSE)), idx |-> Empty],
  [cols |-> (1 :> Id @@ 2 :> C("b", "string", TRUE, FALSE) @@ 4 :> C("k", "string", TRUE, FALSE)), idx |-> Empty],
  [cols |-> (1 :> Id @@ 5 :> C("a", "string", TRUE, FALSE)), idx |-> Empty]}

\* A field that is renamed and made NOT NULL in the same version.
Tighten == {
  [cols |-> (1 :> Id @@ 2 :> C("a", "string", TRUE, FALSE)), idx |-> Empty],
  [cols |-> (1 :> Id @@ 2 :> C("b", "string", FALSE, FALSE)), idx |-> Empty]}

\* A field that gives its column up for a new field.
Reuse == {
  [cols |-> (1 :> Id @@ 2 :> C("a", "string", TRUE, FALSE)), idx |-> Empty],
  [cols |-> (1 :> Id @@ 2 :> C("b", "string", TRUE, FALSE) @@ 3 :> C("a", "string", TRUE, FALSE)), idx |-> Empty]}
=============================================================================
