---------------------------- MODULE MCTransaction ----------------------------
(* Instances of Transaction for TLC; the constants are in the configurations. *)
(* The refinement mapping to NestedTx: a call that has begun and not yet      *)
(* committed or rolled back is an open transaction, the writes between its    *)
(* beginning and that of the next one are its layer, and every write that is  *)
(* neither durable nor in a layer has been discarded.                         *)
EXTENDS Transaction

\* The number of calls on the stack that have begun and are not settled.
Begun == IF stack = <<>> THEN 0
         ELSE IF Cur.phase \in {"fn", "commit", "rollback"} THEN Top ELSE Top - 1

Layers ==
  [i \in 1..Begun |->
    {w \in WorkSet : stack[i].from < w /\ (i < Begun => w <= stack[i + 1].from)}]

Lost == Begun > 0 /\ (conn = "free" \/ srv \in {"broken", "lost"})

Gone == (1..nw) \ (durable \cup UNION {Layers[i] : i \in 1..Begun})

Abstract == INSTANCE NestedTx WITH
  Writes <- 1..MaxWrites, layers <- Layers, failed <- At("rollback"),
  lost <- Lost, made <- 1..nw, gone <- Gone

\* DB.Transaction implements nested transactions: whatever fn, the database and
\* the deadline of the outermost call do, its steps are steps of NestedTx.
ImplementsNestedTx == Abstract!Spec
=============================================================================
