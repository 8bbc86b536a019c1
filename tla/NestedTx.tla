------------------------------ MODULE NestedTx ------------------------------
(* What DB.Transaction promises, without SQL: a stack of transactions, each   *)
(* with the writes made in it.  A transaction whose fn succeeds hands its     *)
(* writes to the one around it, the outermost one to the database, at once.   *)
(* One whose fn fails takes its writes with it.  The whole stack can lose its *)
(* writes (timeout, broken connection), and then nothing of it may commit.    *)
EXTENDS Integers, Sequences, FiniteSets

CONSTANT Writes   \* the identities of writes

VARIABLES
  layers,   \* the writes of each open transaction, outermost first
  failed,   \* fn of the innermost one has failed
  lost,     \* the stack has lost its writes
  made,     \* every write made so far
  durable,  \* the committed ones
  gone      \* the discarded ones

absVars == <<layers, failed, lost, made, durable, gone>>

Depth == Len(layers)
Inner == layers[Depth]
Pending == UNION {layers[i] : i \in 1..Depth}

Init ==
  /\ layers = <<>> /\ failed = FALSE /\ lost = FALSE
  /\ made = {} /\ durable = {} /\ gone = {}

Begin ==
  /\ ~lost /\ ~failed
  /\ layers' = Append(layers, {})
  /\ UNCHANGED <<failed, lost, made, durable, gone>>

Write(w) ==
  /\ layers # <<>> /\ ~lost /\ ~failed /\ w \notin made
  /\ made' = made \cup {w}
  /\ layers' = [layers EXCEPT ![Depth] = @ \cup {w}]
  /\ UNCHANGED <<failed, lost, durable, gone>>

\* fn fails: from now on the transaction can only be discarded.
Fail ==
  /\ layers # <<>> /\ ~failed
  /\ failed' = TRUE
  /\ UNCHANGED <<layers, lost, made, durable, gone>>

Drop == SubSeq(layers, 1, Depth - 1)

CommitInner ==
  /\ Depth > 1 /\ ~lost /\ ~failed
  /\ layers' = [Drop EXCEPT ![Depth - 1] = @ \cup Inner]
  /\ UNCHANGED <<failed, lost, made, durable, gone>>

CommitOutermost ==
  /\ Depth = 1 /\ ~lost /\ ~failed
  /\ durable' = durable \cup Inner
  /\ layers' = <<>>
  /\ UNCHANGED <<failed, lost, made, gone>>

\* The innermost transaction is discarded; the loss ends with the stack.
Discard ==
  /\ layers # <<>>
  /\ gone' = gone \cup Inner
  /\ layers' = Drop
  /\ failed' = FALSE
  /\ lost' = (lost /\ Depth > 1)
  /\ UNCHANGED <<made, durable>>

\* Everything not committed is lost.
Lose ==
  /\ layers # <<>>
  /\ gone' = gone \cup Pending
  /\ layers' = [i \in 1..Depth |-> {}]
  /\ lost' = TRUE
  /\ UNCHANGED <<failed, made, durable>>

Next ==
  \/ Begin \/ Fail \/ CommitInner \/ CommitOutermost \/ Discard \/ Lose
  \/ \E w \in Writes : Write(w)

Spec == Init /\ [][Next]_absVars

-----------------------------------------------------------------------------
\* Types.
TypeOK ==
  /\ layers \in Seq(SUBSET Writes)
  /\ failed \in BOOLEAN /\ lost \in BOOLEAN
  /\ made \in SUBSET Writes /\ durable \in SUBSET Writes /\ gone \in SUBSET Writes

\* Every write is in exactly one place: committed, discarded, or pending in one
\* open transaction.  In particular a discarded write is never committed.
Exclusive ==
  /\ made = durable \cup gone \cup Pending
  /\ durable \cap gone = {} /\ Pending \cap (durable \cup gone) = {}
  /\ \A i, j \in 1..Depth : i # j => layers[i] \cap layers[j] = {}
=============================================================================
