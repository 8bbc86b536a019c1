--------------------------- MODULE NestedTxProofs ---------------------------
(* The abstract nested transaction never mixes up its writes, for any depth   *)
(* and any set of writes.  DB.Transaction implements NestedTx, so this is     *)
(* what a caller may rely on.                                                 *)
EXTENDS NestedTx, SequenceTheorems, TLAPS

\* Discarding the innermost layer leaves the others as they are.
LEMMA DropKeepsOthers ==
  ASSUME TypeOK, layers # <<>>
  PROVE  /\ Depth \in Nat /\ Depth > 0
         /\ Drop \in Seq(SUBSET Writes) /\ Len(Drop) = Depth - 1
         /\ \A i \in 1..(Depth - 1) : Drop[i] = layers[i]
<1>1. layers \in Seq(SUBSET Writes) /\ Depth = Len(layers) /\ Depth \in Nat /\ Depth > 0
  BY DEF TypeOK, Depth
<1>2. /\ 1 \in 1..(Len(layers) + 1) /\ Depth - 1 \in 0..Len(layers)
      /\ \A i \in 1..(Depth - 1) : i \in 1..Len(layers)
  BY <1>1
<1>3. /\ Drop \in Seq(SUBSET Writes) /\ Len(Drop) = Depth - 1
      /\ \A i \in 1..(Depth - 1) : Drop[i] = layers[i]
  BY <1>1, <1>2 DEF Drop
<1>4. QED BY <1>1, <1>3

\* Every step keeps the types.
LEMMA TypeStep == TypeOK /\ [Next]_absVars => TypeOK'
<1> SUFFICES ASSUME TypeOK, [Next]_absVars PROVE TypeOK'
  OBVIOUS
<1> DEFINE L == SUBSET Writes
<1>0. /\ layers \in Seq(L) /\ Depth \in Nat /\ (layers # <<>> => Depth \in 1..Len(layers))
      /\ \A i \in 1..Depth : layers[i] \in L
  BY DEF TypeOK, Depth
<1>1. CASE Begin
  BY <1>0, <1>1 DEF Begin, TypeOK
<1>2. ASSUME NEW w \in Writes, Write(w) PROVE TypeOK'
  <2>1. layers' \in Seq(L)
    BY <1>0, <1>2 DEF Write
  <2>2. QED BY <1>2, <2>1 DEF Write, TypeOK
<1>3. CASE Fail
  BY <1>3 DEF Fail, TypeOK
<1>4. CASE CommitInner
  <2>1. Drop \in Seq(L) /\ Depth - 1 \in 1..Len(Drop) /\ Inner \in L
    BY <1>0, <1>4 DEF CommitInner, Drop, Depth, Inner
  <2>2. layers' \in Seq(L)
    BY <1>4, <2>1 DEF CommitInner
  <2>3. QED BY <1>4, <2>2 DEF CommitInner, TypeOK
<1>5. CASE CommitOutermost
  <2>1. Inner \in L
    BY <1>0, <1>5 DEF CommitOutermost, Inner
  <2>2. QED BY <1>5, <2>1 DEF CommitOutermost, TypeOK
<1>6. CASE Discard
  <2>1. Drop \in Seq(L) /\ Inner \in L
    BY <1>0, <1>6 DEF Discard, Drop, Depth, Inner
  <2>2. lost' \in BOOLEAN
    BY <1>6 DEF Discard, TypeOK
  <2>3. QED BY <1>6, <2>1, <2>2 DEF Discard, TypeOK
<1>7. CASE Lose
  <2>1. layers' \in Seq(L)
    BY <1>0, <1>7 DEF Lose
  <2>2. Pending \subseteq Writes
    BY <1>0 DEF Pending
  <2>3. QED BY <1>7, <2>1, <2>2 DEF Lose, TypeOK
<1>8. CASE UNCHANGED absVars
  BY <1>8 DEF absVars, TypeOK
<1>9. QED
  BY <1>1, <1>2, <1>3, <1>4, <1>5, <1>6, <1>7, <1>8 DEF Next

\* The layers before and after each step, one by one, are all Exclusive needs.
LEMMA ExclusiveStep == TypeOK /\ Exclusive /\ [Next]_absVars => Exclusive'
<1> SUFFICES ASSUME TypeOK, Exclusive, [Next]_absVars PROVE Exclusive'
  OBVIOUS
<1>0. /\ Depth \in Nat /\ (layers = <<>> <=> Depth = 0)
      /\ \A i \in 1..Depth : layers[i] \subseteq Writes
  BY DEF TypeOK, Depth
<1>1. CASE Begin
  <2>1. /\ Depth' = Depth + 1 /\ layers'[Depth + 1] = {}
        /\ \A i \in 1..Depth : layers'[i] = layers[i]
    BY <1>0, <1>1 DEF Begin, TypeOK, Depth
  <2>2. Pending' = Pending
    BY <1>0, <2>1 DEF Pending
  <2>3. \A i, j \in 1..Depth' : i # j => layers'[i] \cap layers'[j] = {}
    BY <1>0, <2>1 DEF Exclusive
  <2>4. QED BY <1>1, <2>2, <2>3 DEF Begin, Exclusive
<1>2. ASSUME NEW w \in Writes, Write(w) PROVE Exclusive'
  <2>1. /\ Depth' = Depth /\ Depth > 0 /\ layers'[Depth] = layers[Depth] \cup {w}
        /\ \A i \in 1..(Depth - 1) : layers'[i] = layers[i]
    BY <1>0, <1>2 DEF Write, TypeOK, Depth
  <2>2. Pending' = Pending \cup {w}
    BY <1>0, <2>1 DEF Pending
  <2>3. w \notin Pending /\ w \notin durable /\ w \notin gone
    BY <1>2 DEF Write, Exclusive
  <2>4. \A i \in 1..Depth : w \notin layers[i]
    BY <2>3 DEF Pending
  <2>5. QED BY <1>0, <1>2, <2>1, <2>2, <2>3, <2>4 DEF Write, Exclusive
<1>3. CASE Fail
  BY <1>3 DEF Fail, Exclusive, Pending, Depth
<1>4. CASE CommitInner
  <2>1. /\ Depth > 1 /\ Depth' = Depth - 1
        /\ layers'[Depth - 1] = layers[Depth - 1] \cup layers[Depth]
        /\ \A i \in 1..(Depth - 2) : layers'[i] = layers[i]
    <3>1. layers # <<>> /\ Depth > 1
      BY <1>0, <1>4 DEF CommitInner
    <3>2. layers' = [Drop EXCEPT ![Depth - 1] = @ \cup layers[Depth]]
      BY <1>4 DEF CommitInner, Inner
    <3>3. Len(layers') = Depth - 1 /\ layers' \in Seq(SUBSET Writes)
      BY <1>0, <3>1, <3>2, DropKeepsOthers
    <3>4. QED BY <1>0, <3>1, <3>2, <3>3, DropKeepsOthers DEF Depth
  <2>2. Pending' = Pending
    BY <1>0, <2>1 DEF Pending
  <2>3. \A i, j \in 1..Depth' : i # j => layers'[i] \cap layers'[j] = {}
    BY <1>0, <2>1 DEF Exclusive
  <2>4. QED BY <1>4, <2>2, <2>3 DEF CommitInner, Exclusive
<1>5. CASE CommitOutermost
  <2>1. Depth' = 0 /\ Pending' = {} /\ Pending = Inner
    BY <1>0, <1>5 DEF CommitOutermost, Depth, Pending, Inner
  <2>2. QED BY <1>5, <2>1 DEF CommitOutermost, Exclusive
<1>6. CASE Discard
  <2>1. /\ Depth > 0 /\ Depth' = Depth - 1
        /\ \A i \in 1..(Depth - 1) : layers'[i] = layers[i]
    <3>1. layers # <<>> /\ layers' = Drop
      BY <1>6 DEF Discard
    <3>2. QED BY <3>1, DropKeepsOthers DEF Depth
  <2>2. Pending = Pending' \cup Inner
    BY <1>0, <2>1 DEF Pending, Inner
  <2>3. Pending' \cap Inner = {}
    BY <1>0, <2>1 DEF Pending, Inner, Exclusive
  <2>4. QED BY <1>0, <1>6, <2>1, <2>2, <2>3 DEF Discard, Exclusive
<1>7. CASE Lose
  <2>1. Depth' = Depth /\ \A i \in 1..Depth : layers'[i] = {}
    BY <1>0, <1>7 DEF Lose, Depth
  <2>2. Pending' = {} /\ gone' = gone \cup Pending
    BY <1>7, <2>1 DEF Pending, Lose
  <2>3. QED BY <1>7, <2>1, <2>2 DEF Lose, Exclusive
<1>8. CASE UNCHANGED absVars
  BY <1>8 DEF absVars, Exclusive, Pending, Depth
<1>9. QED
  BY <1>1, <1>2, <1>3, <1>4, <1>5, <1>6, <1>7, <1>8 DEF Next

\* Every write is in exactly one place: committed, discarded, or pending in one
\* open transaction; so a discarded write is never committed.
THEOREM WritesAreExclusive == Spec => []Exclusive
<1>1. Init => TypeOK /\ Exclusive
  <2> SUFFICES ASSUME Init PROVE TypeOK /\ Exclusive
    OBVIOUS
  <2>1. TypeOK
    <3>1. layers \in Seq(SUBSET Writes) /\ made \in SUBSET Writes
      BY DEF Init
    <3>2. failed \in BOOLEAN /\ lost \in BOOLEAN
      BY Zenon DEF Init
    <3>3. durable \in SUBSET Writes /\ gone \in SUBSET Writes
      BY DEF Init
    <3>4. QED BY <3>1, <3>2, <3>3 DEF TypeOK
  <2>2. Depth = 0 /\ 1..Depth = {}
    BY DEF Init, Depth
  <2>3. Pending = {}
    BY <2>2 DEF Pending
  <2>4. QED BY <2>1, <2>2, <2>3 DEF Init, Exclusive
<1>2. QED BY <1>1, TypeStep, ExclusiveStep, PTL DEF Spec
=============================================================================
