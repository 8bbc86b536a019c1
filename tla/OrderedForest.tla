--------------------------- MODULE OrderedForest ---------------------------
(* What the nested-set extension promises, without bounds: every parent has  *)
(* a list of children, and a structural write edits the lists.  call is the  *)
(* write that made the last step.                                            *)
EXTENDS Integers, Sequences, SequencesExt

CONSTANTS Nodes, NoParent

VARIABLES kids, call

absVars == <<kids, call>>

Lists == Nodes \cup {NoParent}
Present(k) == UNION {ToSet(k[p]) : p \in Lists}
ParentOf(k, n) == CHOOSE p \in Lists : n \in ToSet(k[p])

Subtree(k, n) ==
  LET below[m \in Nodes] == {m} \cup UNION {below[c] : c \in ToSet(k[m])} IN below[n]

Detach(k, n) == [p \in Lists |-> Remove(k[p], n)]
Attach(k, n, p, i) == [k EXCEPT ![p] = InsertAt(@, i, n)]

\* n is put next to t, or first or last under it.
Put(k, n, t, mode) ==
  LET p == ParentOf(k, t)
      i == CHOOSE j \in DOMAIN k[p] : k[p][j] = t
  IN CASE mode = "childLast"     -> Attach(k, n, t, Len(k[t]) + 1)
       [] mode = "childFirst"    -> Attach(k, n, t, 1)
       [] mode = "siblingBefore" -> Attach(k, n, p, i)
       [] mode = "siblingAfter"  -> Attach(k, n, p, i + 1)

PutLastRoot(k, n) == Attach(k, n, NoParent, Len(k[NoParent]) + 1)

Init == kids = [p \in Lists |-> <<>>] /\ call = <<"none">>

CreateRoot(n) ==
  /\ call' = <<"createRoot", n>>
  /\ n \notin Present(kids)
  /\ kids' = PutLastRoot(kids, n)

Create(n, t, mode) ==
  /\ call' = <<"create", n, t, mode>>
  /\ n \notin Present(kids) /\ t \in Present(kids)
  /\ kids' = Put(kids, n, t, mode)

\* A node moves with its subtree, and never into it; the rest keeps its order.
Move(n, t, mode) ==
  /\ call' = <<"move", n, t, mode>>
  /\ n \in Present(kids)
  /\ kids' = IF t \in Present(kids) \ Subtree(kids, n)
             THEN Put(Detach(kids, n), n, t, mode) ELSE kids

MoveRoot(n) ==
  /\ call' = <<"moveRoot", n>>
  /\ n \in Present(kids)
  /\ kids' = PutLastRoot(Detach(kids, n), n)

\* A new ParentID moves the node to the end of that parent's list.
Update(n, p) ==
  /\ call' = <<"update", n, p>>
  /\ n \in Present(kids)
  /\ kids' = IF ParentOf(kids, n) = p THEN kids
             ELSE IF p = NoParent THEN PutLastRoot(Detach(kids, n), n)
             ELSE IF p \in Present(kids) \ Subtree(kids, n)
             THEN Put(Detach(kids, n), n, p, "childLast") ELSE kids

Delete(n) ==
  /\ call' = <<"delete", n>>
  /\ n \in Present(kids)
  /\ LET gone == Subtree(kids, n) IN
       kids' = [p \in Lists |-> IF p \in gone THEN <<>> ELSE SelectSeq(kids[p], LAMBDA m : m \notin gone)]

\* A plain ORM write adds a child somewhere in the parent's list.
Plain(n, p) ==
  /\ call' = <<"plain", n, p>>
  /\ n \notin Present(kids) /\ p \in Present(kids) \cup {NoParent}
  /\ \E i \in 1..(Len(kids[p]) + 1) : kids' = Attach(kids, n, p, i)

\* Rebuild keeps every node under its parent and orders siblings by key.
Rebuild ==
  /\ call' = <<"rebuild">>
  /\ kids' = [p \in Lists |-> SetToSortSeq(ToSet(kids[p]), <)]

\* RebuildTree makes the forest the payload describes: up gives the parents and
\* ms the order of siblings.
RebuildTree(ms, up) ==
  /\ call' = <<"rebuildTree", ms, up>>
  /\ kids' = [p \in Lists |-> SelectSeq(ms, LAMBDA n : up[n] = p)]

Next ==
  \/ \E n \in Nodes : CreateRoot(n) \/ MoveRoot(n) \/ Delete(n)
  \/ \E n, t \in Nodes, mode \in {"childLast", "childFirst", "siblingBefore", "siblingAfter"} :
       Create(n, t, mode) \/ Move(n, t, mode)
  \/ \E n \in Nodes, p \in Lists : Update(n, p) \/ Plain(n, p)
  \/ Rebuild
  \/ /\ call'[1] = "rebuildTree"
     /\ RebuildTree(call'[2], call'[3])

Spec == Init /\ [][Next]_absVars
=============================================================================
