----------------------------- MODULE NestedSet -----------------------------
(* The nested-set trees of extensions/nestedset: a table whose rows carry    *)
(* ParentID, Lft, Rgt and Depth, kept consistent by Tree's structural        *)
(* writes.  Each write runs in one transaction and is one step here; MoveUp  *)
(* and MoveDown read outside their transaction and take two.                 *)
EXTENDS Integers, Sequences, FiniteSets, FiniteSetsExt, SequencesExt

CONSTANTS
  Nodes,     \* primary keys
  NoParent   \* the NULL ParentID

ASSUME NestedSetAssumption ==
  Nodes \subseteq Nat \ {0} /\ IsFiniteSet(Nodes) /\ NoParent \notin Nodes

VARIABLES
  rows,   \* the table: a row for every primary key in it
  plain,  \* rows were created with a plain ORM write since the last rebuild
  pend,   \* a call between its read and its transaction, or Idle
  call    \* the structural write that made the last step

vars == <<rows, plain, pend, call>>

ParentIds == Nodes \cup {NoParent}
TreeRow == [parent : ParentIds, lft : Nat, rgt : Nat, depth : Nat]

Idle == [op |-> "none"]

Init == rows = <<>> /\ plain = FALSE /\ pend = Idle /\ call = <<"none">>

-----------------------------------------------------------------------------
(* The statements the writes are made of, on a table rs *)

\* UPDATE ... SET lft / rgt = lft / rgt + width WHERE lft / rgt >= from, one
\* statement for each column.
MakeGapLeftOnly(rs, from, width) ==
  [n \in DOMAIN rs |-> [rs[n] EXCEPT !.lft = IF @ >= from THEN @ + width ELSE @]]

MakeGap(rs, from, width) ==
  [n \in DOMAIN rs |->
    [rs[n] EXCEPT !.rgt = IF @ >= from THEN @ + width ELSE @,
                  !.lft = IF @ >= from THEN @ + width ELSE @]]

\* SELECT max(rgt), 0 for an empty table.
MaxRight(rs) == IF DOMAIN rs = {} THEN 0 ELSE Max({rs[n].rgt : n \in DOMAIN rs})

Insert(rs, n, row) == [m \in DOMAIN rs \cup {n} |-> IF m = n THEN row ELSE rs[m]]

\* The rows between the bounds of node, itself included.
Within(rs, node) == {n \in DOMAIN rs : rs[n].lft >= node.lft /\ rs[n].rgt <= node.rgt}

\* Close the gap left by the bounds of node: columns beyond it move down.
CloseGap(rs, node) ==
  LET width == node.rgt - node.lft + 1 IN
  [n \in DOMAIN rs |->
    [rs[n] EXCEPT !.lft = IF @ > node.rgt THEN @ - width ELSE @,
                  !.rgt = IF @ > node.rgt THEN @ - width ELSE @]]

Modes == {"childLast", "childFirst", "siblingBefore", "siblingAfter"}

\* createAtNode's choice of place for a new child or sibling of target, and the
\* same choice in move.
PlaceSwapped(rs, target, mode) ==
  LET t == rs[target] IN
  CASE mode = "childLast"     -> [at |-> t.rgt,     parent |-> target,   depth |-> t.depth + 1]
    [] mode = "childFirst"    -> [at |-> t.lft + 1, parent |-> target,   depth |-> t.depth + 1]
    [] mode = "siblingBefore" -> [at |-> t.rgt + 1, parent |-> t.parent, depth |-> t.depth]
    [] mode = "siblingAfter"  -> [at |-> t.lft,     parent |-> t.parent, depth |-> t.depth]

Place(rs, target, mode) ==
  LET t == rs[target] IN
  CASE mode = "childLast"     -> [at |-> t.rgt,     parent |-> target,   depth |-> t.depth + 1]
    [] mode = "childFirst"    -> [at |-> t.lft + 1, parent |-> target,   depth |-> t.depth + 1]
    [] mode = "siblingBefore" -> [at |-> t.lft,     parent |-> t.parent, depth |-> t.depth]
    [] mode = "siblingAfter"  -> [at |-> t.rgt + 1, parent |-> t.parent, depth |-> t.depth]

\* moveSubtree: the rows of the subtree are read first, the gap it leaves is
\* closed and a new one opened at insertAt, and the rows read are written there.
MoveSubtree(rs, node, id, insertAt, newParent, newDepth) ==
  LET moved  == Within(rs, node)
      width  == node.rgt - node.lft + 1
      around == MakeGap(CloseGap(rs, node), insertAt, width)
  IN [n \in DOMAIN rs |->
       IF n \notin moved THEN around[n]
       ELSE [parent |-> IF n = id THEN newParent ELSE rs[n].parent,
             lft    |-> insertAt + (rs[n].lft - node.lft),
             rgt    |-> insertAt + (rs[n].rgt - node.lft),
             depth  |-> rs[n].depth + (newDepth - node.depth)]]

\* move, once the place is known: the place is corrected for the gap the node
\* leaves, and nothing is written when the node is there already.
MoveTo(rs, id, place) ==
  LET node     == rs[id]
      width    == node.rgt - node.lft + 1
      insertAt == IF place.at > node.rgt THEN place.at - width ELSE place.at
  IN IF insertAt = node.lft THEN rs
     ELSE MoveSubtree(rs, node, id, insertAt, place.parent, place.depth)

\* move: a missing node or target returns nil, a target inside the moved
\* subtree an error; the transaction changes nothing in either case.
Move(rs, id, target, mode) ==
  IF id \notin DOMAIN rs \/ target \notin DOMAIN rs THEN rs
  ELSE IF target \in Within(rs, rs[id]) THEN rs
  ELSE MoveTo(rs, id, Place(rs, target, mode))

MoveRoot(rs, id) ==
  IF id \notin DOMAIN rs THEN rs
  ELSE MoveTo(rs, id, [at |-> MaxRight(rs) + 1, parent |-> NoParent, depth |-> 0])

-----------------------------------------------------------------------------
(* rebuildModelsOnTx, from the ParentIDs in up and the order of the list ms   *)

\* The children of p, NoParent for the roots, in the order of the list.
Listed(ms, up, p) == SelectSeq(ms, LAMBDA n : up[n] = p)

\* The calls of assign: every node is listed when the counter gives its left
\* and again when it gives its right value.
Tour(ms, up) ==
  LET visit[n \in Nodes] ==
        LET kids == Listed(ms, up, n) IN
        <<n>> \o FlattenSeq([i \in DOMAIN kids |-> visit[kids[i]]]) \o <<n>>
      roots == Listed(ms, up, NoParent)
  IN FlattenSeq([i \in DOMAIN roots |-> visit[roots[i]]])

\* The UPDATEs of assign; a row deleted since it was read is not there to update.
Rebuilt(rs, ms, up) ==
  LET tour == Tour(ms, up)
      at(n) == {i \in DOMAIN tour : tour[i] = n}
      level[n \in Nodes] == IF up[n] = NoParent THEN 0 ELSE level[up[n]] + 1
  IN [n \in DOMAIN rs |->
       IF at(n) = {} THEN rs[n]
       ELSE [rs[n] EXCEPT !.lft = Min(at(n)), !.rgt = Max(at(n)), !.depth = level[n]]]

Ups(rs) == [n \in DOMAIN rs |-> rs[n].parent]

-----------------------------------------------------------------------------
(* Reads *)

\* ORDER BY lft; rows with equal bounds come in key order.
ByLft(rs, S) ==
  SetToSortSeq(S, LAMBDA m, n : rs[m].lft < rs[n].lft \/ (rs[m].lft = rs[n].lft /\ m < n))

Children(rs, p) == ByLft(rs, {n \in DOMAIN rs : rs[n].parent = p})

Descendants(rs, n) ==
  {m \in DOMAIN rs : rs[m].lft > rs[n].lft /\ rs[m].rgt < rs[n].rgt}

Ancestors(rs, n) ==
  {m \in DOMAIN rs : rs[m].lft < rs[n].lft /\ rs[m].rgt > rs[n].rgt}

IsLeaf(rs, n) == rs[n].rgt - rs[n].lft = 1

\* The sibling that ends closest before n, {} if there is none, and likewise
\* the one that starts closest after it.
PrevSiblingAnyLevel(rs, n) ==
  LET before == {m \in DOMAIN rs : rs[m].rgt < rs[n].lft}
  IN {m \in before : \A l \in before : rs[l].rgt <= rs[m].rgt}

PrevSibling(rs, n) ==
  LET before == {m \in DOMAIN rs \ {n} : rs[m].parent = rs[n].parent /\ rs[m].rgt < rs[n].lft}
  IN {m \in before : \A l \in before : rs[l].rgt <= rs[m].rgt}

NextSibling(rs, n) ==
  LET after == {m \in DOMAIN rs \ {n} : rs[m].parent = rs[n].parent /\ rs[m].lft > rs[n].rgt}
  IN {m \in after : \A l \in after : rs[l].lft >= rs[m].lft}

\* The rows down to a relative depth, as descendantsWithinDepth selects them.
WithinDepth(rs, n, max) ==
  {m \in Descendants(rs, n) : rs[m].depth >= rs[n].depth + 1 /\ rs[m].depth <= rs[n].depth + max}

\* buildNodes: one pass over the rows in left order with a stack of open nodes,
\* by Depth alone.  The result is the parent it gives every row.
BuildNodes(rs, ms) ==
  FoldLeft(LAMBDA acc, n :
             LET d    == Max({0, rs[n].depth - rs[ms[1]].depth})
                 open == SubSeq(acc.stack, 1, Min({d, Len(acc.stack)}))
             IN [stack |-> Append(open, n),
                 up    |-> [m \in DOMAIN acc.up \cup {n} |->
                             IF m # n THEN acc.up[m]
                             ELSE IF d <= 0 \/ open = <<>> THEN NoParent ELSE Last(open)]],
           [stack |-> <<>>, up |-> <<>>], ms).up

\* Check's verdict.
CheckIgnoresParents(rs) ==
  LET count == Cardinality(DOMAIN rs)
      seen(v) == Cardinality({n \in DOMAIN rs : rs[n].lft = v}) + Cardinality({n \in DOMAIN rs : rs[n].rgt = v})
  IN /\ \A v \in 1..(2 * count) : seen(v) <= 1
     /\ MaxRight(rs) <= 2 * count

Check(rs) ==
  LET count == Cardinality(DOMAIN rs)
      seen(v) == Cardinality({n \in DOMAIN rs : rs[n].lft = v}) + Cardinality({n \in DOMAIN rs : rs[n].rgt = v})
  IN /\ \A n \in DOMAIN rs :
          /\ rs[n].lft > 0 /\ rs[n].rgt > 0 /\ rs[n].lft < rs[n].rgt
          /\ (rs[n].rgt - rs[n].lft) % 2 # 0
     /\ \A v \in 1..(2 * count) : seen(v) = 1
     /\ \A n \in DOMAIN rs : rs[n].parent # NoParent =>
          /\ rs[n].parent \in DOMAIN rs
          /\ LET p == rs[rs[n].parent] IN
               p.lft < rs[n].lft /\ p.rgt > rs[n].rgt /\ p.depth + 1 = rs[n].depth
     /\ count > 0 => MaxRight(rs) = 2 * count

-----------------------------------------------------------------------------
(* Structural writes.  A tree with plain rows in it is rebuilt before it is   *)
(* written to again.                                                          *)

CreateRoot(n) ==
  /\ ~plain /\ n \notin DOMAIN rows
  /\ rows' = Insert(rows, n, [parent |-> NoParent, lft |-> MaxRight(rows) + 1,
                              rgt |-> MaxRight(rows) + 2, depth |-> 0])
  /\ call' = <<"createRoot", n>>
  /\ UNCHANGED <<plain, pend>>

\* A missing target returns without an error and without a row.
CreateAtNode(n, target, mode) ==
  /\ ~plain /\ n \notin DOMAIN rows /\ target \in DOMAIN rows
  /\ LET place == Place(rows, target, mode) IN
       rows' = Insert(MakeGap(rows, place.at, 2), n,
                      [parent |-> place.parent, lft |-> place.at, rgt |-> place.at + 1, depth |-> place.depth])
  /\ call' = <<"create", n, target, mode>>
  /\ UNCHANGED <<plain, pend>>

MoveNode(n, target, mode) ==
  /\ ~plain /\ n \in DOMAIN rows
  /\ rows' = Move(rows, n, target, mode)
  /\ call' = <<"move", n, target, mode>>
  /\ UNCHANGED <<plain, pend>>

MoveToRoot(n) ==
  /\ ~plain /\ n \in DOMAIN rows
  /\ rows' = MoveRoot(rows, n)
  /\ call' = <<"moveRoot", n>>
  /\ UNCHANGED <<plain, pend>>

\* Update and UpdateValues: a changed ParentID moves the subtree.
Update(n, nextParent) ==
  /\ ~plain /\ n \in DOMAIN rows
  /\ rows' = IF rows[n].parent = nextParent THEN rows
             ELSE IF nextParent # NoParent THEN Move(rows, n, nextParent, "childLast")
             ELSE MoveRoot(rows, n)
  /\ call' = <<"update", n, nextParent>>
  /\ UNCHANGED <<plain, pend>>

DeleteSubtree(n) ==
  /\ ~plain /\ n \in DOMAIN rows
  /\ rows' = CloseGap([m \in DOMAIN rows \ Within(rows, rows[n]) |-> rows[m]], rows[n])
  /\ call' = <<"delete", n>>
  /\ UNCHANGED <<plain, pend>>

\* MoveUp and MoveDown look the sibling up first ...
MoveUpRead(n) ==
  /\ pend = Idle /\ ~plain /\ n \in DOMAIN rows
  /\ \E m \in PrevSibling(rows, n) : pend' = [op |-> "move", node |-> n, target |-> m, mode |-> "siblingBefore"]
  /\ UNCHANGED <<rows, plain, call>>

MoveDownRead(n) ==
  /\ pend = Idle /\ ~plain /\ n \in DOMAIN rows
  /\ \E m \in NextSibling(rows, n) : pend' = [op |-> "move", node |-> n, target |-> m, mode |-> "siblingAfter"]
  /\ UNCHANGED <<rows, plain, call>>

\* ... and move next to it in a transaction of their own.
MoveStepWrite ==
  /\ pend.op = "move" /\ ~plain
  /\ rows' = Move(rows, pend.node, pend.target, pend.mode)
  /\ call' = IF pend.node \in DOMAIN rows THEN <<"move", pend.node, pend.target, pend.mode>> ELSE call
  /\ pend' = Idle
  /\ UNCHANGED plain

\* db.Use[T]().Create: a row with a ParentID and zero bounds.
PlainCreate(n, parent) ==
  /\ n \notin DOMAIN rows /\ parent \in DOMAIN rows \cup {NoParent}
  /\ pend = Idle
  /\ rows' = Insert(rows, n, [parent |-> parent, lft |-> 0, rgt |-> 0, depth |-> 0])
  /\ plain' = TRUE
  /\ call' = <<"plain", n, parent>>
  /\ UNCHANGED pend

\* Rebuild: the rows in key order, their bounds recomputed from the ParentIDs.
\* It reads before its transaction opens; nobody is assumed to write in between.
Rebuild ==
  /\ pend = Idle
  /\ rows' = Rebuilt(rows, SetToSortSeq(DOMAIN rows, <), Ups(rows))
  /\ plain' = FALSE
  /\ call' = <<"rebuild">>
  /\ UNCHANGED pend

\* RebuildTree with a payload that holds every row of the tree, and new ones.
Payload ==
  [S \in SUBSET Nodes |->
     {<<ms, up>> \in {SetToSortSeq(S, <), SetToSortSeq(S, >)} \X [S -> S \cup {NoParent}] :
        ToSet(Tour(ms, up)) = S}]

RebuildTree(ms, up) ==
  /\ pend = Idle
  /\ LET stored == [n \in DOMAIN up |->
                     IF n \in DOMAIN rows THEN [rows[n] EXCEPT !.parent = up[n]]
                     ELSE [parent |-> up[n], lft |-> 0, rgt |-> 0, depth |-> 0]]
     IN rows' = Rebuilt(stored, ms, up)
  /\ plain' = FALSE
  /\ call' = <<"rebuildTree", ms, up>>
  /\ UNCHANGED pend

Next ==
  \/ \E n \in Nodes : CreateRoot(n) \/ MoveToRoot(n) \/ DeleteSubtree(n) \/ MoveUpRead(n) \/ MoveDownRead(n)
  \/ \E n, t \in Nodes, mode \in Modes : CreateAtNode(n, t, mode) \/ MoveNode(n, t, mode)
  \/ \E n \in Nodes, p \in ParentIds : Update(n, p) \/ PlainCreate(n, p)
  \/ MoveStepWrite
  \/ Rebuild
  \/ \E S \in SUBSET Nodes :
       /\ DOMAIN rows \subseteq S
       /\ \E payload \in Payload[S] : RebuildTree(payload[1], payload[2])

Spec == Init /\ [][Next]_vars

-----------------------------------------------------------------------------
\* Every row is a treeRow, and a pending call is one of the two-step ones.
TypeOK ==
  /\ DOMAIN rows \subseteq Nodes /\ \A n \in DOMAIN rows : rows[n] \in TreeRow
  /\ plain \in BOOLEAN
  /\ pend.op \in {"none", "move"}

\* The bounds are exactly 1..2n, each used once; two nodes' bounds are nested or
\* disjoint; and the tightest bounds around a node are its ParentID's, with
\* Depth the number of bounds around it.  All structural writes keep this, MoveUp
\* and MoveDown with a sibling read before somebody else's write included.
WellNested ==
  ~plain =>
    /\ UNION {{rows[n].lft, rows[n].rgt} : n \in DOMAIN rows} = 1..(2 * Cardinality(DOMAIN rows))
    /\ \A n \in DOMAIN rows :
         /\ rows[n].lft < rows[n].rgt
         /\ rows[n].depth = Cardinality(Ancestors(rows, n))
         /\ IF rows[n].parent = NoParent THEN Ancestors(rows, n) = {}
            ELSE /\ rows[n].parent \in Ancestors(rows, n)
                 /\ Ancestors(rows, n) \subseteq Ancestors(rows, rows[n].parent) \cup {rows[n].parent}
    /\ \A m, n \in DOMAIN rows : m # n =>
         \/ m \in Descendants(rows, n) \/ n \in Descendants(rows, m)
         \/ rows[m].rgt < rows[n].lft \/ rows[n].rgt < rows[m].lft

\* What the bounds say is what the ParentIDs say: Descendants is everything below
\* a node, IsLeaf is having no children, PrevSibling and NextSibling are the
\* neighbours in Children, Tree rebuilds the parents from the depths alone, and
\* DescendantsWithinDepth(n, 1) is the children.
ReadsAgree ==
  ~plain =>
    /\ BuildNodes(rows, ByLft(rows, DOMAIN rows)) = Ups(rows)
    /\ \A n \in DOMAIN rows :
         LET kids == Children(rows, n)
             sibs == Children(rows, rows[n].parent)
             i    == CHOOSE j \in DOMAIN sibs : sibs[j] = n
         IN /\ Descendants(rows, n) = ToSet(kids) \cup UNION {Descendants(rows, m) : m \in ToSet(kids)}
            /\ IsLeaf(rows, n) <=> kids = <<>>
            /\ PrevSibling(rows, n) = {sibs[j] : j \in {i - 1} \cap DOMAIN sibs}
            /\ NextSibling(rows, n) = {sibs[j] : j \in {i + 1} \cap DOMAIN sibs}
            /\ WithinDepth(rows, n, 1) = ToSet(kids)

\* Check reports a tree as valid exactly when no plain write has disturbed it
\* since the last rebuild.
CheckTells == Check(rows) <=> ~plain

Forest == INSTANCE OrderedForest WITH kids <- [p \in ParentIds |-> Children(rows, p)]

\* Every structural write edits the lists of children exactly as asked: the node
\* lands at the asked place with its whole subtree, a move into its own subtree
\* changes nothing, and no other node changes its parent or its place among its
\* siblings.
ImplementsForest == Forest!Spec
=============================================================================
