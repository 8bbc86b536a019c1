--------------------------- MODULE RelationWriter ---------------------------
(***************************************************************************)
(* The operations of a RelationOperator of one source, a statement at a      *)
(* time. Target rows (table "items") refer to their source in `ref`; rows of *)
(* the through table ("pivot") hold a source in `ref` and a target in `key`. *)
(* In a dynamic relation sources of several models share the ids, and the    *)
(* column `type` says which model is meant.                                *)
(***************************************************************************)
EXTENDS ModelWrite

Source == "s"
SourceType == "S"

(* Does a row name the source of the relation? Name it; name nobody.        *)
IsSource(c, r) == r.ref = Source /\ (c.dynamic => r.type = SourceType)
Refer(c, r)    == [r EXCEPT !.ref = Source, !.type = IF c.dynamic THEN SourceType ELSE @]
Unrefer(c, r)  == [r EXCEPT !.ref = "", !.type = IF c.dynamic THEN "" ELSE @]

St(do, target) == [do |-> do, target |-> target]
Each(do, targets) == [i \in DOMAIN targets |-> St(do, targets[i])]

(* The operations that run in a transaction of their own. *)
InTransaction == {"replace", "addMany", "removeMany", "attachMany", "detachMany", "sync"}

(* The operations that call one of the statements below once. *)
SingleStatement ==
    [setBelongsTo  |-> "refer",   unsetBelongsTo |-> "unrefer",
     setHas        |-> "link",    unsetHasOne    |-> "unlinkAll",
     removeHas     |-> "unlink",  clearHas       |-> "unlinkAll",
     Attach        |-> "attach",  Detach         |-> "detach",
     UpdateThrough |-> "touch",   clearThrough   |-> "detachAll"]

Single(c)  == <<St(SingleStatement[c.op], c.keys[1])>>
Replace(c) == <<St("unlinkAll", c.keys[1]), St("link", c.keys[1])>>
AddMany(c)    == Each("link", c.keys)
RemoveMany(c) == Each("unlink", c.keys)
AttachMany(c) == Each("attach", c.keys)
DetachMany(c) == Each("detach", c.keys)
SyncWithoutDetach(c) == <<St("attachNew", "")>>
Sync(c) == <<St("detachMissing", "")>> \o SyncWithoutDetach(c)

Statements(c) ==
    CASE c.op \in DOMAIN SingleStatement -> Single(c)
      [] c.op = "replace"    -> Replace(c)
      [] c.op = "addMany"    -> AddMany(c)
      [] c.op = "removeMany" -> RemoveMany(c)
      [] c.op = "attachMany" -> AttachMany(c)
      [] c.op = "detachMany" -> DetachMany(c)
      [] c.op = "sync"       -> Sync(c)
      [] c.op = "syncWithoutDetach" -> SyncWithoutDetach(c)

RelationOps == DOMAIN SingleStatement \cup InTransaction \cup {"syncWithoutDetach"}

(* The operation begins, again for every attempt of its transaction. *)
beginRelation(s) ==
    LET c == call[s]
    IN  /\ c.pc = "beginRelation"
        /\ IF c.op \in InTransaction THEN BeginTx(s) ELSE NoChange
        /\ call' = [call EXCEPT ![s].pc = "relation", ![s].todo = Statements(c), ![s].error = ""]

rollbackRelation(s) ==
    LET c == call[s]
    IN  /\ c.pc = "fail" /\ c.op \in RelationOps
        /\ RollbackTx(s)
        /\ call' = IF c.error = "retry" /\ c.attempt < Attempts
                   THEN [call EXCEPT ![s].pc = "beginRelation", ![s].attempt = @ + 1]
                   ELSE [call EXCEPT ![s].pc = "returned"]

(* After a statement: the next one, or the end of the operation. *)
Proceed(s, rest) ==
    call' = [call EXCEPT ![s].todo = rest,
                         ![s].pc = IF rest # <<>> THEN "relation"
                                   ELSE IF tx[s].open THEN "commit" ELSE "returned"]

Doing(s, do) == call[s].pc = "relation" /\ Head(call[s].todo).do = do

(* An UPDATE or DELETE: it waits for the rows it is to change. *)
Affect(s, Test(_), To(_)) ==
    /\ ~Locked(s, Test)
    /\ Change(s, [id \in Match(s, Test) |-> To(View(s)[id])])
    /\ Proceed(s, Tail(call[s].todo))
    /\ UNCHANGED seq

Removed(r) == NoRow

(* The source row refers to the target: one row, found by its key. *)
setBelongsTo(s) ==
    /\ Doing(s, "refer")
    /\ Affect(s, LAMBDA r : r.table = "sources" /\ r.key = Source,
                 LAMBDA r : [r EXCEPT !.ref = Head(call[s].todo).target])

unsetBelongsTo(s) ==
    /\ Doing(s, "unrefer")
    /\ Affect(s, LAMBDA r : r.table = "sources" /\ r.key = Source, LAMBDA r : [r EXCEPT !.ref = ""])

(* The target row refers to the source, whomever it referred to before. *)
setHas(s) ==
    /\ Doing(s, "link")
    /\ Affect(s, LAMBDA r : r.table = "items" /\ r.key = Head(call[s].todo).target,
                 LAMBDA r : Refer(call[s], r))

removeHas(s) ==
    /\ Doing(s, "unlink")
    /\ Affect(s, LAMBDA r : r.table = "items" /\ r.key = Head(call[s].todo).target /\ IsSource(call[s], r),
                 LAMBDA r : Unrefer(call[s], r))

unsetHasOne(s) ==
    /\ Doing(s, "unlinkAll")
    /\ Affect(s, LAMBDA r : r.table = "items" /\ IsSource(call[s], r), LAMBDA r : Unrefer(call[s], r))

(* A through row is created; nothing says that it is the only one. *)
Attach(s) ==
    LET row == Refer(call[s], [NoRow EXCEPT !.table = "pivot", !.key = Head(call[s].todo).target, !.val = "new"])
    IN  /\ Doing(s, "attach")
        /\ Change(s, (seq + 1) :> row)
        /\ seq' = seq + 1
        /\ Proceed(s, Tail(call[s].todo))

detachID(s) ==
    /\ Doing(s, "detach")
    /\ Affect(s, LAMBDA r : r.table = "pivot" /\ IsSource(call[s], r) /\ r.key = Head(call[s].todo).target, Removed)

clearThrough(s) ==
    /\ Doing(s, "detachAll")
    /\ Affect(s, LAMBDA r : r.table = "pivot" /\ IsSource(call[s], r), Removed)

UpdateThrough(s) ==
    /\ Doing(s, "touch")
    /\ Affect(s, LAMBDA r : r.table = "pivot" /\ IsSource(call[s], r) /\ r.key = Head(call[s].todo).target,
                 LAMBDA r : [r EXCEPT !.val = "new"])

(* A mutant of existingTargetIDs: the through rows of every source. *)
existingOfAnySource(s) == {View(s)[id].key : id \in Match(s, LAMBDA r : r.table = "pivot")}

(* A read: it does not wait and sees no row of an open transaction. *)
existingTargetIDs(s) ==
    {View(s)[id].key : id \in Match(s, LAMBDA r : r.table = "pivot" /\ IsSource(call[s], r))}

(* The targets to detach, in the order in which Go ranges over the map. *)
syncDetachMissing(s) ==
    LET c == call[s]
        missing == existingTargetIDs(s) \ Range(c.keys)
    IN  /\ Doing(s, "detachMissing")
        /\ \E order \in [1 .. Cardinality(missing) -> missing] :
              /\ Range(order) = missing
              /\ Proceed(s, Each("detach", order) \o Tail(c.todo))
        /\ NoChange

(* The targets to attach, each once, in the order given. *)
attachNew(s) ==
    LET c == call[s]
        existing == existingTargetIDs(s)
        first == {i \in DOMAIN c.keys : \A j \in 1 .. i - 1 : c.keys[j] # c.keys[i]}
        new == SelectSeq([i \in DOMAIN c.keys |-> [target |-> c.keys[i], first |-> i \in first]],
                         LAMBDA t : t.first /\ t.target \notin existing)
    IN  /\ Doing(s, "attachNew")
        /\ Proceed(s, [i \in DOMAIN new |-> St("attach", new[i].target)] \o Tail(c.todo))
        /\ NoChange

relationStep(s) ==
    \/ beginRelation(s) \/ rollbackRelation(s)
    \/ setBelongsTo(s) \/ unsetBelongsTo(s) \/ setHas(s) \/ removeHas(s) \/ unsetHasOne(s)
    \/ Attach(s) \/ detachID(s) \/ clearThrough(s) \/ UpdateThrough(s)
    \/ syncDetachMissing(s) \/ attachNew(s)
=============================================================================
