----------------------------- MODULE SchemaSync -----------------------------
(* DB.Sync on one table of one connection: every process that starts reads   *)
(* the snapshot of the last sync and the table, applies the difference to    *)
(* its model one DDL statement at a time, and replaces the snapshot row by   *)
(* row.  No transaction holds these statements together, a process may fail  *)
(* between any two of them, and several processes may sync at once.          *)
EXTENDS Integers, Sequences, FiniteSets, SequencesExt, Functions

CONSTANTS
  Procs,      \* processes that call Sync when they start
  Versions,   \* the models deployed over time
  Stored      \* Stored[k]: the kind the inspector reports for a column of kind k

ASSUME SyncAssumption ==
  \A v \in Versions :
    /\ DOMAIN v.cols \subseteq Nat \ {0} /\ DOMAIN v.cols # {}
    /\ \A f \in DOMAIN v.cols :
         v.cols[f].kind \in DOMAIN Stored /\ v.cols[f].pk \in BOOLEAN /\ v.cols[f].null \in BOOLEAN
    /\ \A f, g \in DOMAIN v.cols : v.cols[f].col = v.cols[g].col => f = g

VARIABLES
  table,    \* column name -> [kind, null, pk]; empty when the table is missing
  index,    \* index name -> its columns
  snap,     \* oro_schema_snapshots: field -> [col, kind]
  version,  \* the model the running processes were built with
  pc,       \* where each process is in syncSchemaOnConnection
  old,      \* the snapshot it loaded
  todo,     \* the changes it has still to execute
  rest,     \* the fields whose snapshot rows it has still to insert
  safe      \* some process found no unsafe change on the way to this version

vars == <<table, index, snap, version, pc, old, todo, rest, safe>>

Empty == [x \in {} |-> x]
FieldsOf(v) == SetToSortSeq(DOMAIN v.cols, <)
ColumnsOf(v) == {v.cols[f].col : f \in DOMAIN v.cols}
Unsafe == [op |-> "unsafe"]
Active == {"inspect", "apply", "insert"}

Init ==
  /\ table = Empty /\ index = Empty /\ snap = Empty /\ version \in Versions
  /\ pc = [p \in Procs |-> "idle"] /\ old = [p \in Procs |-> Empty]
  /\ todo = [p \in Procs |-> <<>>] /\ rest = [p \in Procs |-> <<>>]
  /\ safe = FALSE

-----------------------------------------------------------------------------
(* syncdiff *)

\* detectRenameChanges: the fields whose column in the snapshot is still there,
\* and whose column in the model is not, when the types are compatible.  Their
\* null constraints are not compared.
Candidates(cur, v, was) ==
  {f \in DOMAIN was \cap DOMAIN v.cols :
     /\ was[f].col \in DOMAIN cur
     /\ v.cols[f].col \notin DOMAIN cur
     /\ cur[was[f].col].kind = v.cols[f].kind}

\* unsafeColumnChange, with the logical type the snapshot has for the column.
UnsafeColumnChangeByType(cur, c, was) ==
  \/ cur[c.col].pk # c.pk
  \/ ~c.pk /\ cur[c.col].null /\ ~c.null
  \/ cur[c.col].kind # c.kind

UnsafeColumnChangeAnyNull(cur, c, was) ==
  LET logged == {f \in DOMAIN was : was[f].col = c.col}
  IN \/ cur[c.col].pk # c.pk
     \/ c.kind \notin (IF logged = {} THEN {cur[c.col].kind} ELSE {was[f].kind : f \in logged})

UnsafeColumnChange(cur, c, was) ==
  LET logged == {f \in DOMAIN was : was[f].col = c.col}
      kinds  == IF logged = {} THEN {cur[c.col].kind} ELSE {was[f].kind : f \in logged}
  IN \/ cur[c.col].pk # c.pk
     \/ ~c.pk /\ cur[c.col].null /\ ~c.null
     \/ c.kind \notin kinds

\* The changes of one column of the model.
ColumnChange(cur, c, was) ==
  IF c.col \notin DOMAIN cur THEN <<[op |-> "add", spec |-> c]>>
  ELSE IF UnsafeColumnChange(cur, c, was) THEN <<Unsafe>>
  ELSE <<>>

\* The changes of one index of the model; idx holds the indexes as inspected.
IndexChange(idx, v, name) ==
  IF name \notin DOMAIN idx THEN <<[op |-> "index", name |-> name, cols |-> v.idx[name]]>>
  ELSE IF idx[name] # v.idx[name] THEN <<Unsafe>>
  ELSE <<>>

\* A column that is neither in the model nor renamed would have to be dropped.
DropsAllowed(cur, v, renamed) == <<>>

Drops(cur, v, renamed) ==
  IF DOMAIN cur \subseteq ColumnsOf(v) \cup renamed THEN <<>> ELSE <<Unsafe>>

IndexesOf(v) == SetToSeq(DOMAIN v.idx)
Each(Change(_), seq) == FlattenSeq([i \in DOMAIN seq |-> Change(seq[i])])

\* DiffWithSnapshot; a renamed column is not looked at any further.
Diff(cur, idx, v, was) ==
  LET moved     == Candidates(cur, v, was)
      renames   == {[op |-> "rename", from |-> was[f].col, to |-> v.cols[f].col] : f \in moved}
      gone      == {was[f].col : f \in moved}
      OfField(f) == IF f \in moved THEN <<>> ELSE ColumnChange(cur, v.cols[f], was)
      OfIndex(n) == IndexChange(idx, v, n)
      NewIndex(n) == IndexChange(Empty, v, n)
  IN IF cur = Empty THEN <<[op |-> "create"]>> \o Each(NewIndex, IndexesOf(v))
     ELSE IF Cardinality(moved) > 1 THEN <<Unsafe>>
     ELSE SetToSeq(renames)
          \o Each(OfField, FieldsOf(v))
          \o Drops(cur, v, gone)
          \o Each(OfIndex, IndexesOf(v))

-----------------------------------------------------------------------------
(* The database *)

Column(c) == [kind |-> Stored[c.kind], null |-> c.null, pk |-> c.pk]
CreateTable(v) == [n \in ColumnsOf(v) |-> Column(CHOOSE c \in Range(v.cols) : c.col = n)]

\* Whether the statement of a change succeeds, and what it does to the table and
\* the indexes.  CREATE TABLE and CREATE INDEX say IF NOT EXISTS; a renamed
\* column keeps its data and its indexes.  A NOT NULL column is added when the table
\* has no rows; when it has some, the statement fails (Fail).
Executes(ch) ==
  CASE ch.op = "create" -> TRUE
    [] ch.op = "add"    -> table # Empty /\ ch.spec.col \notin DOMAIN table
    [] ch.op = "rename" -> ch.from \in DOMAIN table /\ ch.to \notin DOMAIN table
    [] ch.op = "index"  -> ch.name \in DOMAIN index \/ Range(ch.cols) \subseteq DOMAIN table
    [] ch.op = "unsafe" -> FALSE

TableAfter(ch) ==
  CASE ch.op = "create" /\ table = Empty -> CreateTable(version)
    [] ch.op = "add" -> [n \in DOMAIN table \cup {ch.spec.col} |->
                          IF n = ch.spec.col THEN [Column(ch.spec) EXCEPT !.pk = FALSE] ELSE table[n]]
    [] ch.op = "rename" -> [n \in (DOMAIN table \ {ch.from}) \cup {ch.to} |->
                             IF n = ch.to THEN table[ch.from] ELSE table[n]]
    [] OTHER -> table

IndexAfter(ch) ==
  CASE ch.op = "index" -> [n \in DOMAIN index \cup {ch.name} |->
                            IF n \in DOMAIN index THEN index[n] ELSE ch.cols]
    [] ch.op = "rename" -> [n \in DOMAIN index |->
                             [i \in DOMAIN index[n] |-> IF index[n][i] = ch.from THEN ch.to ELSE index[n][i]]]
    [] OTHER -> index

-----------------------------------------------------------------------------
(* syncSchemaOnConnection *)

\* loadSchemaSnapshot
Load(p) ==
  /\ pc[p] = "idle"
  /\ old' = [old EXCEPT ![p] = snap]
  /\ pc' = [pc EXCEPT ![p] = "inspect"]
  /\ UNCHANGED <<table, index, snap, version, todo, rest, safe>>

\* inspector.Table and the diff
Inspect(p) ==
  /\ pc[p] = "inspect"
  /\ LET changes == Diff(table, index, version, old[p]) IN
       /\ todo' = [todo EXCEPT ![p] = changes]
       /\ safe' = (safe \/ Unsafe \notin Range(changes))
  /\ old' = [old EXCEPT ![p] = Empty]
  /\ pc' = [pc EXCEPT ![p] = "apply"]
  /\ UNCHANGED <<table, index, snap, version, rest>>

\* One change; the first that cannot be compiled or executed ends the sync.
Apply(p) ==
  /\ pc[p] = "apply" /\ todo[p] # <<>>
  /\ LET ch == Head(todo[p]) IN
       \/ /\ Executes(ch)
          /\ table' = TableAfter(ch) /\ index' = IndexAfter(ch)
          /\ todo' = [todo EXCEPT ![p] = Tail(@)]
          /\ UNCHANGED pc
       \/ /\ ~Executes(ch)
          /\ todo' = [todo EXCEPT ![p] = <<>>]
          /\ pc' = [pc EXCEPT ![p] = "failed"]
          /\ UNCHANGED <<table, index>>
  /\ UNCHANGED <<snap, version, old, rest, safe>>

\* saveSchemaSnapshot: the DELETE ...
DeleteSnapshotByField(p) ==
  /\ pc[p] = "apply" /\ todo[p] = <<>>
  /\ snap' = [f \in DOMAIN snap \ DOMAIN version.cols |-> snap[f]]
  /\ rest' = [rest EXCEPT ![p] = FieldsOf(version)]
  /\ pc' = [pc EXCEPT ![p] = "insert"]
  /\ UNCHANGED <<table, index, version, old, todo, safe>>

DeleteSnapshot(p) ==
  /\ pc[p] = "apply" /\ todo[p] = <<>>
  /\ snap' = Empty
  /\ rest' = [rest EXCEPT ![p] = FieldsOf(version)]
  /\ pc' = [pc EXCEPT ![p] = "insert"]
  /\ UNCHANGED <<table, index, version, old, todo, safe>>

\* ... and an INSERT for every column, which fails on a row that is there.
InsertSnapshot(p) ==
  /\ pc[p] = "insert"
  /\ LET f == Head(rest[p]) IN
       \/ /\ f \notin DOMAIN snap
          /\ snap' = [g \in DOMAIN snap \cup {f} |->
                       IF g = f THEN [col |-> version.cols[f].col, kind |-> version.cols[f].kind] ELSE snap[g]]
          /\ rest' = [rest EXCEPT ![p] = Tail(@)]
          /\ pc' = [pc EXCEPT ![p] = IF Len(rest[p]) = 1 THEN "done" ELSE @]
       \/ /\ f \in DOMAIN snap
          /\ rest' = [rest EXCEPT ![p] = <<>>]
          /\ pc' = [pc EXCEPT ![p] = "failed"]
          /\ UNCHANGED snap
  /\ UNCHANGED <<table, index, version, old, todo, safe>>

\* A statement fails, the context ends or the process dies.
Fail(p) ==
  /\ pc[p] \in Active
  /\ pc' = [pc EXCEPT ![p] = "failed"]
  /\ old' = [old EXCEPT ![p] = Empty]
  /\ todo' = [todo EXCEPT ![p] = <<>>] /\ rest' = [rest EXCEPT ![p] = <<>>]
  /\ UNCHANGED <<table, index, snap, version, safe>>

\* The process starts again with the same model.
Restart(p) ==
  /\ pc[p] \in {"done", "failed"}
  /\ pc' = [pc EXCEPT ![p] = "idle"]
  /\ UNCHANGED <<table, index, snap, version, old, todo, rest, safe>>

\* All processes are replaced by ones built with another model.
Deploy(v) ==
  /\ v # version /\ \A p \in Procs : pc[p] \notin Active
  /\ version' = v /\ safe' = FALSE
  /\ pc' = [p \in Procs |-> "idle"]
  /\ UNCHANGED <<table, index, snap, old, todo, rest>>

Next ==
  \/ \E p \in Procs : Load(p) \/ Inspect(p) \/ Apply(p) \/ DeleteSnapshot(p) \/ InsertSnapshot(p)
                        \/ Fail(p) \/ Restart(p)
  \/ \E v \in Versions : Deploy(v)

Spec == Init /\ [][Next]_vars

-----------------------------------------------------------------------------
\* Columns are of the kinds the inspector can report, and a process has changes or
\* snapshot rows left only in the phase that uses them.
TypeOK ==
  /\ \A c \in DOMAIN table :
       table[c].kind \in Range(Stored) /\ table[c].null \in BOOLEAN /\ table[c].pk \in BOOLEAN
  /\ version \in Versions /\ safe \in BOOLEAN
  /\ \A p \in Procs :
       /\ pc[p] \in {"idle", "done", "failed"} \cup Active
       /\ todo[p] # <<>> => pc[p] = "apply"
       /\ rest[p] # <<>> <=> pc[p] = "insert"

\* When Sync returns nil, every column of the model is in the table with a type
\* and a null constraint that fit it, and every index is there ("Safe changes are
\* applied automatically", and "tightening nullable constraints" is refused),
\* whichever other processes sync at the same time and wherever earlier syncs were
\* cut short.  For models that do not rename a field and make it NOT NULL at once:
\* the renamed column skips unsafeColumnChange (diff.go:51) and Sync returns nil
\* with the column nullable (MCSchemaTighten.cfg).
Applied ==
  (\E p \in Procs : pc[p] = "done") =>
    /\ \A f \in DOMAIN version.cols :
         LET c == version.cols[f] IN
         /\ c.col \in DOMAIN table
         /\ table[c.col].kind = Stored[c.kind]
         /\ table[c.col].null /\ ~c.pk => c.null
         /\ table[c.col].pk = c.pk
    /\ \A n \in DOMAIN version.idx : n \in DOMAIN index /\ index[n] = version.idx[n]

\* Sync never leaves behind a column of an older model when it returns nil:
\* "dropping a column" is refused.
NothingLeftBehind ==
  (\E p \in Procs : pc[p] = "done") => DOMAIN table \subseteq ColumnsOf(version)

\* After a Sync that returned nil the snapshot has no row of an older model: every
\* row says where a field of this model is.  (It may lack rows when another process
\* was cut short between its DELETE and its INSERTs.)
SnapshotCurrent ==
  (\E p \in Procs : pc[p] = "done") =>
    \A f \in DOMAIN snap :
      f \in DOMAIN version.cols /\ snap[f] = [col |-> version.cols[f].col, kind |-> version.cols[f].kind]

\* A sync that had no unsafe change to make can be repeated after it was cut short
\* anywhere: none appears, unless a snapshot row is lost of a column whose stored
\* type is of another kind than its field's (a bool is an integer in SQLite).  A
\* field renamed and made NOT NULL at once is excepted as for Applied: the sync
\* that renames it succeeds and every later one refuses the nullable column.
Repeatable ==
  (/\ safe
   /\ \A f \in DOMAIN version.cols :
        Stored[version.cols[f].kind] = version.cols[f].kind \/ f \in DOMAIN snap) =>
     Unsafe \notin Range(Diff(table, index, version, snap))
=============================================================================
