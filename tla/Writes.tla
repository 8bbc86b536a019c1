------------------------------- MODULE Writes -------------------------------
(***************************************************************************)
(* Sessions that each make one call, of the model and table writes or of a   *)
(* relation, against the same rows.                                        *)
(***************************************************************************)
EXTENDS RelationWriter

CONSTANTS Scenes    \* initial rows with the calls that may meet on them

NewCall == [op |-> "", keys |-> <<>>, size |-> 0, models |-> <<>>, hooks |-> FALSE, apply |-> FALSE,
            fast |-> TRUE, skip |-> FALSE, doNothing |-> FALSE, dialect |-> "pgsql", checked |-> FALSE, dynamic |-> FALSE, val |-> "",
            pc |-> "start", phase |-> "fast", plan |-> "", attempt |-> 1, next |-> 1, ids |-> <<>>,
            created |-> <<>>, affected |-> 0, where |-> <<>>, version |-> 0, found |-> {},
            made |-> FALSE, last |-> 0, error |-> "", todo |-> <<>>, was |-> <<>>]

Init ==
    \E scene \in Scenes :
        /\ rows = [id \in Ids |-> IF id \in DOMAIN scene.rows THEN scene.rows[id] ELSE NoRow]
        /\ seq = Len(scene.rows)
        /\ tx = [s \in Sessions |-> NoTx]
        /\ did = [s \in Sessions |-> {}]
        /\ clash = {}
        /\ call \in [Sessions -> scene.calls]

(* The session makes its call. An update with CheckVersion brings the        *)
(* version that its caller read before.                                    *)
Start(s) ==
    LET c == call[s]
        read == {rows[id].ver : id \in {i \in Ids : rows[i] # NoRow /\ Live(c, rows[i])}}
    IN  /\ c.pc = "start"
        /\ call' = [call EXCEPT
              ![s].was = rows,
              ![s].version = IF c.checked /\ read # {} THEN CHOOSE v \in read : TRUE ELSE 0,
              ![s].phase = IF c.op = "createManyResult" THEN "batch" ELSE "fast",
              ![s].pc = CASE c.op = "firstOrCreate" -> "lookup"
                          [] c.op = "upsert" -> "upsert"
                          [] c.op \in {"tableCreateMany", "tableUpdate", "tableDelete"} -> "table"
                          [] c.op \in RelationOps -> "beginRelation"
                          [] OTHER -> "begin"]
        /\ clash' = clash \ {s}
        /\ UNCHANGED <<rows, seq, tx, did>>

AllReturned ==
    /\ \A s \in Sessions : call[s].pc = "returned"
    /\ UNCHANGED wvars

Next == (\E s \in Sessions : Start(s) \/ modelWriteStep(s) \/ relationStep(s)) \/ AllReturned

Spec == Init /\ [][Next]_wvars

-----------------------------------------------------------------------------
Succeeded(s) == call[s].pc = "returned" /\ call[s].error = ""
Inserted(s)  == {e.id : e \in {d \in did[s] : d.from = NoRow}}

(* NoLostUpdate: an update with CheckVersion that returns nil replaced the   *)
(* very version its caller had read, and no two of them replaced the same    *)
(* one, however their transactions interleave and are repeated              *)
(* (applyOptimisticLock).                                                  *)
NoLostUpdate ==
    \A s \in Sessions :
        Succeeded(s) /\ call[s].op = "update" /\ call[s].version # 0 =>
            /\ did[s] # {}
            /\ \A d \in did[s] :
                  /\ d.from.ver = call[s].version
                  /\ \A o \in Others(s) :
                        Succeeded(o) /\ call[o].op = "update" /\ call[o].version # 0 =>
                            \A e \in did[o] : e.id = d.id => e.from.ver # d.from.ver

(* The affected rows of an upsert as its changes add up: on MySQL an updated *)
(* row counts twice and one that kept its values does not count.            *)
UpsertCount(c, changes) ==
    LET differ == {d \in changes : d.from # d.to}
    IN  IF c.dialect = "mysql" THEN Cardinality(differ) + Cardinality({d \in differ : d.from # NoRow})
        ELSE Cardinality(changes)

(* AnswerIsCommitted: what a write returns is what it left in the database:  *)
(* the keys it returns are those of the rows it inserted, each beside the    *)
(* model it belongs to, counts are counts of changed rows, UpsertMany's as   *)
(* the database of the dialect counts them; FirstOrCreate says "created"     *)
(* exactly when it inserted the row; Upsert answers the row it inserted or   *)
(* changed although it reads it back in a second statement; and a write that *)
(* ran in a transaction and returns an error left nothing. Hooks may fail    *)
(* and the transaction may be repeated, except (CountedRetries) that of       *)
(* UpsertMany and of a CreateMany with hooks, which add up over attempts     *)
(* (query_model.go:1003, 1284; MCWritesCounted.cfg). A table's CreateMany     *)
(* answers keys where the driver reports one: on PostgreSQL it answers none  *)
(* (query_helpers.go:1152-1168).                                           *)
AnswerIsCommitted ==
    \A s \in Sessions :
        LET c == call[s]
            keyless == c.op = "tableCreateMany" /\ c.dialect = "pgsql"
        IN  /\ Succeeded(s) /\ (c.op \in {"create", "tableCreateMany"} \/ Many(c)) /\ ~keyless =>
                 /\ Range(c.created) = Inserted(s)
                 /\ Len(c.created) = Len(c.keys)
                 /\ \A d \in did[s] : \E i \in DOMAIN c.keys : c.created[i] = d.id /\ c.keys[i] = d.to.key
            /\ keyless => c.created = <<>>
            /\ Succeeded(s) /\ c.op \in {"update", "delete", "forceDelete", "restore",
                                         "tableUpdate", "tableDelete", "tableCreateMany"} =>
                 c.affected = Cardinality(did[s])
            /\ Succeeded(s) /\ c.op = "upsertMany" => c.affected = UpsertCount(c, did[s])
            /\ Succeeded(s) /\ c.op = "upsert" =>
                 c.found = {d.id : d \in did[s]} /\ Cardinality(c.found) = 1
            /\ Succeeded(s) /\ c.op = "firstOrCreate" =>
                 /\ c.made <=> Inserted(s) # {}
                 /\ c.made => c.found = Inserted(s)
                 /\ Cardinality(c.found) = 1
            /\ c.pc = "returned" /\ c.error \notin {"", "apply"} /\ ~c.skip
               /\ c.op \in (WriteOps \ {"tableCreateMany", "upsert", "firstOrCreate"}) \cup InTransaction =>
                 did[s] = {}

Of(c, rs, table) == {id \in Ids : rs[id].table = table /\ IsSource(c, rs[id])}
KeysOf(rs, ids) == {rs[id].key : id \in ids}

(* RelationAsAsked: a relation operation that returns nil and met no commit   *)
(* of another session leaves the relation as it was asked to: Sync exactly   *)
(* its targets, each in one row, SyncWithoutDetach what was there and its     *)
(* targets, Replace the one target; also after its transaction was repeated. *)
(* Through rows of other sources are never touched (relation_writer.go).     *)
RelationAsAsked ==
    \A s \in Sessions :
        LET c == call[s]
            new == [id \in {d.id : d \in did[s]} |-> (CHOOSE d \in did[s] : d.id = id).to]
            is == new @@ c.was
            linked == KeysOf(is, Of(c, is, "items"))
            before == KeysOf(c.was, Of(c, c.was, "pivot"))
            through == KeysOf(is, Of(c, is, "pivot"))
            once == Cardinality(Of(c, c.was, "pivot")) = Cardinality(before) =>
                        Cardinality(Of(c, is, "pivot")) = Cardinality(through)
        IN  Succeeded(s) /\ s \notin clash /\ c.op \in RelationOps =>
                /\ \A d \in did[s] : d.from.table = "pivot" => IsSource(c, d.from)
                /\ c.op = "sync" => through = Range(c.keys) /\ once
                /\ c.op = "syncWithoutDetach" => through = before \cup Range(c.keys) /\ once
                /\ c.op = "detachMany" => through = before \ Range(c.keys)
                /\ c.op = "clearThrough" => through = {}
                /\ c.op = "attachMany" => Cardinality(Of(c, is, "pivot")) = Cardinality(Of(c, c.was, "pivot")) + Len(c.keys)
                /\ c.op = "replace" => linked = Range(c.keys)
                /\ c.op = "addMany" => Range(c.keys) \subseteq linked
                /\ c.op = "removeMany" => linked \cap Range(c.keys) = {}
                /\ c.op \in {"clearHas", "unsetHasOne"} => linked = {}
=============================================================================
