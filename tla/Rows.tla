-------------------------------- MODULE Rows --------------------------------
(***************************************************************************)
(* The database that the write operations see: rows, a sequence of keys,    *)
(* and transactions at READ COMMITTED. A statement sees what is committed   *)
(* and what its own transaction has changed; a changed row is locked until  *)
(* the transaction ends, and so is a key of a unique index.                *)
(***************************************************************************)
EXTENDS Naturals, Sequences, FiniteSets, TLC

CONSTANTS Sessions, MaxId

VARIABLES rows,     \* the committed rows
          seq,      \* the last key drawn; never drawn again after a rollback
          tx,       \* the transaction of a session: is it open, what it changed
          did,      \* history: the changes of a session's call that still stand
          clash     \* history: sessions under which somebody else changed rows

Ids   == 1 .. MaxId
NoRow == [table |-> "", key |-> "", ref |-> "", type |-> "", val |-> "", ver |-> 0, gone |-> FALSE]
NoTx  == [open |-> FALSE, new |-> <<>>]

Others(s) == Sessions \ {s}

View(s) == [id \in Ids |-> IF id \in DOMAIN tx[s].new THEN tx[s].new[id] ELSE rows[id]]

Match(s, Test(_)) == {id \in Ids : LET r == View(s)[id] IN r # NoRow /\ Test(r)}

(* Has another transaction locked a row that a statement would change? *)
Locked(s, Test(_)) ==
    \E o \in Others(s) : \E id \in DOMAIN tx[o].new : rows[id] # NoRow /\ Test(rows[id])

(* Is the outcome of another transaction needed to tell whether keys are free? *)
Undecided(s, table, keys) ==
    \E o \in Others(s) : \E id \in DOMAIN tx[o].new : \E r \in {rows[id], tx[o].new[id]} :
        r.table = table /\ r.key \in keys

(* The changes of a session, one for each row: from what, to what. *)
Changes(s, new) ==
    LET From(id) == IF \E d \in did[s] : d.id = id THEN (CHOOSE d \in did[s] : d.id = id).from
                    ELSE View(s)[id]
    IN  {[id |-> id, from |-> From(id), to |-> new[id]] : id \in DOMAIN new}
        \cup {d \in did[s] : d.id \notin DOMAIN new}

(* A statement changes rows; outside of a transaction it commits by itself. *)
Change(s, new) ==
    LET open == tx[s].open
    IN  /\ did' = [did EXCEPT ![s] = Changes(s, new)]
        /\ tx' = IF open THEN [tx EXCEPT ![s].new = new @@ @] ELSE tx
        /\ rows' = IF open THEN rows ELSE new @@ rows
        /\ clash' = IF open \/ DOMAIN new = {} THEN clash ELSE clash \cup Others(s)

NoChange == UNCHANGED <<rows, seq, tx, did, clash>>

BeginTx(s) ==
    /\ tx' = [tx EXCEPT ![s].open = TRUE]
    /\ UNCHANGED <<rows, seq, did, clash>>

CommitTx(s) ==
    /\ rows' = tx[s].new @@ rows
    /\ clash' = IF DOMAIN tx[s].new = {} THEN clash ELSE clash \cup Others(s)
    /\ tx' = [tx EXCEPT ![s] = NoTx]
    /\ UNCHANGED <<seq, did>>

RollbackTx(s) ==
    /\ tx' = [tx EXCEPT ![s] = NoTx]
    /\ did' = IF tx[s].open THEN [did EXCEPT ![s] = {}] ELSE did
    /\ UNCHANGED <<rows, seq, clash>>

(* May the database break a transaction off, for a deadlock or a conflict?  *)
Contended(s) == tx[s].open /\ \E o \in Others(s) : DOMAIN tx[o].new # {}

(* The keys an insert gives: those of the caller where they are set (not 0), *)
(* the next ones of the sequence for the others, in order.                 *)
Drawn(given)    == Cardinality({i \in DOMAIN given : given[i] = 0})
KeysFor(given) ==
    [i \in DOMAIN given |-> IF given[i] # 0 THEN given[i]
                            ELSE seq + Drawn(SubSeq(given, 1, i))]

(* The key that a driver without RETURNING reports for a statement. *)
LastInsertId(dialect, given) == KeysFor(given)[IF dialect = "sqlite" THEN Len(given) ELSE 1]

(* What a driver reports for an upsert: the number of affected rows, where   *)
(* MySQL counts an updated row twice and one that keeps its values not at    *)
(* all, and on MySQL the key of the row, or 0 when nothing changed.          *)
Changed(s, new) == {id \in DOMAIN new : new[id] # View(s)[id]}

RowsAffected(s, dialect, new) ==
    IF dialect = "mysql"
    THEN Cardinality(Changed(s, new)) + Cardinality({id \in Changed(s, new) : View(s)[id] # NoRow})
    ELSE Cardinality(DOMAIN new)

UpsertInsertId(s, new) == IF Changed(s, new) = {} THEN 0 ELSE CHOOSE id \in Changed(s, new) : TRUE
=============================================================================
