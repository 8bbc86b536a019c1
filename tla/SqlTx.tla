-------------------------------- MODULE SqlTx --------------------------------
(* External to the repository: one transaction of database/sql on one server  *)
(* session, as far as transaction.go uses it.  `conn` is the sql.Tx (in use   *)
(* or done), `srv` is what the server makes of the session's transaction:     *)
(*   "active"   statements go to the transaction;                             *)
(*   "aborted"  PostgreSQL after a failed statement: everything fails until a *)
(*              rollback, whole or to a savepoint;                            *)
(*   "broken"   the connection failed: the server rolled back, nothing works; *)
(*   "lost"     MySQL after a deadlock: InnoDB has rolled the transaction     *)
(*              back and the session is in autocommit mode again.             *)
EXTENDS Integers, Sequences, FiniteSets

CONSTANT Dialect   \* "pgsql", "mysql" or "sqlite"

ASSUME DialectAssumption == Dialect \in {"pgsql", "mysql", "sqlite"}

VARIABLES
  conn,     \* "free", or "open" while a sql.Tx is not done
  ctxDone,  \* the context given to BeginTx is done
  srv,      \* state of the server's transaction
  work,     \* writes of the open transaction, in order
  sps,      \* its savepoints, oldest first: a name and how much work preceded it
  durable   \* committed writes

engine == <<conn, ctxDone, srv, work, sps, durable>>

EngineTypeOK ==
  /\ conn \in {"free", "open"}
  /\ ctxDone \in BOOLEAN
  /\ srv \in {"active", "aborted", "lost", "broken"}
  /\ work \in Seq(Nat)
  /\ sps \in Seq([name : Nat, at : Nat])
  /\ durable \in SUBSET Nat

EngineInit ==
  /\ conn = "free" /\ ctxDone = FALSE /\ srv = "active"
  /\ work = <<>> /\ sps = <<>> /\ durable = {}

WorkSet == {work[i] : i \in DOMAIN work}

\* DB.BeginTx.
TxBegin ==
  /\ conn = "free"
  /\ conn' = "open" /\ ctxDone' = FALSE /\ srv' = "active"
  /\ work' = <<>> /\ sps' = <<>>
  /\ UNCHANGED durable

\* The sql.Tx is done without a commit: Tx.Rollback, or the goroutine that
\* database/sql runs to roll back when BeginTx's context is done.
TxDiscard ==
  /\ conn = "open"
  /\ conn' = "free" /\ srv' = "active" /\ work' = <<>> /\ sps' = <<>>
  /\ UNCHANGED <<ctxDone, durable>>

\* Tx.Commit succeeds.  On a lost transaction COMMIT has nothing to do.
TxCommit ==
  /\ conn = "open" /\ ~ctxDone /\ srv \in {"active", "lost"}
  /\ durable' = durable \cup WorkSet
  /\ conn' = "free" /\ srv' = "active" /\ work' = <<>> /\ sps' = <<>>
  /\ UNCHANGED ctxDone

\* A statement that writes w.  In autocommit mode the write is durable at once.
ExecWrite(w) ==
  /\ conn = "open" /\ srv \in {"active", "lost"}
  /\ IF srv = "lost" THEN durable' = durable \cup {w} /\ UNCHANGED work
                     ELSE work' = Append(work, w) /\ UNCHANGED durable
  /\ UNCHANGED <<conn, ctxDone, srv, sps>>

\* A statement the server refuses: its own effect is undone, and PostgreSQL
\* aborts the transaction.
ExecRefused ==
  /\ conn = "open"
  /\ srv' = IF Dialect = "pgsql" /\ srv = "active" THEN "aborted" ELSE srv
  /\ UNCHANGED <<conn, ctxDone, work, sps, durable>>

\* A statement that ends with an error the drivers classify as ErrDeadlock.  On
\* PostgreSQL it aborts the transaction; on MySQL a deadlock (1213) rolls the
\* transaction back and a lock wait timeout (1205) only undoes the statement.  The
\* SQLite driver of the repository never reports one.
ExecDeadlock ==
  /\ conn = "open" /\ srv = "active"
  /\ \/ Dialect = "pgsql" /\ srv' = "aborted" /\ UNCHANGED <<work, sps>>
     \/ Dialect = "mysql" /\ srv' = "lost" /\ work' = <<>> /\ sps' = <<>>
     \/ Dialect = "mysql" /\ UNCHANGED <<srv, work, sps>>
  /\ UNCHANGED <<conn, ctxDone, durable>>

\* The connection breaks; the server rolls back the transaction it carried.
ConnBreaks ==
  /\ conn = "open" /\ srv # "broken"
  /\ srv' = "broken" /\ work' = <<>> /\ sps' = <<>>
  /\ UNCHANGED <<conn, ctxDone, durable>>

\* The positions of the savepoints called n; the last one is the one SQL means.
Named(n) == {i \in DOMAIN sps : sps[i].name = n}
Latest(n) == CHOOSE i \in Named(n) : \A j \in Named(n) : j <= i

\* SAVEPOINT n.  MySQL drops an older savepoint of the same name, PostgreSQL and
\* SQLite keep it, shadowed.  Outside a transaction the savepoint does not last.
ExecSavepoint(n) ==
  /\ conn = "open" /\ srv \in {"active", "lost"}
  /\ sps' = CASE srv = "lost" -> sps
              [] Dialect = "mysql" -> Append(SelectSeq(sps, LAMBDA s : s.name # n),
                                             [name |-> n, at |-> Len(work)])
              [] OTHER -> Append(sps, [name |-> n, at |-> Len(work)])
  /\ UNCHANGED <<conn, ctxDone, srv, work, durable>>

\* ROLLBACK TO SAVEPOINT n: the savepoint itself stays defined.
ExecRollbackTo(n) ==
  /\ conn = "open" /\ Named(n) # {}
  /\ work' = SubSeq(work, 1, sps[Latest(n)].at)
  /\ sps' = SubSeq(sps, 1, Latest(n))
  /\ srv' = "active"
  /\ UNCHANGED <<conn, ctxDone, durable>>

\* RELEASE SAVEPOINT n.
ExecRelease(n) ==
  /\ conn = "open" /\ srv \in {"active", "lost"} /\ Named(n) # {}
  /\ sps' = SubSeq(sps, 1, Latest(n) - 1)
  /\ UNCHANGED <<conn, ctxDone, srv, work, durable>>
=============================================================================
