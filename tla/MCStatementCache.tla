-------------------------- MODULE MCStatementCache --------------------------
(* StatementCache for TLC.  No symmetry: it would not be sound for liveness. *)
EXTENDS StatementCache
=============================================================================
