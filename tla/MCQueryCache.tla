---------------------------- MODULE MCQueryCache ----------------------------
(* QueryCache for TLC.  No symmetry: it would not be sound for liveness. *)
EXTENDS QueryCache
=============================================================================
