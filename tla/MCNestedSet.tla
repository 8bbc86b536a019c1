----------------------------- MODULE MCNestedSet -----------------------------
(* An instance of NestedSet for TLC; the constants are in the configuration.  *)
EXTENDS NestedSet
=============================================================================
