-------------------------------- MODULE MCDbt -------------------------------
(***************************************************************************)
(* A small instance of the dbt checkpoints for TLC: one checkpoint builds  *)
(* a table, a second one tests it.                                         *)
(***************************************************************************)
EXTENDS DbtCheckpoints

CONSTANT fact

Checkpoints == <<<<fact>>>>
=============================================================================
