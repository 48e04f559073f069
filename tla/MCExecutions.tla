---------------------------- MODULE MCExecutions ----------------------------
(* Small instances of Executions for TLC.                                  *)
EXTENDS Executions

CONSTANTS e1, e2, e3, root
=============================================================================
