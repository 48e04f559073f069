---------------------------- MODULE MCLifecycle ----------------------------
(* Two drains, one of them a restart, and two forced stops. *)
EXTENDS Lifecycle
CONSTANTS d1, d2, f1, f2
MCAction == [r \in Request |-> IF r = d2 THEN "restart" ELSE "stop"]
MCMode == [r \in Request |-> IF r \in {d1, d2} THEN "drain" ELSE "force"]
=============================================================================
