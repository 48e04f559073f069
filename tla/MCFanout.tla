------------------------------ MODULE MCFanout ------------------------------
(* Constants of the Fanout runs. *)
EXTENDS Fanout, TLC

CONSTANTS t1, t2, a1, a2, nobody
=============================================================================
