---------------------------- MODULE MCPublication ----------------------------
(* Publication for TLC. *)
EXTENDS Publication
=============================================================================
