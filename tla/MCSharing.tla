------------------------------ MODULE MCSharing ------------------------------
(* One root session and a child of it, on two hosts. *)
EXTENDS Sharing
CONSTANTS root, child, h1, h2
MCSessions == {root, child}
MCHosts == {h1, h2}
=============================================================================
