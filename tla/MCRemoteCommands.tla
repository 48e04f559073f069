-------------------------- MODULE MCRemoteCommands --------------------------
(* RemoteCommands for TLC: a prompt and a creation. *)
EXTENDS RemoteCommands

CONSTANTS prompt, create
=============================================================================
