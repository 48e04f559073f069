-------------------------------- MODULE Feed --------------------------------
(***************************************************************************)
(* What an attached client is promised: the view it shows is always a      *)
(* state its session went through, and it moves forward only.  It may skip *)
(* states (a merged delta, a fresh snapshot) and it may be given up.       *)
(***************************************************************************)
EXTENDS Naturals, Sequences

CONSTANTS Viewer, NoView

VARIABLES
  log,    \* the states the session went through, the first one first
  view    \* the state each viewer shows

vars == <<log, view>>

Shown(v) == {i \in DOMAIN log : log[i] = view[v]}

Init == Len(log) = 1 /\ view = [v \in Viewer |-> NoView]

Advance == /\ Len(log') = Len(log) + 1
           /\ SubSeq(log', 1, Len(log)) = log
           /\ UNCHANGED view

\* A viewer moves to a state at least as recent as the one it shows.
Catch(v) == \E i \in DOMAIN log :
  /\ \A j \in Shown(v) : j <= i
  /\ view' = [view EXCEPT ![v] = log[i]]
  /\ UNCHANGED log

Drop(v) == view' = [view EXCEPT ![v] = NoView] /\ UNCHANGED log

Next == Advance \/ \E v \in Viewer : Catch(v) \/ Drop(v)

Spec == Init /\ [][Next]_vars
=============================================================================
