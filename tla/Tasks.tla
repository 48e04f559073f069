------------------------------- MODULE Tasks -------------------------------
(***************************************************************************)
(* What a session is promised of the executions it spawns: a turn of an    *)
(* execution starts under the limit, ends once, is continued only after it *)
(* ended, and its parent is told of an end at most once.                   *)
(***************************************************************************)
EXTENDS Integers, FiniteSets

CONSTANTS Task, Turn, Limit

VARIABLES
  phase,  \* [Task -> Phases]
  turn,   \* turns of each task so far
  told    \* how often the parent was told of the end of a turn

vars == <<phase, turn, told>>

Phases == {"absent", "queued", "running", "done"}

Init ==
  /\ phase = [t \in Task |-> "absent"]
  /\ turn = [t \in Task |-> 0]
  /\ told = [n \in Task \X Turn |-> 0]

In(p) == {t \in Task : phase[t] = p}

Moved(S, p) == [t \in Task |-> IF t \in S THEN p ELSE phase[t]]

\* A first turn, or one more turn of a task that ended.
Begin(t) ==
  /\ phase[t] \in {"absent", "done"}
  /\ phase' = Moved({t}, "queued")
  /\ turn' = [turn EXCEPT ![t] = @ + 1]
  /\ UNCHANGED told

Start(S) ==
  /\ S \subseteq In("queued") /\ Cardinality(In("running")) + Cardinality(S) <= Limit
  /\ phase' = Moved(S, "running")
  /\ UNCHANGED <<turn, told>>

\* Tasks end together when their session is cancelled, closed or restarted.
End(S) ==
  /\ S \subseteq In("queued") \cup In("running")
  /\ phase' = Moved(S, "done")
  /\ UNCHANGED <<turn, told>>

\* Only an end is told of: the present turn's or an earlier one's.
Tell(t, k) ==
  /\ told[<<t, k>>] = 0
  /\ k < turn[t] \/ (k = turn[t] /\ phase[t] = "done")
  /\ told' = [told EXCEPT ![<<t, k>>] = 1]
  /\ UNCHANGED <<phase, turn>>

Next ==
  \/ \E t \in Task : Begin(t)
  \/ \E S \in SUBSET Task : Start(S) \/ End(S)
  \/ \E t \in Task, k \in Turn : Tell(t, k)

Spec == Init /\ [][Next]_vars
=============================================================================
