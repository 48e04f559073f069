------------------------------ MODULE Commands ------------------------------
(***************************************************************************)
(* What durable admission promises the users of a request ID, whatever     *)
(* happens to queues, lanes, retries and the process: a command is taken,  *)
(* executed at most once, settled with one outcome that tells the truth    *)
(* about the execution, and possibly forgotten.  Commands are independent: *)
(* one step may move any number of them.                                   *)
(***************************************************************************)
EXTENDS Naturals

CONSTANT Request

VARIABLES
  state,       \* "new", "taken" or "settled"
  executions,  \* how often the effect of the taken command ran
  verdict      \* the outcome of a settled command

view(r) == <<state[r], executions[r], verdict[r]>>
vars == <<state, executions, verdict>>

Init ==
  /\ state = [r \in Request |-> "new"]
  /\ executions = [r \in Request |-> 0]
  /\ verdict = [r \in Request |-> "none"]

Take(r) ==
  /\ state[r] = "new"
  /\ state'[r] = "taken" /\ executions'[r] = 0 /\ verdict'[r] = "none"

\* The effect runs; the outcome may become final in the same instant.
Execute(r) ==
  /\ state[r] = "taken" /\ executions[r] = 0 /\ executions'[r] = 1
  /\ \/ state'[r] = "taken" /\ verdict'[r] = "none"
     \/ state'[r] = "settled" /\ verdict'[r] = "accepted"

Settle(r) ==
  /\ state[r] = "taken" /\ state'[r] = "settled" /\ executions'[r] = executions[r]
  /\ \/ verdict'[r] = "accepted" /\ executions[r] = 1
     \/ verdict'[r] = "unavailable" /\ executions[r] = 0
     \/ verdict'[r] \in {"rejected", "indeterminate"}

\* Forgotten by retention; recovery settles and forgets in one instant.
Forget(r) ==
  /\ state[r] # "new"
  /\ state'[r] = "new" /\ executions'[r] = 0 /\ verdict'[r] = "none"

Step(r) == Take(r) \/ Execute(r) \/ Settle(r) \/ Forget(r)

Next == \A r \in Request : Step(r) \/ view(r)' = view(r)

Spec == Init /\ [][Next]_vars
=============================================================================
