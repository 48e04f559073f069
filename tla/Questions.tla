------------------------------ MODULE Questions ------------------------------
(***************************************************************************)
(* What the daemon promises about a question put to its users, whoever may *)
(* answer it and whatever happens to clients, sessions and the process: it *)
(* is resolved once, only an answered question delivers its answer, and it *)
(* does so at most once.  Questions are independent of each other.         *)
(***************************************************************************)
EXTENDS Naturals

CONSTANT Question

VARIABLES
  status,     \* "unasked", "open", "answered" or "withdrawn"
  deliveries  \* how often the answer was given to the agent that asked

vars == <<status, deliveries>>

Init ==
  /\ status = [q \in Question |-> "unasked"]
  /\ deliveries = [q \in Question |-> 0]

Ask(q) ==
  status[q] = "unasked" /\ status'[q] = "open" /\ deliveries'[q] = deliveries[q]

\* An answer may be handed to the waiting agent in the same instant.
Answer(q) ==
  /\ status[q] = "open" /\ status'[q] = "answered"
  /\ deliveries[q] = 0 /\ deliveries'[q] \in {0, 1}

Withdraw(q) ==
  status[q] = "open" /\ status'[q] = "withdrawn" /\ deliveries'[q] = deliveries[q]

Deliver(q) ==
  /\ status[q] = "answered" /\ status'[q] = "answered"
  /\ deliveries[q] = 0 /\ deliveries'[q] = 1

Step(q) == Ask(q) \/ Answer(q) \/ Withdraw(q) \/ Deliver(q)

Next ==
  \A q \in Question :
    Step(q) \/ (status'[q] = status[q] /\ deliveries'[q] = deliveries[q])

Spec == Init /\ [][Next]_vars
=============================================================================
