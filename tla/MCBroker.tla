------------------------------ MODULE MCBroker ------------------------------
(* Constants of the Broker runs. *)
EXTENDS Broker, TLC

CONSTANTS q1, q2, q3, c1, c2, s1, host, platform, none

\* Questions an agent asks in its session, every client entitled to answer.
InSession == [q \in Question |-> s1]
Everybody == [q \in Question |-> Client]
Nobody == [q \in Question |-> none]

\* A tool approval, an OAuth prompt, and a prompt for the client that caused it.
PromptScopes == q1 :> s1 @@ q2 :> host @@ q3 :> host
PromptRecipients == q1 :> none @@ q2 :> none @@ q3 :> c1
ClientSymmetry == Permutations(Client)
=============================================================================
