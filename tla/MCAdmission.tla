----------------------------- MODULE MCAdmission -----------------------------
(* Constants of the Admission runs: two requests of one session and two callers. *)
EXTENDS Admission, TLC

CONSTANTS r1, r2, c1, c2, b1, b2, host, s1

\* Requests of one session.
OneLane == [r \in Request |-> s1]
CommandAndDelete == r1 :> "command" @@ r2 :> "delete"
AnswerAndManaged == r1 :> "answer" @@ r2 :> "managed"

\* Sizes of the bodies, in units of the byte limit.
UnitSizes == [r \in Request |-> 1]

\* No property names a caller or a body.
CallerSymmetry == Permutations(Client) \cup Permutations(Body)
=============================================================================
