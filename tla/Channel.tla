------------------------------- MODULE Channel -------------------------------
(***************************************************************************)
(* What publication promises about one session: items are recorded at the  *)
(* end, offered to the web from the front, and shown by the web in that    *)
(* order, each once.  What was never offered may be given up, at the end   *)
(* only; what was offered keeps its place for good.  A power loss ends the *)
(* promise (remote-connector.md, "Persistence").                           *)
(***************************************************************************)
EXTENDS Naturals, Sequences

VARIABLES
  recorded,   \* every item that has a place
  offered,    \* how many of them were ever sent
  delivered,  \* how many of them the web has
  broken      \* power was lost

vars == <<recorded, offered, delivered, broken>>

Init ==
  /\ recorded = <<>>
  /\ offered = 0 /\ delivered = 0
  /\ broken = FALSE

Prefix(s, n) == SubSeq(s, 1, n)

Record ==
  /\ Len(recorded') > Len(recorded)
  /\ Prefix(recorded', Len(recorded)) = recorded
  /\ UNCHANGED <<offered, delivered, broken>>

Offer ==
  /\ offered' \in offered + 1 .. Len(recorded)
  /\ UNCHANGED <<recorded, delivered, broken>>

Deliver ==
  /\ delivered' \in delivered + 1 .. offered
  /\ UNCHANGED <<recorded, offered, broken>>

GiveUp ==
  /\ \E n \in offered .. Len(recorded) : recorded' = Prefix(recorded, n)
  /\ UNCHANGED <<offered, delivered, broken>>

Break == broken' = TRUE

Next == Record \/ Offer \/ Deliver \/ GiveUp \/ Break

Spec == Init /\ [][Next]_vars
=============================================================================
