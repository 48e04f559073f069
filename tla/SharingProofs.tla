---------------------------- MODULE SharingProofs ----------------------------
(***************************************************************************)
(* Theorems about module Sharing, for any family of sessions, any hosts and *)
(* any number of choices and of faults: what was sent is remembered, and a  *)
(* session that the web shows although it is not shared owes the web a row. *)
(*                                                                         *)
(* OffIsOwed is not inductive: a debt is settled by an answer, so the       *)
(* invariant also speaks of the request on its way (Shows, AnswerInv), of   *)
(* the records that an answer settles (SentInv), and of the default that    *)
(* the records follow while it differs from the one in force (applied).     *)
(*                                                                         *)
(* Neither is OnIsAnnounced: a request that says "unshared" may be shown     *)
(* only after its session was shared again (Again, Announces).              *)
(***************************************************************************)
EXTENDS Sharing, TLAPS

\* A root's record says what is shared of it and of its children.
On(r, default) ==
  IF Has(r)
    THEN r.web \/ (r.explicit /\ r.shared) \/ (~r.explicit /\ default = "all")
    ELSE default = "all"

\* The session of r was ended on the web, or fenced by a change of host.
Ended(r) == Has(r) /\ r.terminal

\* The records of children hold no choice of their own, and a root outlives them.
FamilyInv ==
  /\ \A s \in Sessions \ {Root} : Has(record[s]) => ~record[s].explicit /\ ~record[s].web
  /\ alive # {} => Root \in alive

\* A connection is one of this login, whose records follow the default.
ConnectionInv ==
  /\ connected => configured /\ host \in Hosts
  /\ configured => applied = share
  /\ flight # NoFlight /\ flight.live => connected

\* Nothing that was given up may still overtake what is known about s.
InOrder(s) == s \notin overtaken /\ \A shared \in BOOLEAN : <<s, shared>> \notin late

\* The web shows s as shared, or is about to.
Shows(s) ==
  \/ web[s] = "shared"
  \/ flight # NoFlight /\ flight.session = s /\ flight.shared /\ flight.reply = "none"

\* An answer that nothing can overtake is what the web shows.
AnswerInv ==
  flight # NoFlight =>
    /\ flight.reply = "deleted" => web[flight.session] = "deleted"
    /\ flight.reply = "ok" /\ ~flight.shared /\ InOrder(flight.session) =>
         web[flight.session] \in {"unshared", "deleted"}

\* Something was sent about s.
Sent(s) == web[s] # "none" \/ Travels(s)

\* What was sent about a session is remembered in its record.
SentInv == \A s \in alive : Sent(s) => Has(record[s]) /\ Attempted(record[s])

\* The choices share s under a default, logged in or not.
ChosenUnder(s, default) == s \in alive /\ SharedUnder(record, s, TRUE, default)

\* What is forgotten is not shared under any default.
ForgottenInv == \A s \in forgotten : ~ChosenUnder(s, "all")

\* The record owes the web a row with shared: false.
Owes(s) == Has(record[s]) /\ Attempted(record[s]) /\ record[s].unsharedPending

\* If the choices do not share s, the record owes the web a row.
Cleared(s) == ~Ended(record[s]) /\ (~ChosenUnder(s, applied) => Owes(s))

\* What the web shows, or is about to show, is shared or owed.
OwedInv == \A s \in Sessions \ forgotten : InOrder(s) /\ Shows(s) => Cleared(s)

\* The inductive invariant.
IInv == /\ TypeOK /\ FamilyInv /\ ConnectionInv /\ AnswerInv /\ SentInv
        /\ ForgottenInv /\ OwedInv


(* Records *)

\* No stored record is the absent one.
LEMMA Absent == NoRecord \notin RecordType /\ NoFlight \notin FlightType
BY DEF NoRecord, RecordType, NoFlight, FlightType

\* A record as it is before anything is stored.
LEMMA EmptyType ==
  ASSUME NEW d \in Defaults
  PROVE  Empty(d) \in RecordType
BY DEF Empty, RecordType

\* What is stored is a record, and a missing one counts as an empty one.
LEMMA HasType ==
  ASSUME TypeOK, NEW s \in Sessions
  PROVE  /\ Has(record[s]) => record[s] \in RecordType
         /\ RecordOf(record, s) \in RecordType
BY EmptyType DEF TypeOK, Has, RecordOf

\* What is kept of a record when its flags change.
SameChoice(a, b) ==
  /\ b \in RecordType
  /\ b.explicit = a.explicit /\ b.web = a.web /\ b.shared = a.shared
  /\ b.terminal = a.terminal

\* Withdrawing changes no choice and makes what was attempted a debt.
LEMMA WithdrawnKeeps ==
  ASSUME NEW r \in RecordType
  PROVE  /\ SameChoice(r, Withdrawn(r)) /\ Withdrawn(r).host = r.host
         /\ Attempted(r) /\ ~r.terminal => Withdrawn(r).unsharedPending
         /\ Withdrawn(r).backfilled => r.backfilled
BY DEF Withdrawn, SameChoice, RecordType, Attempted

\* Offering changes no choice and adds no debt.
LEMMA OfferedKeeps ==
  ASSUME NEW r \in RecordType
  PROVE  /\ SameChoice(r, Offered(r)) /\ Offered(r).host = r.host
         /\ Offered(r).backfilled = r.backfilled
         /\ Offered(r).unsharedPending => r.unsharedPending
BY Absent DEF Offered, SameChoice, RecordType, Has

\* Ending changes no choice and no host.
LEMMA TerminatedKeeps ==
  ASSUME NEW r \in RecordType
  PROVE  /\ Terminated(r) \in RecordType
         /\ Terminated(r).host = r.host /\ Terminated(r).terminal
         /\ Terminated(r).explicit = r.explicit /\ Terminated(r).web = r.web
         /\ Terminated(r).shared = r.shared
BY DEF Terminated, RecordType

\* What deletion keeps of a record is a debt; what was never attempted goes.
LEMMA RemovedKeeps ==
  ASSUME NEW r, NEW told \in BOOLEAN, Has(r) => r \in RecordType
  PROVE  /\ Has(Removed(r, told)) =>
              /\ Has(r) /\ Attempted(r) /\ ~r.terminal /\ ~told
              /\ Removed(r, told) \in RecordType
              /\ Removed(r, told).host = r.host
              /\ ~Removed(r, told).terminal /\ Removed(r, told).unsharedPending
              /\ Removed(r, told).explicit = r.explicit /\ Removed(r, told).web = r.web
         /\ Has(r) /\ Attempted(r) /\ ~r.terminal /\ ~told => Has(Removed(r, told))
<1>1. CASE Has(r) /\ Attempted(r) /\ ~r.terminal /\ ~told
  <2>1. Removed(r, told) = [r EXCEPT !.shared = FALSE, !.unsharedPending = TRUE,
                              !.sharedPending = FALSE]
    BY <1>1 DEF Removed
  <2>2. Removed(r, told) \in RecordType
    BY <1>1, <2>1 DEF RecordType
  <2> QED BY <1>1, <2>1, <2>2, Absent DEF RecordType, Has, Attempted
<1>2. CASE ~(Has(r) /\ Attempted(r) /\ ~r.terminal /\ ~told)
  BY <1>2 DEF Removed, Has
<1> QED BY <1>1, <1>2

\* After the intent to upload the record says that it was attempted.
LEMMA IntendedKeeps ==
  ASSUME NEW r \in RecordType, host \in Hosts, SharingAssumption
  PROVE  /\ SameChoice(r, Intended(r)) /\ Attempted(Intended(r))
         /\ Intended(r).unsharedPending = r.unsharedPending
         /\ Intended(r).sharedPending = r.sharedPending
         /\ Intended(r).backfilled = r.backfilled
BY DEF Intended, SameChoice, RecordType, Attempted, SharingAssumption

\* What an acknowledgement leaves of a record.
LEMMA SettledKeeps ==
  ASSUME NEW r \in RecordType, host \in Hosts \cup {Nobody}, SharingAssumption, NEW s,
         flight \in FlightType, IsShared(s) \in BOOLEAN
  PROVE  /\ SameChoice(r, Settled(r, s))
         /\ host \in Hosts => Attempted(Settled(r, s))
         /\ Settled(r, s).backfilled = r.backfilled
         /\ Settled(r, s).unsharedPending =
              (r.unsharedPending /\ (flight.shared \/ IsShared(s)))
         /\ Settled(r, s).sharedPending =
              (r.sharedPending /\ ~(flight.shared /\ IsShared(s)))
<1> DEFINE u == r.unsharedPending /\ (flight.shared \/ IsShared(s))
           v == r.sharedPending /\ ~(flight.shared /\ IsShared(s))
<1>1. u \in BOOLEAN /\ v \in BOOLEAN
  BY ZenonT(20) DEF RecordType
<1>2. Settled(r, s) = [r EXCEPT !.host = host, !.indexedHost = host,
                          !.unsharedPending = u, !.sharedPending = v]
  BY DEF Settled
<1> HIDE DEF u, v
<1>3. /\ Settled(r, s) \in RecordType
      /\ Settled(r, s).explicit = r.explicit /\ Settled(r, s).web = r.web
      /\ Settled(r, s).shared = r.shared /\ Settled(r, s).terminal = r.terminal
      /\ Settled(r, s).backfilled = r.backfilled /\ Settled(r, s).host = host
      /\ Settled(r, s).unsharedPending = u /\ Settled(r, s).sharedPending = v
  BY <1>1, <1>2 DEF RecordType
<1>4. host \in Hosts => Attempted(Settled(r, s))
  BY <1>3 DEF Attempted, SharingAssumption
<1> QED BY <1>3, <1>4 DEF SameChoice, u, v

\* Whom a session is shared with is read off its root's record.
LEMMA Decision ==
  ASSUME NEW rs, NEW s \in Sessions, NEW default,
         s # Root => (Has(rs[s]) => ~rs[s].explicit /\ ~rs[s].web)
  PROVE  SharedUnder(rs, s, TRUE, default) <=>
           ~Ended(rs[s]) /\ ~Ended(rs[Root]) /\ On(rs[Root], default)
BY DEF SharedUnder, Deciding, Ended, On
\* A default that shares less shares nothing more.
LEMMA Monotone ==
  ASSUME NEW rs, NEW s \in Sessions, NEW default \in Defaults,
         SharedUnder(rs, s, TRUE, default)
  PROVE  SharedUnder(rs, s, TRUE, "all")
BY DEF SharedUnder, Deciding

\* Being shared, and being chosen, in one vocabulary.
LEMMA SharedNowIs ==
  ASSUME NEW s
  PROVE  /\ IsShared(s) \in BOOLEAN
         /\ IsShared(s) <=> configured /\ s \in alive /\ SharedUnder(record, s, TRUE, share)
         /\ Chosen(s) <=> ChosenUnder(s, share)
BY DEF IsShared, SharedUnder, Chosen, ChosenUnder

\* The root's record after a choice.
LEMMA ChoiceIs ==
  ASSUME TypeOK, SharingAssumption, NEW s \in Sessions, NEW on \in BOOLEAN
  PROVE  LET p == Deciding(record, s)
             c == Choice(s, on)
         IN /\ Has(p) => p \in RecordType
            /\ c \in RecordType /\ c.shared = on /\ c.explicit
            /\ c.web = (Has(p) /\ p.web) /\ c.terminal = (Has(p) /\ p.terminal)
            /\ Has(p) => c.host = p.host
            /\ c.backfilled = (Has(p) /\ p.backfilled)
            /\ on => ~c.unsharedPending
            /\ Has(p) => c.sharedPending = p.sharedPending
            /\ ~on /\ Has(p) /\ p.unsharedPending => c.unsharedPending
            /\ ~on /\ Has(p) /\ p.shared /\ p.backfilled => c.unsharedPending
            /\ ~on /\ SharedUnder(record, s, configured, share) => c.unsharedPending
<1> DEFINE p == Deciding(record, s)
           r == IF Has(p) THEN p ELSE Empty(share)
           owes == \/ r.unsharedPending
                   \/ Has(p) /\ r.shared /\ r.backfilled
                   \/ SharedUnder(record, s, configured, share)
           c == Choice(s, on)
<1>1. c = [r EXCEPT !.shared = on, !.explicit = TRUE, !.unsharedPending = ~on /\ owes]
  BY DEF Choice
<1>2. Has(p) => p \in RecordType
  BY DEF TypeOK, Deciding, Has, SharingAssumption
<1>3. share \in Defaults
  BY DEF TypeOK
<1>4. Empty(share) \in RecordType
  BY <1>3, EmptyType
<1>5. r \in RecordType
  BY <1>2, <1>4
<1>6. ~Has(p) => ~r.web /\ ~r.terminal /\ ~r.backfilled
  BY DEF Empty
<1>7. c.unsharedPending = (~on /\ owes)
  <2>1. "unsharedPending" \in DOMAIN r
    BY <1>5 DEF RecordType
  <2> QED BY <1>1, <2>1
<1>8. /\ c \in RecordType /\ c.shared = on /\ c.explicit
      /\ c.web = r.web /\ c.terminal = r.terminal /\ c.host = r.host
      /\ c.backfilled = r.backfilled /\ c.sharedPending = r.sharedPending
  <2> HIDE DEF r
  <2>1. (~on /\ owes) \in BOOLEAN
    OBVIOUS
  <2> HIDE DEF owes, c
  <2> QED BY <1>1, <1>5, <2>1 DEF RecordType
<1> HIDE DEF c
<1>9. on => ~c.unsharedPending
  BY <1>7
<1>10. /\ ~on /\ Has(p) /\ p.unsharedPending => c.unsharedPending
       /\ ~on /\ Has(p) /\ p.shared /\ p.backfilled => c.unsharedPending
       /\ ~on /\ SharedUnder(record, s, configured, share) => c.unsharedPending
  BY <1>7
<1>11. /\ r.web \in BOOLEAN /\ r.terminal \in BOOLEAN /\ r.backfilled \in BOOLEAN
  <2> HIDE DEF r
  <2> QED BY <1>5 DEF RecordType
<1>12. /\ c.web = (Has(p) /\ p.web) /\ c.terminal = (Has(p) /\ p.terminal)
       /\ c.backfilled = (Has(p) /\ p.backfilled)
  <2>1. CASE Has(p)
    BY <2>1, <1>8, <1>11
  <2>2. CASE ~Has(p)
    BY <2>2, <1>8, <1>6, <1>11
  <2> QED BY <2>1, <2>2
<1> QED BY <1>2, <1>8, <1>9, <1>10, <1>12 DEF c

\* A record that is offered again, or none.
LEMMA OfferedRecord ==
  ASSUME NEW r \in RecordType \cup {NoRecord}
  PROVE  Offered(r) \in RecordType \cup {NoRecord} /\ (Has(Offered(r)) <=> Has(r))
BY OfferedKeeps, Absent DEF Offered, Has, SameChoice

\* A record is stored or absent.
LEMMA RecordIs ==
  ASSUME TypeOK, NEW s \in Sessions
  PROVE  /\ record[s] \in RecordType \cup {NoRecord}
         /\ Has(record[s]) <=> record[s] \in RecordType
BY Absent DEF TypeOK, Has

\* Marking makes a record one of the web and keeps what was sent and recorded.
LEMMA MarkedKeeps ==
  ASSUME NEW r \in RecordType \cup {NoRecord}
  PROVE  /\ Marked(r) \in RecordType /\ Marked(r).web
         /\ Marked(r).terminal = (Has(r) /\ r.terminal)
         /\ Has(r) => Marked(r).host = r.host
<1> DEFINE b == IF Has(r) THEN r ELSE Empty("all")
<1>1. b \in RecordType
  BY EmptyType DEF Has, Defaults
<1>2. b.terminal = (Has(r) /\ r.terminal)
  <2>1. CASE Has(r)
    BY <1>1, <2>1 DEF RecordType
  <2>2. CASE ~Has(r)
    BY <2>2 DEF Empty
  <2> QED BY <2>1, <2>2
<1>3. Has(r) => b = r
  OBVIOUS
<1>4. Marked(r) = [b EXCEPT !.web = TRUE, !.shared = TRUE, !.unsharedPending = FALSE]
  BY DEF Marked
<1> HIDE DEF b
<1>5. Marked(r) \in RecordType /\ Marked(r).web /\ Marked(r).terminal = b.terminal /\ Marked(r).host = b.host
  BY <1>1, <1>4 DEF RecordType
<1> QED BY <1>2, <1>3, <1>5

-----------------------------------------------------------------------------
(* Types *)

\* Everything of TypeOK but the records.
OtherTypes ==
  /\ share \in Defaults /\ applied \in Defaults
  /\ alive \subseteq Sessions
  /\ configured \in BOOLEAN /\ stopped \in BOOLEAN /\ connected \in BOOLEAN
  /\ host \in Hosts \cup {Nobody}
  /\ indexed \subseteq Sessions /\ blocked \subseteq Sessions
  /\ waiting \subseteq Sessions
  /\ flight \in FlightType \cup {NoFlight}
  /\ late \subseteq Sessions \X BOOLEAN
  /\ web \in [Sessions -> {"none", "shared", "unshared", "deleted"}]
  /\ choices \in 0..MaxChoices /\ faults \in 0..MaxFaults
  /\ kept \subseteq Sessions /\ forgotten \subseteq Sessions
  /\ overtaken \subseteq Sessions

\* The records of all sessions.
Records == [Sessions -> RecordType \cup {NoRecord}]

\* TypeOK, divided into the records and the rest.
LEMMA TypeParts == TypeOK <=> record \in Records /\ OtherTypes
BY DEF TypeOK, OtherTypes, Records

\* The same after a step.
LEMMA TypePartsNext == TypeOK' <=> record' \in Records /\ OtherTypes'
BY DEF TypeOK, OtherTypes, Records, RecordType, FlightType, Defaults

\* Only sessions are forgotten.
LEMMA StillForgottenType ==
  ASSUME TypeOK, NEW lost, lost \subseteq Sessions
  PROVE  StillForgotten(lost) \subseteq Sessions
BY DEF StillForgotten, TypeOK

\* Turning off leaves records.
LEMMA TurnOffRecords ==
  ASSUME TypeOK, SharingAssumption, NEW s \in Sessions, NEW done \in SUBSET Sessions, TurnOff(s, done)
  PROVE  record' \in Records
<1> DEFINE chosen == [record EXCEPT ![Root] = Choice(s, FALSE)]
<1>1. record' = [c \in Sessions |-> IF c \in done THEN Withdrawn(RecordOf(chosen, c)) ELSE chosen[c]]
  BY DEF TurnOff
<1>2. Choice(s, FALSE) \in RecordType
  BY ChoiceIs
<1>3. chosen \in Records
  BY <1>2 DEF TypeOK, Records
<1>4. \A c \in Sessions : RecordOf(chosen, c) \in RecordType
  <2>1. share \in Defaults
    BY DEF TypeOK
  <2> HIDE DEF chosen
  <2> QED BY <1>3, <2>1, EmptyType DEF RecordOf, Has, Records
<1>5. \A c \in Sessions : Withdrawn(RecordOf(chosen, c)) \in RecordType
  BY <1>4, WithdrawnKeeps DEF SameChoice
<1> HIDE DEF chosen
<1> QED BY <1>1, <1>3, <1>5 DEF Records

\* Following another default leaves records.
LEMMA ReconciledRecords ==
  ASSUME TypeOK, SharingAssumption, NEW from \in Defaults, NEW to \in Defaults
  PROVE  Reconciled(from, to) \in Records
<1> SUFFICES ASSUME NEW c \in Sessions
             PROVE  Reconciled(from, to)[c] \in RecordType \cup {NoRecord}
  BY DEF Reconciled, Records
<1> DEFINE r == IF Has(record[c]) THEN record[c] ELSE Empty(to)
<1>1. record[c] \in RecordType \cup {NoRecord} /\ Offered(record[c]) \in RecordType \cup {NoRecord}
  BY RecordIs, OfferedRecord
<1>2. Withdrawn(r) \in RecordType
  <2>1. r \in RecordType
    BY RecordIs, EmptyType
  <2> QED BY <2>1, WithdrawnKeeps DEF SameChoice
<1>3. Reconciled(from, to)[c] \in {record[c], Withdrawn(r), Offered(record[c])}
  BY DEF Reconciled
<1> QED BY <1>1, <1>2, <1>3

\* Removing what is local leaves records and sets of sessions.
LEMMA RemoveLocalTypes ==
  ASSUME TypeOK, NEW gone \in SUBSET Sessions, NEW told \in BOOLEAN, RemoveLocal(gone, told)
  PROVE  /\ record' \in Records
         /\ waiting' \subseteq Sessions /\ kept' \subseteq Sessions
         /\ indexed' \subseteq Sessions /\ blocked' \subseteq Sessions
<1>1. \A c \in Sessions : Removed(record[c], told) \in RecordType \cup {NoRecord}
  BY RecordIs, RemovedKeeps DEF Has
<1>2. record' \in Records
  <2>1. record' = [c \in Sessions |-> IF c \in gone THEN Removed(record[c], told) ELSE record[c]]
    BY DEF RemoveLocal
  <2> QED BY <1>1, <2>1 DEF TypeOK, Records
<1> QED BY <1>2 DEF RemoveLocal, TypeOK

\* Choices and faults are counted up to their bounds.
LEMMA CountTypes ==
  ASSUME TypeOK, SharingAssumption
  PROVE  /\ Choose => choices' \in 0..MaxChoices
         /\ Fault => faults' \in 0..MaxFaults /\ choices' \in 0..MaxChoices
BY DEF TypeOK, SharingAssumption, Choose, Fault

\* Sharing leaves everything typed.
LEMMA ShareOnTypes ==
  ASSUME TypeOK, SharingAssumption, NEW s \in Sessions, ShareOn(s)
  PROVE  TypeOK'
<1> DEFINE chosen == [record EXCEPT ![Root] = Choice(s, TRUE)]
<1>1. chosen \in Records
  BY ChoiceIs DEF TypeOK, Records
<1>2. record' = [c \in Sessions |-> IF c \in alive THEN Offered(chosen[c]) ELSE chosen[c]]
  BY DEF ShareOn
<1>3. record' \in Records
  <2> HIDE DEF chosen
  <2> QED BY <1>1, <1>2, OfferedRecord DEF Records
<1>4. OtherTypes'
  BY StillForgottenType DEF TypeOK, ShareOn, Choose, OtherTypes, memory, outside
<1> QED BY <1>3, <1>4, TypePartsNext

\* Unsharing leaves everything typed.
LEMMA ShareOffTypes ==
  ASSUME TypeOK, SharingAssumption, NEW s \in Sessions, ShareOff(s)
  PROVE  TypeOK'
<1>1. TurnOff(s, SharedNow) /\ SharedNow \in SUBSET Sessions
  BY DEF ShareOff, SharedNow
<1>2. record' \in Records
  BY <1>1, TurnOffRecords
<1>3. forgotten' \subseteq Sessions
  BY StillForgottenType DEF ShareOff, Unnoticed
<1>4. /\ waiting' \subseteq waiting /\ kept' \subseteq kept
      /\ UNCHANGED <<share, applied, alive, late, web, overtaken>>
  BY <1>1 DEF TurnOff, outside
<1>5. OtherTypes'
  BY <1>3, <1>4 DEF TypeOK, ShareOff, Choose, OtherTypes
<1> QED BY <1>2, <1>5, TypePartsNext

\* Following another default leaves everything typed.
LEMMA ReconcileTypes ==
  ASSUME TypeOK, SharingAssumption, NEW from \in Defaults, NEW to \in Defaults, Reconcile(from, to)
  PROVE  /\ record' \in Records /\ applied' \in Defaults
         /\ waiting' \subseteq Sessions /\ kept' \subseteq Sessions /\ blocked' \subseteq Sessions
<1>1. record' \in Records
  BY ReconciledRecords DEF Reconcile
<1> QED BY <1>1 DEF TypeOK, Reconcile, Forget

\* A new default leaves everything typed.
LEMMA ShareDefaultTypes ==
  ASSUME TypeOK, SharingAssumption, NEW default \in Defaults, ShareDefault(default)
  PROVE  TypeOK'
<1>1. share \in Defaults /\ Reconcile(share, default)
  BY DEF TypeOK, ShareDefault
<1>2. /\ record' \in Records /\ applied' \in Defaults
      /\ waiting' \subseteq Sessions /\ kept' \subseteq Sessions /\ blocked' \subseteq Sessions
  BY <1>1, ReconcileTypes
<1>3. OtherTypes'
  BY <1>2, StillForgottenType DEF TypeOK, ShareDefault, Choose, OtherTypes, outside
<1> QED BY <1>2, <1>3, TypePartsNext

\* A session created on the web leaves everything typed.
LEMMA MarkWebCreatedTypes ==
  ASSUME TypeOK, SharingAssumption, MarkWebCreated
  PROVE  TypeOK'
<1>1. Root \in Sessions /\ record' = [record EXCEPT ![Root] = Marked(record[Root])]
  BY DEF MarkWebCreated, SharingAssumption
<1>2. Marked(record[Root]) \in RecordType
  BY <1>1, RecordIs, MarkedKeeps
<1>3. record' \in Records
  BY <1>1, <1>2 DEF TypeOK, Records
<1>4. OtherTypes'
  BY StillForgottenType DEF TypeOK, MarkWebCreated, Choose, OtherTypes, memory, outside
<1> QED BY <1>3, <1>4, TypePartsNext

\* A first share leaves everything typed.
LEMMA BackfillTypes ==
  ASSUME TypeOK, SharingAssumption, NEW s \in Sessions, Backfill(s)
  PROVE  TypeOK'
<1>1. RecordOf(record, s) \in RecordType
  BY HasType
<1>2. [RecordOf(record, s) EXCEPT !.backfilled = TRUE] \in RecordType
  BY <1>1 DEF RecordType
<1>3. record' \in Records
  BY <1>2 DEF TypeOK, Records, Backfill
<1>4. OtherTypes'
  BY DEF TypeOK, Backfill, OtherTypes, memory, outside, counts
<1> QED BY <1>3, <1>4, TypePartsNext

\* A deletion leaves everything typed.
LEMMA DeleteTypes ==
  ASSUME TypeOK, SharingAssumption, NEW s \in Sessions, Delete(s)
  PROVE  TypeOK'
<1>1. RemoveLocal(Family(s) \cap alive, FALSE) /\ Family(s) \cap alive \in SUBSET Sessions
  BY DEF Delete, TypeOK
<1>2. /\ record' \in Records
      /\ waiting' \subseteq Sessions /\ kept' \subseteq Sessions
      /\ indexed' \subseteq Sessions /\ blocked' \subseteq Sessions
  BY <1>1, RemoveLocalTypes
<1>3. OtherTypes'
  BY <1>2 DEF TypeOK, Delete, Choose, OtherTypes, outside
<1> QED BY <1>2, <1>3, TypePartsNext

\* The flight of a connection that is gone.
LEMMA StaleType ==
  ASSUME TypeOK
  PROVE  /\ Stale(flight) \in FlightType \cup {NoFlight}
         /\ Stale(flight) # NoFlight => ~Stale(flight).live
         /\ flight = NoFlight => Stale(flight) = NoFlight
         /\ flight # NoFlight =>
              /\ Stale(flight) # NoFlight
              /\ Stale(flight).session = flight.session
              /\ Stale(flight).shared = flight.shared
              /\ Stale(flight).reply = flight.reply
<1>1. CASE flight = NoFlight
  BY <1>1 DEF Stale
<1>2. CASE flight # NoFlight
  <2>1. flight \in FlightType /\ Stale(flight) = [flight EXCEPT !.live = FALSE]
    BY <1>2 DEF TypeOK, Stale
  <2>2. Stale(flight) \in FlightType
    BY <2>1 DEF FlightType
  <2> QED BY <1>2, <2>1, <2>2, Absent DEF FlightType
<1> QED BY <1>1, <1>2

\* A connection leaves everything typed.
LEMMA ConnectTypes ==
  ASSUME TypeOK, SharingAssumption, NEW h \in Hosts, Connect(h)
  PROVE  TypeOK'
<1>1. Fenced(h) \subseteq Sessions
  BY DEF Fenced
<1>2. \A s \in Fenced(h) : Terminated(record[s]) \in RecordType
  BY <1>1, HasType, TerminatedKeeps DEF Fenced
<1>3. record' = [s \in Sessions |-> IF s \in Fenced(h) THEN Terminated(record[s]) ELSE record[s]]
  BY DEF Connect
<1>4. record' \in Records
  BY <1>1, <1>2, <1>3 DEF TypeOK, Records
<1>5. forgotten' \subseteq Sessions
  <2>1. Orphaned(Fenced(h)) \subseteq Sessions
    BY DEF Orphaned
  <2> QED BY <1>1, <2>1, StillForgottenType DEF Connect
<1>6. OtherTypes'
  BY <1>5 DEF TypeOK, Connect, OtherTypes, outside, counts
<1> QED BY <1>4, <1>6, TypePartsNext

\* What the scheduler finds of a session.
LEMMA FoundType ==
  ASSUME TypeOK, NEW s \in Sessions, Has(Found(s))
  PROVE  /\ Found(s) \in RecordType
         /\ s \notin alive => /\ Has(record[s]) /\ Attempted(record[s])
                              /\ Attempted(Found(s)) /\ Found(s).unsharedPending
                              /\ ~Found(s).terminal
<1>1. CASE s \in alive
  BY <1>1, HasType DEF Found
<1>2. CASE s \notin alive
  BY <1>2, HasType, RemovedKeeps DEF Found, Attempted
<1> QED BY <1>1, <1>2

\* A publication leaves everything typed.
LEMMA PublishTypes ==
  ASSUME TypeOK, SharingAssumption, NEW s \in Sessions, Publish(s)
  PROVE  TypeOK'
<1>1. Found(s) \in RecordType
  BY FoundType DEF Publish
<1>2. Intended(Found(s)) \in RecordType
  BY <1>1 DEF Intended, RecordType, TypeOK
<1>3. record' \in Records
  BY <1>2 DEF TypeOK, Records, Publish
<1>4. IsShared(s) \in BOOLEAN /\ (IsShared(s) /\ s \in waiting) \in BOOLEAN
  BY SharedNowIs
<1>5. flight' \in FlightType
  BY <1>4 DEF Publish, FlightType
<1>6. OtherTypes'
  BY <1>5 DEF TypeOK, Publish, OtherTypes, outside, counts
<1> QED BY <1>3, <1>6, TypePartsNext

\* The discovery of a deletion leaves everything typed.
LEMMA DiscoverTypes ==
  ASSUME TypeOK, SharingAssumption, NEW s \in Sessions, Discover(s)
  PROVE  TypeOK'
<1>1. /\ record' \in Records
      /\ waiting' \subseteq Sessions /\ kept' \subseteq Sessions
      /\ indexed' \subseteq Sessions /\ blocked' \subseteq Sessions
  BY RemoveLocalTypes DEF Discover
<1>2. OtherTypes'
  BY <1>1 DEF TypeOK, Discover, OtherTypes, outside, counts
<1> QED BY <1>1, <1>2, TypePartsNext

\* The awaited publication.
LEMMA FlightIs ==
  ASSUME TypeOK, flight # NoFlight
  PROVE  /\ flight \in FlightType
         /\ flight.session \in Sessions /\ flight.shared \in BOOLEAN
         /\ <<flight.session, flight.shared>> \in Sessions \X BOOLEAN
BY DEF TypeOK, FlightType

\* What the platform shows after a request of s.
LEMMA ShowIs ==
  ASSUME TypeOK, NEW s \in Sessions, NEW shared \in BOOLEAN, Show(s, shared)
  PROVE  /\ web' \in [Sessions -> {"none", "shared", "unshared", "deleted"}]
         /\ \A c \in Sessions \ {s} : web'[c] = web[c]
         /\ web[s] = "deleted" => web'[s] = "deleted"
         /\ web[s] # "deleted" => web'[s] = IF shared THEN "shared" ELSE "unshared"
BY DEF Show, TypeOK

\* An arrival leaves everything typed.
LEMMA ArriveTypes ==
  ASSUME TypeOK, SharingAssumption, Arrive
  PROVE  TypeOK'
<1>1. web' \in [Sessions -> {"none", "shared", "unshared", "deleted"}]
  BY FlightIs, ShowIs DEF Arrive
<1>2. flight' \in FlightType
  BY FlightIs DEF Arrive, FlightType
<1>3. OtherTypes'
  BY <1>1, <1>2 DEF TypeOK, Arrive, OtherTypes, durable, counts
<1>4. record' \in Records
  BY DEF TypeOK, Arrive, durable, Records
<1> QED BY <1>3, <1>4, TypePartsNext

\* An acknowledgement leaves everything typed.
LEMMA AcknowledgeTypes ==
  ASSUME TypeOK, SharingAssumption, Acknowledge
  PROVE  TypeOK'
<1> DEFINE s == flight.session
<1>1. flight # NoFlight /\ s \in Sessions /\ flight.shared \in BOOLEAN
  BY FlightIs DEF Acknowledge
<1>2. CASE s \in alive
  <2>1. RecordOf(record, s) \in RecordType
    BY <1>1, HasType
  <2>2. Settled(RecordOf(record, s), s) \in RecordType
    <3>1. IsShared(s) \in BOOLEAN /\ host \in Hosts \cup {Nobody} /\ flight \in FlightType
      BY <1>1, SharedNowIs DEF TypeOK
    <3> QED BY <2>1, <3>1, SettledKeeps DEF SameChoice
  <2>3. record' = [record EXCEPT ![s] = Settled(RecordOf(record, s), s)]
    BY <1>2 DEF Acknowledge
  <2>4. record' \in Records
    BY <1>1, <2>2, <2>3 DEF TypeOK, Records
  <2>5. /\ waiting' \subseteq waiting /\ indexed' = indexed \cup {s}
        /\ UNCHANGED <<kept, blocked>>
    BY <1>2 DEF Acknowledge
  <2>6. OtherTypes'
    BY <1>1, <2>5 DEF TypeOK, Acknowledge, OtherTypes, outside, counts
  <2> QED BY <2>4, <2>6, TypePartsNext
<1>3. CASE s \notin alive
  <2>1. RemoveLocal({s}, ~flight.shared)
    BY <1>3 DEF Acknowledge
  <2>2. /\ record' \in Records
        /\ waiting' \subseteq Sessions /\ kept' \subseteq Sessions
        /\ indexed' \subseteq Sessions /\ blocked' \subseteq Sessions
    BY <1>1, <2>1, RemoveLocalTypes
  <2>3. OtherTypes'
    BY <1>1, <2>2 DEF TypeOK, Acknowledge, OtherTypes, outside, counts
  <2> QED BY <2>2, <2>3, TypePartsNext
<1> QED BY <1>2, <1>3

\* The web's deletion leaves everything typed.
LEMMA TerminateTypes ==
  ASSUME TypeOK, SharingAssumption, Terminate
  PROVE  TypeOK'
<1> DEFINE s == flight.session
<1>1. s \in Sessions
  BY FlightIs DEF Terminate
<1>2. Terminated(RecordOf(record, s)) \in RecordType
  BY <1>1, HasType, TerminatedKeeps
<1>3. record' \in Records
  BY <1>1, <1>2 DEF TypeOK, Records, Terminate
<1>4. forgotten' \subseteq Sessions
  <2>1. Orphaned({s}) \subseteq Sessions
    BY DEF Orphaned
  <2> QED BY <2>1, StillForgottenType DEF Terminate
<1>5. OtherTypes'
  BY <1>4 DEF TypeOK, Terminate, OtherTypes, outside, counts
<1> QED BY <1>3, <1>5, TypePartsNext

\* The steps that leave the records alone.
LEMMA QuietTypes ==
  ASSUME TypeOK, SharingAssumption, UNCHANGED record,
         \/ \E s \in Sessions : Change(s) \/ DeleteOnWeb(s) \/ CrashInBackfill(s) \/ CrashInDelete(s)
         \/ Logout \/ Drop \/ Stop \/ Ignore \/ TimeOut \/ Refuse \/ Crash
         \/ \E request \in late : ArriveLate(request)
  PROVE  TypeOK'
<1>1. SUFFICES OtherTypes'
  BY TypePartsNext DEF TypeOK, Records
<1>2. flight # NoFlight => <<flight.session, flight.shared>> \in Sessions \X BOOLEAN /\ flight.session \in Sessions
  BY FlightIs
<1>3. ASSUME NEW s \in Sessions, Change(s)
      PROVE  OtherTypes'
  BY <1>3 DEF TypeOK, OtherTypes, Change, memory, outside, counts
<1>4. ASSUME NEW s \in Sessions, DeleteOnWeb(s)
      PROVE  OtherTypes'
  BY <1>4, CountTypes DEF TypeOK, OtherTypes, DeleteOnWeb, durable, memory
<1>5. ASSUME NEW s \in Sessions, CrashInBackfill(s)
      PROVE  OtherTypes'
  BY <1>5, CountTypes DEF TypeOK, OtherTypes, CrashInBackfill, Restart, outside
<1>6. ASSUME NEW s \in Sessions, CrashInDelete(s)
      PROVE  OtherTypes'
  <2>1. forgotten' \subseteq Sessions
    BY <1>6 DEF CrashInDelete, StillForgotten, Family, TypeOK
  <2> QED BY <1>6, <2>1, CountTypes DEF TypeOK, OtherTypes, CrashInDelete, Restart, outside
<1>7. CASE Logout
  BY <1>7, StaleType, CountTypes DEF TypeOK, OtherTypes, Logout, Disconnect, durable, outside
<1>8. CASE Drop \/ Stop
  BY <1>8, StaleType, CountTypes DEF TypeOK, OtherTypes, Drop, Stop, Disconnect, durable, outside
<1>9. CASE Ignore
  BY <1>9, <1>2 DEF TypeOK, OtherTypes, Ignore, durable, counts
<1>10. CASE TimeOut
  BY <1>10, <1>2, CountTypes DEF TypeOK, OtherTypes, TimeOut, durable
<1>11. CASE Refuse
  BY <1>11, <1>2, CountTypes DEF TypeOK, OtherTypes, Refuse, durable, outside
<1>12. CASE Crash
  <2>1. forgotten' \subseteq Sessions
    BY <1>12, StillForgottenType DEF Crash
  <2> QED BY <1>12, <1>2, <2>1, CountTypes DEF TypeOK, OtherTypes, Crash, Restart
<1>13. ASSUME NEW request \in late, ArriveLate(request)
       PROVE  OtherTypes'
  <2>1. request[1] \in Sessions /\ request[2] \in BOOLEAN
    BY DEF TypeOK
  <2>2. web' \in [Sessions -> {"none", "shared", "unshared", "deleted"}]
    BY <1>13, <2>1, ShowIs DEF ArriveLate
  <2> QED BY <1>13, <2>1, <2>2 DEF TypeOK, OtherTypes, ArriveLate, durable, memory, counts
<1> QED
  <2>1. ASSUME NEW s \in Sessions, Change(s) \/ DeleteOnWeb(s) \/ CrashInBackfill(s) \/ CrashInDelete(s)
        PROVE  OtherTypes'
    BY <2>1, <1>3, <1>4, <1>5, <1>6
  <2> QED BY <2>1, <1>7, <1>8, <1>9, <1>10, <1>11, <1>12, <1>13

\* A login leaves everything typed.
LEMMA LoginTypes ==
  ASSUME TypeOK, SharingAssumption, Login
  PROVE  TypeOK'
<1>1. /\ record' \in Records /\ applied' \in Defaults
      /\ waiting' \subseteq Sessions /\ kept' \subseteq Sessions /\ blocked' \subseteq Sessions
  <2>1. CASE applied = share
    BY <2>1 DEF Login, TypeOK, Records
  <2>2. CASE applied # share
    <3>1. Reconcile(applied, share) /\ applied \in Defaults /\ share \in Defaults
      BY <2>2 DEF Login, TypeOK
    <3> QED BY <3>1, ReconcileTypes
  <2> QED BY <2>1, <2>2
<1>2. OtherTypes'
  BY <1>1, StillForgottenType DEF TypeOK, Login, OtherTypes, outside, counts
<1> QED BY <1>1, <1>2, TypePartsNext

\* A death while turning off leaves everything typed.
LEMMA CrashInOffTypes ==
  ASSUME TypeOK, SharingAssumption, NEW s \in Sessions, NEW done \in SUBSET SharedNow, CrashInOff(s, done)
  PROVE  TypeOK'
<1>1. TurnOff(s, done) /\ done \in SUBSET Sessions
  BY DEF CrashInOff, SharedNow
<1>2. record' \in Records
  BY <1>1, TurnOffRecords
<1>3. forgotten' \subseteq Sessions
  <2>1. SharedNow \subseteq Sessions
    BY DEF SharedNow
  <2> QED BY <2>1, StillForgottenType DEF CrashInOff
<1>4. /\ waiting' \subseteq waiting /\ kept' \subseteq kept
      /\ UNCHANGED <<share, applied, alive, late, web, overtaken>>
  BY <1>1 DEF TurnOff, outside
<1>5. OtherTypes'
  BY <1>3, <1>4, CountTypes DEF TypeOK, CrashInOff, Restart, OtherTypes
<1> QED BY <1>2, <1>5, TypePartsNext

\* Every step keeps the types.
LEMMA TypeStep ==
  ASSUME TypeOK, SharingAssumption, [Next]_vars
  PROVE  TypeOK'
<1>1. CASE UNCHANGED vars
  <2>1. record' \in Records /\ OtherTypes'
    BY <1>1, TypeParts DEF vars, durable, memory, outside, counts, Records, OtherTypes
  <2> QED BY <2>1, TypePartsNext
<1>2. CASE User
  BY <1>2, ShareOnTypes, ShareOffTypes, DeleteTypes, ShareDefaultTypes, MarkWebCreatedTypes,
     QuietTypes DEF User, Logout, durable
<1>3. CASE Connector
  <2>1. ASSUME NEW s \in Sessions, Change(s)
        PROVE  TypeOK'
    BY <2>1, QuietTypes DEF Change
  <2>2. CASE Ignore
    BY <2>2, QuietTypes DEF Ignore, durable
  <2> QED BY <1>3, <2>1, <2>2, LoginTypes, ConnectTypes, BackfillTypes, PublishTypes, DiscoverTypes,
             AcknowledgeTypes, TerminateTypes DEF Connector
<1>4. CASE Environment
  <2>1. CASE Drop \/ Stop \/ TimeOut \/ Refuse
    BY <2>1, QuietTypes DEF Drop, Stop, TimeOut, Refuse, durable
  <2>2. CASE Crash
    BY <2>2, QuietTypes DEF Crash
  <2>3. ASSUME NEW request \in late, ArriveLate(request)
        PROVE  TypeOK'
    BY <2>3, QuietTypes DEF ArriveLate, durable
  <2>4. ASSUME NEW s \in Sessions, DeleteOnWeb(s) \/ CrashInBackfill(s) \/ CrashInDelete(s)
        PROVE  TypeOK'
    <3>1. UNCHANGED record
      BY <2>4 DEF DeleteOnWeb, CrashInBackfill, CrashInDelete, durable
    <3> QED BY <2>4, <3>1, QuietTypes
  <2> QED BY <1>4, <2>1, <2>2, <2>3, <2>4, ArriveTypes, CrashInOffTypes DEF Environment
<1> QED BY <1>1, <1>2, <1>3, <1>4 DEF Next

-----------------------------------------------------------------------------
(* What a step does to the records *)

\* The record b decides what a decided, and stands for the same session.
SameDecision(a, b) ==
  IF Has(a) THEN Has(b) /\ SameChoice(a, b)
  ELSE Has(b) => ~b.explicit /\ ~b.web /\ ~b.terminal

\* Records that decide alike share alike.
LEMMA SameDecisionIs ==
  ASSUME NEW a \in RecordType \cup {NoRecord}, NEW b \in RecordType \cup {NoRecord}, SameDecision(a, b)
  PROVE  /\ Ended(b) <=> Ended(a)
         /\ \A default : On(b, default) <=> On(a, default)
         /\ Has(a) => Has(b)
         /\ (Has(a) => ~a.explicit /\ ~a.web) => (Has(b) => ~b.explicit /\ ~b.web)
BY DEF SameDecision, SameChoice, Ended, On

\* A record decides like itself.
LEMMA SameIsSame ==
  ASSUME NEW a \in RecordType \cup {NoRecord}
  PROVE  SameDecision(a, a)
BY DEF SameDecision, SameChoice, Has

\* An empty record decides like none.
LEMMA EmptyDecides ==
  ASSUME TypeOK, NEW s \in Sessions, NEW b \in RecordType,
         SameChoice(RecordOf(record, s), b)
  PROVE  SameDecision(record[s], b)
BY Absent DEF SameDecision, SameChoice, RecordOf, Empty, Has

\* A step after which the records decide alike changes nobody's choice.
LEMMA SameDecisions ==
  ASSUME TypeOK, TypeOK', SharingAssumption, FamilyInv, alive' = alive,
         \A c \in Sessions : SameDecision(record[c], record'[c])
  PROVE  /\ FamilyInv'
         /\ \A c \in Sessions : \A default : ChosenUnder(c, default)' <=> ChosenUnder(c, default)
         /\ \A c \in Sessions : Ended(record'[c]) <=> Ended(record[c])
<1>1. \A c \in Sessions : /\ record[c] \in RecordType \cup {NoRecord}
                          /\ record'[c] \in RecordType' \cup {NoRecord}
  BY DEF TypeOK
<1>2. RecordType' = RecordType
  BY DEF RecordType
<1>3. \A c \in Sessions :
        /\ Ended(record'[c]) <=> Ended(record[c])
        /\ \A default : On(record'[c], default) <=> On(record[c], default)
        /\ (Has(record[c]) => ~record[c].explicit /\ ~record[c].web) =>
             (Has(record'[c]) => ~record'[c].explicit /\ ~record'[c].web)
  BY <1>1, <1>2, SameDecisionIs
<1>4. FamilyInv'
  BY <1>3 DEF FamilyInv
<1>5. ASSUME NEW c \in Sessions, NEW default
      PROVE  SharedUnder(record', c, TRUE, default) <=> SharedUnder(record, c, TRUE, default)
  <2>1. SharedUnder(record, c, TRUE, default) <=>
           ~Ended(record[c]) /\ ~Ended(record[Root]) /\ On(record[Root], default)
    BY Decision DEF FamilyInv
  <2>2. SharedUnder(record', c, TRUE, default) <=>
           ~Ended(record'[c]) /\ ~Ended(record'[Root]) /\ On(record'[Root], default)
    BY <1>4, Decision DEF FamilyInv
  <2> QED BY <2>1, <2>2, <1>3 DEF SharingAssumption
<1> QED BY <1>3, <1>4, <1>5 DEF ChosenUnder

\* Whom a session is shared with, before a step and after it.
LEMMA ChosenIs ==
  ASSUME FamilyInv, NEW c \in Sessions, NEW default
  PROVE  ChosenUnder(c, default) <=>
           /\ c \in alive /\ ~Ended(record[c])
           /\ ~Ended(record[Root]) /\ On(record[Root], default)
BY Decision DEF FamilyInv, ChosenUnder

\* The same after a step.
LEMMA ChosenIsNext ==
  ASSUME FamilyInv', NEW c \in Sessions, NEW default
  PROVE  ChosenUnder(c, default)' <=>
           /\ c \in alive' /\ ~Ended(record'[c])
           /\ ~Ended(record'[Root]) /\ On(record'[Root], default)
BY Decision DEF FamilyInv, ChosenUnder

\* What sharing does to the records.
LEMMA ShareOnIs ==
  ASSUME TypeOK, SharingAssumption, FamilyInv, NEW s \in Sessions, ShareOn(s)
  PROVE  /\ Root \in alive
         /\ ~Ended(record[Root])
         /\ Has(record'[Root]) /\ record'[Root].explicit /\ record'[Root].shared
         /\ ~record'[Root].terminal
         /\ Has(record[Root]) => /\ record'[Root].host = record[Root].host
                                 /\ record'[Root].web = record[Root].web
         /\ \A c \in Sessions \ {Root} :
              /\ SameDecision(record[c], record'[c])
              /\ Has(record'[c]) => Has(record[c]) /\ record'[c].host = record[c].host
              /\ c \notin alive => record'[c] = record[c]
<1> DEFINE chosen == [record EXCEPT ![Root] = Choice(s, TRUE)]
           p == Deciding(record, s)
<1>1. MayChoose(s, TRUE) /\ s \in alive /\ Root \in Sessions /\ Root \in alive
  BY DEF ShareOn, MayChoose, FamilyInv, SharingAssumption
<1>2. /\ Has(p) => p \in RecordType /\ ~p.terminal
      /\ Choice(s, TRUE) \in RecordType /\ Choice(s, TRUE).shared /\ Choice(s, TRUE).explicit
      /\ Choice(s, TRUE).terminal = (Has(p) /\ p.terminal)
      /\ Choice(s, TRUE).web = (Has(p) /\ p.web)
      /\ Has(p) => Choice(s, TRUE).host = p.host
  BY <1>1, ChoiceIs DEF MayChoose
<1>3. Has(record[Root]) => p = record[Root]
  BY DEF Deciding
<1>4. record' = [c \in Sessions |-> IF c \in alive THEN Offered(chosen[c]) ELSE chosen[c]]
  BY DEF ShareOn
<1>5. record'[Root] = Offered(Choice(s, TRUE))
  BY <1>1, <1>4 DEF TypeOK
<1>6. /\ Has(record'[Root]) /\ record'[Root].explicit /\ record'[Root].shared
      /\ ~record'[Root].terminal
      /\ Has(record[Root]) => /\ record'[Root].host = record[Root].host
                              /\ record'[Root].web = record[Root].web
  <2>1. /\ SameChoice(Choice(s, TRUE), Offered(Choice(s, TRUE)))
        /\ Offered(Choice(s, TRUE)).host = Choice(s, TRUE).host
    BY <1>2, OfferedKeeps
  <2>2. ~Choice(s, TRUE).terminal
    BY <1>2
  <2>3. Has(record[Root]) => Choice(s, TRUE).web = record[Root].web
    <3>1. Has(record[Root]) => record[Root].web \in BOOLEAN
      BY <1>1, HasType DEF RecordType
    <3> QED BY <1>2, <1>3, <3>1
  <2> QED BY <1>2, <1>3, <1>5, <2>1, <2>2, <2>3, Absent DEF SameChoice, Has
<1>7. ASSUME NEW c \in Sessions \ {Root}
      PROVE  /\ SameDecision(record[c], record'[c])
             /\ Has(record'[c]) => Has(record[c]) /\ record'[c].host = record[c].host
             /\ c \notin alive => record'[c] = record[c]
  <2>1. record'[c] = IF c \in alive THEN Offered(record[c]) ELSE record[c]
    BY <1>4 DEF TypeOK
  <2>2. CASE Has(record[c]) /\ c \in alive
    BY <2>1, <2>2, HasType, OfferedKeeps, Absent DEF SameDecision, SameChoice, Has
  <2>3. CASE ~Has(record[c]) /\ c \in alive
    BY <2>1, <2>3 DEF SameDecision, Offered
  <2>4. CASE c \notin alive
    BY <2>1, <2>4, RecordIs, SameIsSame
  <2> QED BY <2>2, <2>3, <2>4
<1>8. ~Ended(record[Root])
  BY <1>2, <1>3 DEF Ended
<1> QED BY <1>1, <1>6, <1>7, <1>8

\* What turning off does to the sessions it reaches, and to the others.
LEMMA TurnOffIs ==
  ASSUME TypeOK, SharingAssumption, FamilyInv, NEW s \in Sessions,
         NEW done \in SUBSET SharedNow, TurnOff(s, done)
  PROVE  /\ Root \in alive
         /\ ~Ended(record[Root])
         /\ Has(record'[Root]) /\ record'[Root].explicit /\ ~record'[Root].shared
         /\ ~record'[Root].web /\ ~record'[Root].terminal
         /\ \A c \in Sessions :
              /\ Has(record[c]) => Has(record'[c]) /\ record'[c].host = record[c].host
              /\ Has(record[c]) /\ Attempted(record[c]) /\ ~record[c].terminal =>
                   (record[c].unsharedPending => record'[c].unsharedPending)
         /\ \A c \in Sessions \ {Root} : SameDecision(record[c], record'[c])
         /\ \A c \in Sessions \ alive : record'[c] = record[c]
<1> DEFINE chosen == [record EXCEPT ![Root] = Choice(s, FALSE)]
           p == Deciding(record, s)
<1>1. /\ MayChoose(s, FALSE) /\ s \in alive /\ Root \in Sessions /\ Root \in alive
      /\ done \subseteq alive /\ done \subseteq Sessions
  BY DEF TurnOff, MayChoose, FamilyInv, SharingAssumption, SharedNow, IsShared
<1>2. /\ Has(p) => p \in RecordType /\ ~p.terminal /\ ~p.web
      /\ Choice(s, FALSE) \in RecordType /\ ~Choice(s, FALSE).shared /\ Choice(s, FALSE).explicit
      /\ Choice(s, FALSE).terminal = (Has(p) /\ p.terminal)
      /\ Choice(s, FALSE).web = (Has(p) /\ p.web)
      /\ Has(p) => Choice(s, FALSE).host = p.host
      /\ Has(p) /\ p.unsharedPending => Choice(s, FALSE).unsharedPending
  BY <1>1, ChoiceIs DEF MayChoose
<1>3. Has(record[Root]) => p = record[Root]
  BY DEF Deciding
<1>4. record' = [c \in Sessions |-> IF c \in done THEN Withdrawn(RecordOf(chosen, c)) ELSE chosen[c]]
  BY DEF TurnOff
<1>5. chosen[Root] = Choice(s, FALSE) /\ \A c \in Sessions \ {Root} : chosen[c] = record[c]
  BY <1>1 DEF TypeOK
<1>6. Has(Choice(s, FALSE))
  BY <1>2, Absent DEF Has
<1>7. /\ \A c \in Sessions \ {Root} :
           record'[c] = IF c \in done THEN Withdrawn(RecordOf(record, c)) ELSE record[c]
      /\ record'[Root] = IF Root \in done THEN Withdrawn(Choice(s, FALSE)) ELSE Choice(s, FALSE)
  <2>1. /\ RecordOf(chosen, Root) = Choice(s, FALSE)
        /\ \A c \in Sessions \ {Root} : RecordOf(chosen, c) = RecordOf(record, c)
    <3> HIDE DEF chosen
    <3> QED BY <1>5, <1>6 DEF RecordOf
  <2> HIDE DEF chosen
  <2> QED BY <1>1, <1>4, <1>5, <2>1
<1> HIDE DEF chosen
<1>8. /\ Has(record'[Root]) /\ record'[Root].explicit /\ ~record'[Root].shared
      /\ ~record'[Root].web /\ ~record'[Root].terminal
      /\ record'[Root].host = Choice(s, FALSE).host
      /\ Attempted(Choice(s, FALSE)) /\ Choice(s, FALSE).unsharedPending =>
           record'[Root].unsharedPending
  <2> DEFINE r == Choice(s, FALSE)
  <2>1. r \in RecordType /\ ~r.shared /\ r.explicit /\ ~r.terminal /\ ~r.web
    BY <1>2
  <2>2. /\ SameChoice(r, Withdrawn(r)) /\ Withdrawn(r).host = r.host
        /\ Attempted(r) => Withdrawn(r).unsharedPending
    <3> HIDE DEF r
    <3> QED BY <2>1, WithdrawnKeeps
  <2>3. record'[Root] = Withdrawn(r) \/ record'[Root] = r
    BY <1>7
  <2> HIDE DEF r
  <2>4. CASE record'[Root] = r
    BY <2>1, <2>4, Absent DEF Has, r
  <2>5. CASE record'[Root] = Withdrawn(r)
    BY <2>1, <2>2, <2>5, Absent DEF Has, SameChoice, r
  <2> QED BY <2>3, <2>4, <2>5
<1>9. ASSUME NEW c \in Sessions \ {Root}
      PROVE  /\ SameDecision(record[c], record'[c])
             /\ Has(record[c]) => Has(record'[c]) /\ record'[c].host = record[c].host
             /\ Has(record[c]) /\ Attempted(record[c]) /\ ~record[c].terminal =>
                  (record[c].unsharedPending => record'[c].unsharedPending)
  <2>1. CASE c \notin done
    BY <2>1, <1>7, RecordIs, SameIsSame
  <2>2. CASE c \in done
    <3>1. record'[c] = Withdrawn(RecordOf(record, c)) /\ RecordOf(record, c) \in RecordType
      BY <2>2, <1>7, HasType
    <3>2. SameDecision(record[c], record'[c])
      BY <3>1, WithdrawnKeeps, EmptyDecides DEF SameChoice
    <3>3. Has(record[c]) => RecordOf(record, c) = record[c]
      BY DEF RecordOf
    <3> QED BY <3>1, <3>2, <3>3, WithdrawnKeeps, Absent DEF SameChoice, Has
  <2> QED BY <2>1, <2>2
<1>10. /\ Has(record[Root]) => record'[Root].host = record[Root].host
       /\ Has(record[Root]) /\ Attempted(record[Root]) /\ ~record[Root].terminal =>
            (record[Root].unsharedPending => record'[Root].unsharedPending)
  BY <1>2, <1>3, <1>8 DEF Attempted
<1>11. \A c \in Sessions \ alive : record'[c] = record[c]
  BY <1>1, <1>7
<1>12. ~Ended(record[Root])
  BY <1>2, <1>3 DEF Ended
<1> QED BY <1>1, <1>8, <1>9, <1>10, <1>11, <1>12

\* What following another default does to the records.
LEMMA ReconcileIs ==
  ASSUME TypeOK, SharingAssumption, FamilyInv, NEW from \in Defaults, NEW to \in Defaults,
         record' = Reconciled(from, to)
  PROVE  \A c \in Sessions :
           /\ SameDecision(record[c], record'[c])
           /\ Has(record[c]) => Has(record'[c]) /\ record'[c].host = record[c].host
           /\ Has(record[c]) /\ Attempted(record[c]) /\ ~Ended(record[c]) /\ ~ChosenUnder(c, to)
                /\ (ChosenUnder(c, from) \/ record[c].unsharedPending) =>
                record'[c].unsharedPending
<1> SUFFICES ASSUME NEW c \in Sessions
             PROVE  /\ SameDecision(record[c], record'[c])
                    /\ Has(record[c]) => Has(record'[c]) /\ record'[c].host = record[c].host
                    /\ Has(record[c]) /\ Attempted(record[c]) /\ ~Ended(record[c]) /\ ~ChosenUnder(c, to)
                         /\ (ChosenUnder(c, from) \/ record[c].unsharedPending) =>
                         record'[c].unsharedPending
  OBVIOUS
<1> DEFINE before == SharedUnder(record, c, TRUE, from)
           now == SharedUnder(record, c, TRUE, to)
           r == IF Has(record[c]) THEN record[c] ELSE Empty(to)
<1>1. r \in RecordType
  BY RecordIs, EmptyType
<1>2. /\ SameChoice(r, Withdrawn(r)) /\ Withdrawn(r).host = r.host
      /\ Attempted(r) /\ ~r.terminal => Withdrawn(r).unsharedPending
  BY <1>1, WithdrawnKeeps
<1>3. SameDecision(record[c], Withdrawn(r)) /\ Has(Withdrawn(r))
  <2>1. CASE Has(record[c])
    BY <2>1, <1>2, Absent DEF SameDecision, SameChoice, Has
  <2>2. CASE ~Has(record[c])
    <3>1. r = Empty(to)
      BY <2>2
    <3> HIDE DEF r
    <3> QED BY <2>2, <3>1, <1>2, Absent DEF SameDecision, SameChoice, Has, Empty
  <2> QED BY <2>1, <2>2
<1>4. record'[c] = IF c \notin alive THEN record[c]
                   ELSE IF before /\ ~now THEN Withdrawn(r)
                   ELSE IF now /\ ~before THEN Offered(record[c])
                   ELSE record[c]
  BY DEF Reconciled
<1>5. /\ ChosenUnder(c, from) <=> c \in alive /\ before
      /\ ChosenUnder(c, to) <=> c \in alive /\ now
  BY DEF ChosenUnder
<1> HIDE DEF before, now
<1>6. CASE c \in alive /\ before /\ ~now
  <2>1. record'[c] = Withdrawn(r)
    BY <1>4, <1>6
  <2>2. Has(record[c]) => r = record[c]
    OBVIOUS
  <2> HIDE DEF r
  <2> QED BY <2>1, <2>2, <1>2, <1>3 DEF Ended
<1>7. CASE c \in alive /\ now /\ ~before
  <2>1. record'[c] = Offered(record[c])
    BY <1>4, <1>7
  <2>2. CASE Has(record[c])
    BY <2>1, <2>2, <1>5, <1>7, HasType, OfferedKeeps, Absent DEF SameDecision, SameChoice, Has
  <2>3. CASE ~Has(record[c])
    BY <2>1, <2>3 DEF SameDecision, Offered
  <2> QED BY <2>2, <2>3
<1>8. CASE ~(c \in alive /\ before /\ ~now) /\ ~(c \in alive /\ now /\ ~before)
  <2>1. record'[c] = record[c]
    BY <1>4, <1>8
  <2>2. SameDecision(record[c], record'[c])
    BY <2>1, RecordIs, SameIsSame
  <2>3. Has(record[c]) /\ ~ChosenUnder(c, to) /\ ChosenUnder(c, from) => FALSE
    BY <1>5, <1>8
  <2> QED BY <2>1, <2>2, <2>3
<1> QED BY <1>6, <1>7, <1>8

\* Turning off records the debt of every session that it reaches, that owes
\* one already, or that is a root whose record says that it was shared.
LEMMA TurnOffOwes ==
  ASSUME TypeOK, SharingAssumption, FamilyInv, NEW s \in Sessions,
         NEW done \in SUBSET SharedNow, TurnOff(s, done), NEW c \in Sessions,
         Has(record[c]), Attempted(record[c]), ~Ended(record[c]),
         c \in done \/ ~Untold(c) \/ (c = Root /\ SharedUnder(record, s, configured, share))
  PROVE  record'[c].unsharedPending
<1> DEFINE chosen == [record EXCEPT ![Root] = Choice(s, FALSE)]
           p == Deciding(record, s)
<1>1. record' = [d \in Sessions |-> IF d \in done THEN Withdrawn(RecordOf(chosen, d)) ELSE chosen[d]]
  BY DEF TurnOff
<1>2. Root \in Sessions /\ chosen[Root] = Choice(s, FALSE) /\ \A d \in Sessions \ {Root} : chosen[d] = record[d]
  BY DEF TypeOK, SharingAssumption
<1>3. Choice(s, FALSE) \in RecordType
  BY ChoiceIs
<1>4. c = Root => /\ Choice(s, FALSE).host = record[c].host
                  /\ Choice(s, FALSE).terminal = record[c].terminal
  <2>1. ASSUME c = Root PROVE p = record[c]
    BY <2>1 DEF Deciding
  <2>2. record[c].terminal \in BOOLEAN
    BY HasType DEF RecordType
  <2> QED BY <2>1, <2>2, ChoiceIs
<1>5. /\ chosen[c] \in RecordType /\ chosen[c].host = record[c].host /\ chosen[c].terminal = record[c].terminal
      /\ record'[c] = IF c \in done THEN Withdrawn(RecordOf(chosen, c)) ELSE chosen[c]
  <2> HIDE DEF chosen
  <2> QED BY <1>1, <1>2, <1>3, <1>4, HasType
<1> HIDE DEF chosen
<1>6. RecordOf(chosen, c) = chosen[c] /\ Attempted(chosen[c]) /\ ~chosen[c].terminal
  BY <1>5, Absent DEF RecordOf, Has, Attempted, Ended
<1>7. CASE c \in done
  BY <1>5, <1>6, <1>7, WithdrawnKeeps
<1>8. CASE c \notin done /\ c # Root
  BY <1>2, <1>5, <1>8 DEF Untold
<1>9. CASE c \notin done /\ c = Root
  <2>1. p = record[Root]
    BY <1>9 DEF Deciding
  <2>2. Choice(s, FALSE).unsharedPending
    BY <1>9, <2>1, ChoiceIs DEF Untold
  <2> QED BY <1>2, <1>5, <1>9, <2>2
<1> QED BY <1>7, <1>8, <1>9

\* What a session created on the web does to the records.
LEMMA MarkIs ==
  ASSUME TypeOK, SharingAssumption, FamilyInv, MarkWebCreated
  PROVE  /\ Root \in alive /\ Has(record'[Root]) /\ record'[Root].web
         /\ Ended(record'[Root]) <=> Ended(record[Root])
         /\ Has(record[Root]) => record'[Root].host = record[Root].host
         /\ \A c \in Sessions \ {Root} : record'[c] = record[c]
<1>1. Root \in Sessions /\ Root \in alive /\ record' = [record EXCEPT ![Root] = Marked(record[Root])]
  BY DEF MarkWebCreated, SharingAssumption
<1>2. record'[Root] = Marked(record[Root]) /\ \A c \in Sessions \ {Root} : record'[c] = record[c]
  BY <1>1 DEF TypeOK
<1>3. /\ Marked(record[Root]) \in RecordType /\ Marked(record[Root]).web
      /\ Marked(record[Root]).terminal = (Has(record[Root]) /\ record[Root].terminal)
      /\ Has(record[Root]) => Marked(record[Root]).host = record[Root].host
  BY <1>1, RecordIs, MarkedKeeps
<1> QED BY <1>1, <1>2, <1>3, Absent DEF Has, Ended

\* What a first share does to the records.
LEMMA BackfillIs ==
  ASSUME TypeOK, SharingAssumption, NEW s \in Sessions, Backfill(s)
  PROVE  /\ s \in alive /\ SameDecision(record[s], record'[s])
         /\ record'[s].host = RecordOf(record, s).host
         /\ record'[s].unsharedPending = RecordOf(record, s).unsharedPending
         /\ \A c \in Sessions \ {s} : record'[c] = record[c]
<1> DEFINE r == RecordOf(record, s)
           b == [r EXCEPT !.backfilled = TRUE]
<1>1. r \in RecordType
  BY HasType
<1>2. SameChoice(r, b) /\ b.host = r.host /\ b.unsharedPending = r.unsharedPending /\ b \in RecordType
  BY <1>1 DEF RecordType, SameChoice
<1>3. record'[s] = b /\ \A c \in Sessions \ {s} : record'[c] = record[c]
  BY DEF Backfill, TypeOK
<1>4. SameDecision(record[s], b)
  BY <1>2, EmptyDecides
<1> QED BY <1>2, <1>3, <1>4 DEF Backfill, MayBackfill

\* Deleting tells of each session what it still owes.
LEMMA RemoveIs ==
  ASSUME TypeOK, NEW gone \in SUBSET Sessions, NEW told \in BOOLEAN, RemoveLocal(gone, told)
  PROVE  /\ \A c \in gone :
              /\ Has(record'[c]) => /\ Has(record[c]) /\ Attempted(record'[c])
                                    /\ ~Ended(record'[c]) /\ record'[c].unsharedPending
                                    /\ record'[c].explicit = record[c].explicit
                                    /\ record'[c].web = record[c].web
              /\ Has(record[c]) /\ Attempted(record[c]) /\ ~Ended(record[c]) /\ ~told => Has(record'[c])
         /\ \A c \in Sessions \ gone : record'[c] = record[c]
<1>1. ASSUME NEW c \in gone
      PROVE  /\ Has(record'[c]) => /\ Has(record[c]) /\ Attempted(record'[c])
                                   /\ ~Ended(record'[c]) /\ record'[c].unsharedPending
                                   /\ record'[c].explicit = record[c].explicit
                                   /\ record'[c].web = record[c].web
             /\ Has(record[c]) /\ Attempted(record[c]) /\ ~Ended(record[c]) /\ ~told => Has(record'[c])
  <2>1. record'[c] = Removed(record[c], told)
    BY DEF RemoveLocal
  <2>2. Has(record[c]) => record[c] \in RecordType
    BY HasType
  <2> QED BY <2>1, <2>2, RemovedKeeps DEF Attempted, Ended
<1>2. \A c \in Sessions \ gone : record'[c] = record[c]
  BY DEF RemoveLocal
<1> QED BY <1>1, <1>2

\* What a connection ends is fenced, and the other records stay.
LEMMA ConnectIs ==
  ASSUME TypeOK, SharingAssumption, NEW h \in Hosts, Connect(h)
  PROVE  /\ \A c \in Fenced(h) : /\ Has(record[c]) /\ Has(record'[c]) /\ Ended(record'[c])
                                 /\ record'[c].host = record[c].host
                                 /\ record'[c].explicit = record[c].explicit
                                 /\ record'[c].web = record[c].web
         /\ \A c \in Sessions \ Fenced(h) : record'[c] = record[c]
<1>1. \A c \in Fenced(h) : c \in Sessions /\ Has(record[c]) /\ record[c] \in RecordType
  BY HasType DEF Fenced
<1>2. \A c \in Fenced(h) : record'[c] = Terminated(record[c])
  BY <1>1 DEF Connect
<1>3. \A c \in Sessions \ Fenced(h) : record'[c] = record[c]
  BY DEF Connect
<1> QED BY <1>1, <1>2, <1>3, TerminatedKeeps, Absent DEF Has, Ended

\* What a publication stores before its request leaves.
LEMMA PublishIs ==
  ASSUME TypeOK, SharingAssumption, ConnectionInv, NEW s \in Sessions, Publish(s)
  PROVE  /\ connected /\ flight = NoFlight /\ ~Ended(record[s])
         /\ \A c \in Sessions \ {s} : record'[c] = record[c]
         /\ Has(record'[s]) /\ Attempted(record'[s])
         /\ s \in alive => SameDecision(record[s], record'[s])
         /\ s \notin alive => /\ Has(record[s])
                              /\ record'[s].explicit = record[s].explicit
                              /\ record'[s].web = record[s].web
                              /\ ~Ended(record'[s])
         /\ ~IsShared(s) => record'[s].unsharedPending
         /\ Has(record[s]) /\ record[s].unsharedPending => record'[s].unsharedPending
         /\ flight' # NoFlight /\ flight'.session = s /\ flight'.shared = IsShared(s)
         /\ flight'.live /\ flight'.reply = "none"
<1>1. connected /\ flight = NoFlight /\ ~Ended(record[s])
  BY DEF Publish, Ready, Ended
<1>2. host \in Hosts
  BY <1>1 DEF ConnectionInv
<1>3. Found(s) \in RecordType
  BY FoundType DEF Publish
<1>4. /\ SameChoice(Found(s), Intended(Found(s))) /\ Attempted(Intended(Found(s)))
      /\ Intended(Found(s)).unsharedPending = Found(s).unsharedPending
  BY <1>2, <1>3, IntendedKeeps
<1>5. record'[s] = Intended(Found(s)) /\ \A c \in Sessions \ {s} : record'[c] = record[c]
  BY DEF Publish, TypeOK
<1>6. Has(record'[s])
  BY <1>4, <1>5, Absent DEF Has, SameChoice
<1>7. ~IsShared(s) => Found(s).unsharedPending
  BY DEF Publish
<1>10. /\ flight' # NoFlight /\ flight'.session = s /\ flight'.shared = IsShared(s)
       /\ flight'.live /\ flight'.reply = "none"
  <2>1. flight' = [session |-> s, shared |-> IsShared(s), events |-> IsShared(s) /\ s \in waiting,
                   live |-> TRUE, reply |-> "none"]
    BY DEF Publish
  <2>2. IsShared(s) \in BOOLEAN /\ (IsShared(s) /\ s \in waiting) \in BOOLEAN
    BY SharedNowIs
  <2>3. flight' \in FlightType
    BY <2>1, <2>2 DEF FlightType
  <2> QED BY <2>1, <2>3, Absent
<1>8. CASE s \in alive
  <2>1. Found(s) = RecordOf(record, s)
    BY <1>8 DEF Found
  <2>2. SameDecision(record[s], record'[s])
    BY <1>4, <1>5, <2>1, EmptyDecides DEF SameChoice
  <2>3. Has(record[s]) => RecordOf(record, s) = record[s]
    BY DEF RecordOf
  <2>4. /\ ~IsShared(s) => record'[s].unsharedPending
        /\ Has(record[s]) /\ record[s].unsharedPending => record'[s].unsharedPending
    BY <1>4, <1>5, <1>7, <2>1, <2>3
  <2> QED BY <1>1, <1>4, <1>5, <1>6, <1>8, <1>10, <2>2, <2>4
<1>9. CASE s \notin alive
  <2>1. Found(s) = Removed(record[s], FALSE) /\ Has(Found(s)) /\ Has(record[s]) /\ record[s] \in RecordType
    BY <1>9, FoundType, HasType DEF Found, Publish
  <2>2. /\ Found(s).explicit = record[s].explicit /\ Found(s).web = record[s].web
        /\ ~Found(s).terminal /\ Found(s).unsharedPending
    <3>1. Has(Removed(record[s], FALSE))
      BY <2>1
    <3>2. /\ Removed(record[s], FALSE).explicit = record[s].explicit
          /\ Removed(record[s], FALSE).web = record[s].web
          /\ ~Removed(record[s], FALSE).terminal /\ Removed(record[s], FALSE).unsharedPending
      BY <2>1, <3>1, RemovedKeeps
    <3> QED BY <2>1, <3>2
  <2>3. /\ record'[s].explicit = record[s].explicit /\ record'[s].web = record[s].web
        /\ ~Ended(record'[s]) /\ record'[s].unsharedPending
    BY <1>4, <1>5, <2>2 DEF SameChoice, Ended
  <2> QED BY <1>1, <1>4, <1>5, <1>6, <1>9, <1>10, <2>1, <2>3
<1> QED BY <1>8, <1>9

\* What an acknowledgement stores.
LEMMA AcknowledgeIs ==
  ASSUME TypeOK, SharingAssumption, ConnectionInv, Acknowledge, flight.session \in alive
  PROVE  LET s == flight.session
         IN /\ SameDecision(record[s], record'[s])
            /\ Has(record'[s]) /\ Attempted(record'[s])
            /\ record'[s].unsharedPending =
                 (RecordOf(record, s).unsharedPending /\ (flight.shared \/ IsShared(s)))
            /\ \A c \in Sessions \ {s} : record'[c] = record[c]
<1> DEFINE s == flight.session
           r == RecordOf(record, s)
<1>1. flight \in FlightType /\ s \in Sessions
  BY FlightIs DEF Acknowledge
<1>2. host \in Hosts
  BY DEF Acknowledge, ConnectionInv
<1>3. r \in RecordType /\ IsShared(s) \in BOOLEAN
  BY <1>1, HasType, SharedNowIs
<1>4. /\ SameChoice(r, Settled(r, s)) /\ Attempted(Settled(r, s))
      /\ Settled(r, s).unsharedPending = (r.unsharedPending /\ (flight.shared \/ IsShared(s)))
  BY <1>1, <1>2, <1>3, SettledKeeps
<1>5. record' = [record EXCEPT ![s] = Settled(r, s)]
  BY DEF Acknowledge
<1>6. record'[s] = Settled(r, s) /\ \A c \in Sessions \ {s} : record'[c] = record[c]
  BY <1>1, <1>5 DEF TypeOK
<1>7. SameDecision(record[s], record'[s]) /\ Has(record'[s])
  BY <1>1, <1>4, <1>6, EmptyDecides, Absent DEF SameChoice, Has
<1> QED BY <1>4, <1>6, <1>7

\* What the web's deletion stores.
LEMMA TerminateIs ==
  ASSUME TypeOK, SharingAssumption, Terminate
  PROVE  LET s == flight.session
         IN /\ s \in Sessions
            /\ s \in alive => /\ Has(record'[s]) /\ Ended(record'[s])
                              /\ record'[s].host = RecordOf(record, s).host
                              /\ record'[s].explicit = RecordOf(record, s).explicit
                              /\ record'[s].web = RecordOf(record, s).web
            /\ s \notin alive => ~Has(record'[s])
            /\ \A c \in Sessions \ {s} : record'[c] = record[c]
<1> DEFINE s == flight.session
<1>1. s \in Sessions
  BY FlightIs DEF Terminate
<1>2. record'[s] = IF s \in alive THEN Terminated(RecordOf(record, s)) ELSE NoRecord
  BY <1>1 DEF Terminate, TypeOK
<1>3. \A c \in Sessions \ {s} : record'[c] = record[c]
  BY <1>1 DEF Terminate, TypeOK
<1> QED BY <1>1, <1>2, <1>3, HasType, TerminatedKeeps, Absent DEF Has, Ended

-----------------------------------------------------------------------------
(* Families and connections *)

\* A record after a step is stored or absent.
LEMMA NextRecordIs ==
  ASSUME TypeOK', NEW c \in Sessions
  PROVE  record'[c] \in RecordType \cup {NoRecord}
<1>1. record' \in Records
  BY TypePartsNext
<1> QED BY <1>1 DEF Records

\* A record that decides the same is no choice of a child's own either.
LEMMA SameChild ==
  ASSUME TypeOK, TypeOK', FamilyInv, NEW c \in Sessions \ {Root}, SameDecision(record[c], record'[c])
  PROVE  Has(record'[c]) => ~record'[c].explicit /\ ~record'[c].web
BY RecordIs, NextRecordIs, SameDecisionIs DEF FamilyInv

\* The steps that change no record.
Quiet ==
  \/ \E s \in Sessions : Change(s) \/ DeleteOnWeb(s) \/ CrashInBackfill(s) \/ CrashInDelete(s)
  \/ Logout \/ Drop \/ Stop \/ Arrive \/ Ignore \/ TimeOut \/ Refuse \/ Crash
  \/ \E request \in late : ArriveLate(request)
  \/ UNCHANGED vars

\* A quiet step changes no record.
LEMMA QuietIs ==
  ASSUME Quiet
  PROVE  /\ record' = record
         /\ alive' = alive \/ \E s \in Sessions : CrashInDelete(s)
BY DEF Quiet, Change, DeleteOnWeb, CrashInBackfill, CrashInDelete, Logout, Drop, Stop, Arrive, Ignore,
  TimeOut, Refuse, Crash, ArriveLate, vars, durable

\* The steps, grouped by what they do to the records.
LEMMA Steps ==
  ASSUME [Next]_vars
  PROVE  \/ Quiet
         \/ \E s \in Sessions : ShareOn(s) \/ ShareOff(s) \/ Delete(s) \/ Backfill(s) \/ Publish(s)
                                \/ Discover(s)
         \/ \E default \in Defaults \ {share} : ShareDefault(default)
         \/ MarkWebCreated \/ Login \/ Acknowledge \/ Terminate
         \/ \E h \in Hosts : Connect(h)
         \/ \E s \in Sessions, done \in SUBSET SharedNow : CrashInOff(s, done)
BY DEF Next, User, Connector, Environment, Quiet

\* The family of a session that goes.
LEMMA FamilyGoes ==
  ASSUME FamilyInv, NEW s \in Sessions, alive' = alive \ Family(s), alive \subseteq Sessions
  PROVE  alive' # {} => Root \in alive'
BY DEF FamilyInv, Family

\* A login withdraws what the default in force no longer shares.
LEMMA LoginIs ==
  ASSUME TypeOK, SharingAssumption, FamilyInv, Login
  PROVE  /\ alive' = alive /\ applied' = share
         /\ \A c \in Sessions :
              /\ SameDecision(record[c], record'[c])
              /\ Has(record[c]) => Has(record'[c]) /\ record'[c].host = record[c].host
              /\ Has(record[c]) /\ Attempted(record[c]) /\ ~Ended(record[c]) /\ ~ChosenUnder(c, share)
                   /\ (ChosenUnder(c, applied) \/ record[c].unsharedPending) =>
                   record'[c].unsharedPending
<1>1. CASE applied = share
  <2>1. record' = record
    BY <1>1 DEF Login
  <2>2. \A c \in Sessions : SameDecision(record[c], record'[c])
    BY <2>1, RecordIs, SameIsSame
  <2> QED BY <1>1, <2>1, <2>2 DEF Login
<1>2. CASE applied # share
  <2>1. record' = Reconciled(applied, share) /\ applied' = share
    BY <1>2 DEF Login, Reconcile
  <2>2. applied \in Defaults /\ share \in Defaults
    BY DEF TypeOK
  <2> QED BY <2>1, <2>2, ReconcileIs DEF Login
<1> QED BY <1>1, <1>2

\* The records of children stay without a choice, and a root outlives them.
LEMMA FamilyStep ==
  ASSUME TypeOK, TypeOK', SharingAssumption, FamilyInv, ConnectionInv, [Next]_vars
  PROVE  FamilyInv'
<1> DEFINE Children == \A c \in Sessions \ {Root} : Has(record'[c]) => ~record'[c].explicit /\ ~record'[c].web
<1>1. alive \subseteq Sessions
  BY DEF TypeOK
<1>2. ASSUME record' = record, alive' = alive
      PROVE  FamilyInv'
  BY <1>2 DEF FamilyInv
<1>3. CASE Quiet
  <2>1. ASSUME NEW s \in Sessions, CrashInDelete(s)
        PROVE  FamilyInv'
    <3>1. alive' # {} => Root \in alive'
      BY <1>1, <2>1, FamilyGoes DEF CrashInDelete
    <3>2. record' = record
      BY <2>1 DEF CrashInDelete
    <3> QED BY <3>1, <3>2 DEF FamilyInv
  <2> QED BY <1>3, <1>2, <2>1, QuietIs
<1>4. ASSUME alive' = alive, Children
      PROVE  FamilyInv'
  BY <1>4 DEF FamilyInv
<1>5. ASSUME NEW s \in Sessions, ShareOn(s)
      PROVE  FamilyInv'
  BY <1>4, <1>5, ShareOnIs, SameChild DEF ShareOn
<1>6. ASSUME NEW s \in Sessions, NEW done \in SUBSET SharedNow, TurnOff(s, done)
      PROVE  FamilyInv'
  BY <1>4, <1>6, TurnOffIs, SameChild DEF TurnOff
<1>7. ASSUME NEW s \in Sessions, Delete(s)
      PROVE  FamilyInv'
  <2>1. RemoveLocal(Family(s) \cap alive, FALSE) /\ Family(s) \cap alive \in SUBSET Sessions
    BY <1>1, <1>7 DEF Delete
  <2>2. Children
    BY <2>1, RemoveIs DEF FamilyInv
  <2>3. alive' # {} => Root \in alive'
    BY <1>1, <1>7, FamilyGoes DEF Delete
  <2> QED BY <2>2, <2>3 DEF FamilyInv
<1>8. ASSUME NEW s \in Sessions, Backfill(s)
      PROVE  FamilyInv'
  <2>1. Children
    BY <1>8, BackfillIs, SameChild DEF FamilyInv
  <2> QED BY <1>4, <1>8, <2>1 DEF Backfill
<1>9. ASSUME NEW s \in Sessions, Publish(s)
      PROVE  FamilyInv'
  <2>1. Children
    BY <1>9, PublishIs, SameChild DEF FamilyInv
  <2> QED BY <1>4, <1>9, <2>1 DEF Publish
<1>10. ASSUME NEW s \in Sessions, Discover(s)
       PROVE  FamilyInv'
  <2>1. Children
    BY <1>10, RemoveIs DEF Discover, FamilyInv
  <2> QED BY <1>4, <1>10, <2>1 DEF Discover
<1>11. ASSUME NEW default \in Defaults, ShareDefault(default)
       PROVE  FamilyInv'
  <2>1. record' = Reconciled(share, default) /\ alive' = alive /\ share \in Defaults
    BY <1>11 DEF ShareDefault, Reconcile, TypeOK
  <2> QED BY <1>4, <2>1, ReconcileIs, SameChild
<1>12. CASE MarkWebCreated
  BY <1>4, <1>12, MarkIs DEF MarkWebCreated, FamilyInv
<1>13. CASE Login
  BY <1>4, <1>13, LoginIs, SameChild
<1>14. CASE Acknowledge
  <2>1. alive' = alive /\ flight.session \in Sessions /\ flight.shared \in BOOLEAN
    BY <1>14, FlightIs DEF Acknowledge
  <2>2. CASE flight.session \in alive
    <3>1. Children
      BY <1>14, <2>2, AcknowledgeIs, SameChild DEF FamilyInv
    <3> QED BY <1>4, <2>1, <3>1
  <2>3. CASE flight.session \notin alive
    <3>1. RemoveLocal({flight.session}, ~flight.shared)
      BY <1>14, <2>3 DEF Acknowledge
    <3>2. Children
      BY <2>1, <3>1, RemoveIs DEF FamilyInv
    <3> QED BY <1>4, <2>1, <3>2
  <2> QED BY <2>2, <2>3
<1>15. CASE Terminate
  <2>1. \A c \in Sessions \ {Root} : ~RecordOf(record, c).explicit /\ ~RecordOf(record, c).web
    BY DEF RecordOf, Empty, FamilyInv
  <2>2. Children
    BY <1>15, <2>1, TerminateIs DEF FamilyInv
  <2> QED BY <1>4, <1>15, <2>2 DEF Terminate
<1>16. ASSUME NEW h \in Hosts, Connect(h)
       PROVE  FamilyInv'
  BY <1>4, <1>16, ConnectIs DEF Connect, FamilyInv
<1>17. ASSUME NEW s \in Sessions, ShareOff(s)
       PROVE  FamilyInv'
  BY <1>6, <1>17 DEF ShareOff
<1>18. ASSUME NEW s \in Sessions, NEW done \in SUBSET SharedNow, CrashInOff(s, done)
       PROVE  FamilyInv'
  BY <1>6, <1>18 DEF CrashInOff
<1> QED BY Steps, <1>3, <1>5, <1>7, <1>8, <1>9, <1>10, <1>11, <1>12, <1>13, <1>14, <1>15, <1>16, <1>17, <1>18

\* Every step preserves ConnectionInv.
LEMMA ConnectionStep ==
  ASSUME TypeOK, SharingAssumption, ConnectionInv, [Next]_vars
  PROVE  ConnectionInv'
<1>1. CASE Quiet
  <2>1. CASE Logout \/ Drop \/ Stop
    BY <2>1, StaleType DEF Logout, Drop, Stop, Disconnect, ConnectionInv, durable
  <2>2. CASE Crash \/ \E s \in Sessions : CrashInBackfill(s) \/ CrashInDelete(s)
    BY <2>2 DEF Crash, CrashInBackfill, CrashInDelete, Restart, ConnectionInv
  <2>3. CASE TimeOut \/ Ignore \/ Refuse
    BY <2>3 DEF TimeOut, Ignore, Refuse, Fault, ConnectionInv, durable
  <2>4. CASE Arrive
    <3>1. flight' # NoFlight /\ flight'.live => flight.live /\ flight # NoFlight
      BY <2>4, FlightIs DEF Arrive, FlightType
    <3> QED BY <2>4, <3>1 DEF Arrive, ConnectionInv, durable
  <2>5. CASE UNCHANGED vars \/ (\E s \in Sessions : Change(s) \/ DeleteOnWeb(s))
             \/ \E request \in late : ArriveLate(request)
    BY <2>5 DEF Change, DeleteOnWeb, ArriveLate, vars, memory, durable, ConnectionInv
  <2> QED BY <1>1, <2>1, <2>2, <2>3, <2>4, <2>5 DEF Quiet
<1>2. ASSUME NEW s \in Sessions, ShareOn(s) \/ ShareOff(s) \/ Delete(s) \/ Backfill(s) \/ Discover(s)
      PROVE  ConnectionInv'
  <2>1. UNCHANGED <<share, applied, configured, connected, host, flight>>
    <3>1. CASE ShareOn(s)
      BY <3>1 DEF ShareOn, memory
    <3>2. CASE ShareOff(s)
      BY <3>2 DEF ShareOff, TurnOff
    <3>3. CASE Delete(s)
      BY <3>3 DEF Delete
    <3>4. CASE Backfill(s)
      BY <3>4 DEF Backfill, memory
    <3>5. CASE Discover(s)
      BY <3>5 DEF Discover
    <3> QED BY <1>2, <3>1, <3>2, <3>3, <3>4, <3>5
  <2> QED BY <2>1 DEF ConnectionInv
<1>3. ASSUME NEW s \in Sessions, Publish(s)
      PROVE  ConnectionInv'
  BY <1>3 DEF Publish, Ready, ConnectionInv
<1>4. ASSUME NEW default \in Defaults, ShareDefault(default)
      PROVE  ConnectionInv'
  BY <1>4 DEF ShareDefault, Reconcile, ConnectionInv
<1>5. CASE MarkWebCreated
  BY <1>5 DEF MarkWebCreated, memory, ConnectionInv
<1>6. CASE Login
  BY <1>6 DEF Login, Reconcile, ConnectionInv
<1>7. CASE Acknowledge \/ Terminate
  BY <1>7 DEF Acknowledge, Terminate, ConnectionInv
<1>8. ASSUME NEW h \in Hosts, Connect(h)
      PROVE  ConnectionInv'
  BY <1>8 DEF Connect, ConnectionInv
<1>9. ASSUME NEW s \in Sessions, NEW done \in SUBSET SharedNow, CrashInOff(s, done)
      PROVE  ConnectionInv'
  BY <1>9 DEF CrashInOff, Restart, ConnectionInv
<1> QED BY Steps, <1>1, <1>2, <1>3, <1>4, <1>5, <1>6, <1>7, <1>8, <1>9

-----------------------------------------------------------------------------
(* What was sent is remembered *)

\* The steps that touch neither the platform nor what travels to it.
Local ==
  \/ \E s \in Sessions : ShareOn(s) \/ ShareOff(s) \/ Delete(s) \/ Backfill(s) \/ Discover(s)
                         \/ Change(s)
  \/ \E default \in Defaults : ShareDefault(default)
  \/ MarkWebCreated \/ Login
  \/ \E h \in Hosts : Connect(h)
  \/ UNCHANGED vars

\* A local step changes nothing outside.
LEMMA LocalIs ==
  ASSUME Local
  PROVE  UNCHANGED <<web, late, overtaken, flight>>
<1>1. ASSUME NEW s \in Sessions, ShareOn(s)
      PROVE  UNCHANGED <<web, late, overtaken, flight>>
  BY <1>1 DEF ShareOn, memory, outside
<1>2. ASSUME NEW s \in Sessions, ShareOff(s)
      PROVE  UNCHANGED <<web, late, overtaken, flight>>
  BY <1>2 DEF ShareOff, TurnOff, outside
<1>3. ASSUME NEW s \in Sessions, Delete(s) \/ Discover(s)
      PROVE  UNCHANGED <<web, late, overtaken, flight>>
  BY <1>3 DEF Delete, Discover, outside
<1>4. ASSUME NEW s \in Sessions, Backfill(s) \/ Change(s)
      PROVE  UNCHANGED <<web, late, overtaken, flight>>
  BY <1>4 DEF Backfill, Change, outside, memory
<1>5. ASSUME NEW default \in Defaults, ShareDefault(default)
      PROVE  UNCHANGED <<web, late, overtaken, flight>>
  BY <1>5 DEF ShareDefault, outside
<1>6. CASE MarkWebCreated
  BY <1>6 DEF MarkWebCreated, outside, memory
<1>7. CASE Login
  BY <1>7 DEF Login, outside
<1>8. ASSUME NEW h \in Hosts, Connect(h)
      PROVE  UNCHANGED <<web, late, overtaken, flight>>
  BY <1>8 DEF Connect, outside
<1>9. CASE UNCHANGED vars
  BY <1>9 DEF vars, outside, memory
<1> QED BY <1>1, <1>2, <1>3, <1>4, <1>5, <1>6, <1>7, <1>8, <1>9 DEF Local

\* The steps after which nothing is awaited; what was may still arrive.
GivenUp ==
  \/ Ignore \/ TimeOut \/ Refuse \/ Crash \/ Acknowledge \/ Terminate
  \/ \E s \in Sessions : CrashInBackfill(s) \/ CrashInDelete(s)
  \/ \E s \in Sessions, done \in SUBSET SharedNow : CrashInOff(s, done)

\* A request given up may arrive late, and nothing else of it remains.
LEMMA GivenUpIs ==
  ASSUME GivenUp
  PROVE  /\ flight' = NoFlight /\ UNCHANGED <<web, overtaken>>
         /\ \/ late' = late
            \/ /\ flight # NoFlight /\ flight.reply = "none"
               /\ late' = late \cup {<<flight.session, flight.shared>>}
<1> DEFINE Goal == /\ flight' = NoFlight /\ UNCHANGED <<web, overtaken>>
                   /\ \/ late' = late
                      \/ /\ flight # NoFlight /\ flight.reply = "none"
                         /\ late' = late \cup {<<flight.session, flight.shared>>}
<1>1. CASE Ignore \/ TimeOut
  BY <1>1 DEF Ignore, TimeOut
<1>2. CASE Refuse
  BY <1>2 DEF Refuse, outside
<1>3. CASE Crash
  BY <1>3 DEF Crash, Restart
<1>4. CASE Acknowledge \/ Terminate
  BY <1>4 DEF Acknowledge, Terminate, outside
<1>5. ASSUME NEW s \in Sessions, CrashInBackfill(s) \/ CrashInDelete(s)
      PROVE  Goal
  BY <1>5 DEF CrashInBackfill, CrashInDelete, Restart, outside
<1>6. ASSUME NEW s \in Sessions, NEW done \in SUBSET SharedNow, CrashInOff(s, done)
      PROVE  Goal
  <2>1. UNCHANGED <<web, late, overtaken>>
    BY <1>6 DEF CrashInOff, TurnOff, outside
  <2> QED BY <1>6, <2>1 DEF CrashInOff, Restart
<1> QED BY <1>1, <1>2, <1>3, <1>4, <1>5, <1>6 DEF GivenUp

\* The steps of the connection and of the platform.
LEMMA OutsideSteps ==
  ASSUME [Next]_vars
  PROVE  \/ Local \/ GivenUp \/ Logout \/ Drop \/ Stop \/ Arrive
         \/ \E s \in Sessions : Publish(s) \/ DeleteOnWeb(s)
         \/ \E request \in late : ArriveLate(request)
BY DEF Next, User, Connector, Environment, Local, GivenUp

\* A lost connection leaves its request to be ignored.
LEMMA LosesConnectionIs ==
  ASSUME TypeOK, Logout \/ Drop \/ Stop
  PROVE  /\ UNCHANGED <<web, late, overtaken>>
         /\ flight' = Stale(flight)
BY DEF Logout, Drop, Stop, Disconnect, outside

\* A request that arrives is shown and answered.
LEMMA ArriveIs ==
  ASSUME TypeOK, Arrive
  PROVE  LET s == flight.session
         IN /\ flight # NoFlight /\ flight.reply = "none" /\ s \in Sessions
            /\ flight' # NoFlight /\ flight'.session = s /\ flight'.shared = flight.shared
            /\ flight'.reply = IF web[s] = "deleted" THEN "deleted" ELSE "ok"
            /\ flight'.live = flight.live
            /\ \A c \in Sessions \ {s} : web'[c] = web[c]
            /\ web[s] = "deleted" => web'[s] = "deleted"
            /\ web[s] # "deleted" => web'[s] = IF flight.shared THEN "shared" ELSE "unshared"
            /\ UNCHANGED <<late, overtaken>>
<1>1. flight # NoFlight /\ flight \in FlightType /\ flight.session \in Sessions /\ flight.shared \in BOOLEAN
  BY FlightIs DEF Arrive
<1>2. flight' = [flight EXCEPT !.reply = IF web[flight.session] = "deleted" THEN "deleted" ELSE "ok"]
  BY DEF Arrive
<1>3. /\ flight' \in FlightType /\ flight'.session = flight.session /\ flight'.shared = flight.shared
      /\ flight'.live = flight.live
      /\ flight'.reply = IF web[flight.session] = "deleted" THEN "deleted" ELSE "ok"
  BY <1>1, <1>2 DEF FlightType
<1> QED BY <1>1, <1>3, ShowIs, Absent DEF Arrive

\* A late request is shown, and what is known of its session is overtaken.
LEMMA ArriveLateIs ==
  ASSUME TypeOK, NEW request \in late, ArriveLate(request)
  PROVE  /\ request[1] \in Sessions /\ <<request[1], request[2]>> \in late /\ request[2] \in BOOLEAN
         /\ \A c \in Sessions \ {request[1]} : web'[c] = web[c]
         /\ web[request[1]] = "deleted" => web'[request[1]] = "deleted"
         /\ overtaken' = overtaken \cup {request[1]} /\ late' = late \ {request}
         /\ flight' = flight
<1>1. request[1] \in Sessions /\ request[2] \in BOOLEAN /\ request = <<request[1], request[2]>>
  BY DEF TypeOK
<1> QED BY <1>1, ShowIs DEF ArriveLate, memory

\* What stays in order when a late request arrives is another session.
LEMMA ArriveLateOrder ==
  ASSUME TypeOK, NEW request \in late, ArriveLate(request), NEW c, InOrder(c)'
  PROVE  c # request[1] /\ InOrder(c)
<1>1. overtaken' = overtaken \cup {request[1]} /\ late' = late \ {request}
  BY ArriveLateIs
<1>2. c \notin overtaken' /\ \A shared \in BOOLEAN : <<c, shared>> \notin late'
  BY DEF InOrder
<1>3. c # request[1] /\ c \notin overtaken
  BY <1>1, <1>2
<1>4. \A shared \in BOOLEAN : <<c, shared>> # request
  BY <1>3
<1>5. \A shared \in BOOLEAN : <<c, shared>> \notin late
  BY <1>1, <1>2, <1>4
<1> QED BY <1>3, <1>5 DEF InOrder

\* The web deletes one session.
LEMMA DeleteOnWebIs ==
  ASSUME TypeOK, NEW s \in Sessions, DeleteOnWeb(s)
  PROVE  /\ web[s] \in {"shared", "unshared"} /\ web'[s] = "deleted"
         /\ \A c \in Sessions \ {s} : web'[c] = web[c]
         /\ UNCHANGED <<late, overtaken, flight>>
BY DEF DeleteOnWeb, TypeOK, memory

\* A publication starts a request and changes nothing else outside.
LEMMA PublishOutside ==
  ASSUME NEW s \in Sessions, Publish(s)
  PROVE  UNCHANGED <<web, late, overtaken>>
BY DEF Publish, outside

\* What is new on its way, or shown, was published.
LEMMA SentNext ==
  ASSUME TypeOK, SharingAssumption, ConnectionInv, [Next]_vars, NEW c \in Sessions, Sent(c)'
  PROVE  Sent(c) \/ Publish(c)
<1>1. CASE Local
  BY <1>1, LocalIs DEF Sent, Travels
<1>2. CASE GivenUp
  <2>1. \A shared \in BOOLEAN : <<c, shared>> \in late' => Travels(c)
    BY <1>2, GivenUpIs DEF Travels
  <2> QED BY <1>2, <2>1, GivenUpIs DEF Sent, Travels
<1>3. CASE Logout \/ Drop \/ Stop
  BY <1>3, LosesConnectionIs, StaleType DEF Sent, Travels
<1>4. CASE Arrive
  BY <1>4, ArriveIs DEF Sent, Travels
<1>5. ASSUME NEW s \in Sessions, Publish(s)
      PROVE  Sent(c) \/ Publish(c)
  BY <1>5, PublishOutside, PublishIs DEF Sent, Travels
<1>6. ASSUME NEW s \in Sessions, DeleteOnWeb(s)
      PROVE  Sent(c) \/ Publish(c)
  BY <1>6, DeleteOnWebIs DEF Sent, Travels
<1>7. ASSUME NEW request \in late, ArriveLate(request)
      PROVE  Sent(c) \/ Publish(c)
  BY <1>7, ArriveLateIs DEF Sent, Travels
<1> QED BY OutsideSteps, <1>1, <1>2, <1>3, <1>4, <1>5, <1>6, <1>7

\* The record says that something may have been sent.
Remembers(r) == Has(r) /\ Attempted(r)

\* The record of a session that lives does not forget an attempt.
LEMMA RemembersNext ==
  ASSUME TypeOK, TypeOK', SharingAssumption, FamilyInv, ConnectionInv, [Next]_vars,
         NEW c \in Sessions, c \in alive', Remembers(record[c])
  PROVE  Remembers(record'[c]) /\ c \in alive
<1>1. ASSUME Has(record'[c]), record'[c].host = record[c].host
      PROVE  Remembers(record'[c])
  BY <1>1 DEF Remembers, Attempted
<1>2. Has(record[c]) /\ RecordOf(record, c) = record[c]
  BY DEF Remembers, RecordOf
<1>3. CASE Quiet
  BY <1>1, <1>2, <1>3, QuietIs DEF CrashInDelete
<1>4. ASSUME NEW s \in Sessions, ShareOn(s)
      PROVE  Remembers(record'[c]) /\ c \in alive
  <2>1. c # Root => Has(record'[c])
    BY <1>2, <1>4, ShareOnIs DEF SameDecision
  <2> QED BY <1>1, <1>2, <1>4, <2>1, ShareOnIs DEF ShareOn
<1>5. ASSUME NEW s \in Sessions, NEW done \in SUBSET SharedNow, TurnOff(s, done)
      PROVE  Remembers(record'[c]) /\ c \in alive
  BY <1>1, <1>2, <1>5, TurnOffIs DEF TurnOff
<1>6. ASSUME NEW s \in Sessions, Delete(s)
      PROVE  Remembers(record'[c]) /\ c \in alive
  <2>1. RemoveLocal(Family(s) \cap alive, FALSE) /\ Family(s) \cap alive \in SUBSET Sessions
    BY <1>6 DEF Delete, TypeOK
  <2>2. c \in alive /\ c \notin Family(s) \cap alive
    BY <1>6 DEF Delete
  <2>3. record'[c] = record[c]
    BY <2>1, <2>2, RemoveIs
  <2> QED BY <2>2, <2>3
<1>7. ASSUME NEW s \in Sessions, Backfill(s)
      PROVE  Remembers(record'[c]) /\ c \in alive
  <2>1. c = s => Has(record'[c]) /\ record'[c].host = record[c].host
    BY <1>2, <1>7, BackfillIs DEF SameDecision
  <2>2. c # s => record'[c] = record[c]
    BY <1>7, BackfillIs
  <2> QED BY <1>1, <1>7, <2>1, <2>2 DEF Backfill
<1>8. ASSUME NEW s \in Sessions, Publish(s)
      PROVE  Remembers(record'[c]) /\ c \in alive
  BY <1>8, PublishIs DEF Publish, Remembers
<1>9. ASSUME NEW s \in Sessions, Discover(s)
      PROVE  Remembers(record'[c]) /\ c \in alive
  <2>1. RemoveLocal({s}, FALSE) /\ {s} \in SUBSET Sessions /\ c \in alive /\ c \notin {s}
    BY <1>9 DEF Discover
  <2>2. record'[c] = record[c]
    BY <2>1, RemoveIs
  <2> QED BY <2>1, <2>2
<1>10. ASSUME NEW default \in Defaults, ShareDefault(default)
       PROVE  Remembers(record'[c]) /\ c \in alive
  <2>1. record' = Reconciled(share, default) /\ alive' = alive /\ share \in Defaults
    BY <1>10 DEF ShareDefault, Reconcile, TypeOK
  <2> QED BY <1>1, <1>2, <2>1, ReconcileIs
<1>11. CASE MarkWebCreated
  BY <1>1, <1>2, <1>11, MarkIs DEF MarkWebCreated
<1>12. CASE Login
  BY <1>1, <1>2, <1>12, LoginIs
<1>13. CASE Acknowledge
  <2>1. alive' = alive /\ flight.session \in Sessions /\ flight.shared \in BOOLEAN
    BY <1>13, FlightIs DEF Acknowledge
  <2>2. CASE flight.session \in alive
    BY <1>13, <2>1, <2>2, AcknowledgeIs DEF Remembers
  <2>3. CASE flight.session \notin alive
    <3>1. RemoveLocal({flight.session}, ~flight.shared)
      BY <1>13, <2>3 DEF Acknowledge
    <3>2. record'[c] = record[c]
      <4>1. {flight.session} \in SUBSET Sessions /\ c \in Sessions \ {flight.session}
        BY <2>1, <2>3
      <4> QED BY <2>1, <3>1, <4>1, RemoveIs
    <3> QED BY <2>1, <3>2
  <2> QED BY <2>2, <2>3
<1>14. CASE Terminate
  BY <1>1, <1>2, <1>14, TerminateIs DEF Terminate
<1>15. ASSUME NEW h \in Hosts, Connect(h)
       PROVE  Remembers(record'[c]) /\ c \in alive
  BY <1>1, <1>15, ConnectIs DEF Connect
<1>16. ASSUME NEW s \in Sessions, ShareOff(s)
       PROVE  Remembers(record'[c]) /\ c \in alive
  BY <1>5, <1>16 DEF ShareOff
<1>17. ASSUME NEW s \in Sessions, NEW done \in SUBSET SharedNow, CrashInOff(s, done)
       PROVE  Remembers(record'[c]) /\ c \in alive
  BY <1>5, <1>17 DEF CrashInOff
<1> QED BY Steps, <1>3, <1>4, <1>6, <1>7, <1>8, <1>9, <1>10, <1>11, <1>12, <1>13, <1>14, <1>15, <1>16, <1>17

\* Sessions only go.
LEMMA AliveShrinks ==
  ASSUME [Next]_vars
  PROVE  alive' \subseteq alive
<1>1. ASSUME NEW s \in Sessions, ShareOff(s)
      PROVE  alive' = alive
  BY <1>1 DEF ShareOff, TurnOff
<1>2. ASSUME NEW s \in Sessions, NEW done \in SUBSET SharedNow, CrashInOff(s, done)
      PROVE  alive' = alive
  BY <1>2 DEF CrashInOff, TurnOff
<1>3. ASSUME NEW s \in Sessions, ShareOn(s) \/ Delete(s) \/ Backfill(s) \/ Publish(s) \/ Discover(s)
      PROVE  alive' \subseteq alive
  BY <1>3 DEF ShareOn, Delete, Backfill, Publish, Discover
<1>4. CASE Quiet
  BY <1>4, QuietIs DEF CrashInDelete
<1>5. CASE MarkWebCreated \/ Login \/ Acknowledge \/ Terminate
  BY <1>5 DEF MarkWebCreated, Login, Acknowledge, Terminate
<1> QED BY Steps, <1>1, <1>2, <1>3, <1>4, <1>5 DEF ShareDefault, Connect

\* Every step preserves SentInv.
LEMMA SentStep ==
  ASSUME TypeOK, TypeOK', SharingAssumption, FamilyInv, ConnectionInv, SentInv, [Next]_vars
  PROVE  SentInv'
<1> SUFFICES ASSUME NEW c \in alive', Sent(c)'
             PROVE  Remembers(record'[c])
  BY DEF SentInv, Remembers
<1>1. c \in alive /\ c \in Sessions
  BY AliveShrinks DEF TypeOK
<1>2. CASE Sent(c)
  BY <1>1, <1>2, RemembersNext DEF SentInv, Remembers
<1>3. CASE Publish(c)
  BY <1>1, <1>3, PublishIs DEF Remembers
<1> QED BY <1>1, <1>2, <1>3, SentNext

\* What is known of an answer.
LEMMA AnswerStep ==
  ASSUME TypeOK, SharingAssumption, ConnectionInv, AnswerInv, [Next]_vars
  PROVE  AnswerInv'
<1>1. CASE Local
  BY <1>1, LocalIs DEF AnswerInv, InOrder
<1>2. CASE GivenUp
  BY <1>2, GivenUpIs DEF AnswerInv
<1>3. CASE Logout \/ Drop \/ Stop
  BY <1>3, LosesConnectionIs, StaleType DEF AnswerInv, InOrder
<1>4. CASE Arrive
  BY <1>4, ArriveIs DEF AnswerInv
<1>5. ASSUME NEW s \in Sessions, Publish(s)
      PROVE  AnswerInv'
  BY <1>5, PublishIs DEF AnswerInv
<1>6. ASSUME NEW s \in Sessions, DeleteOnWeb(s)
      PROVE  AnswerInv'
  <2>1. flight # NoFlight => flight.session \in Sessions
    BY FlightIs
  <2> QED BY <1>6, <2>1, DeleteOnWebIs DEF AnswerInv, InOrder
<1>7. ASSUME NEW request \in late, ArriveLate(request)
      PROVE  AnswerInv'
  <2>1. flight # NoFlight => flight.session \in Sessions
    BY FlightIs
  <2>2. \A c \in Sessions \ {request[1]} : InOrder(c)' => InOrder(c)
    BY <1>7, ArriveLateOrder
  <2>3. ~InOrder(request[1])'
    BY <1>7, ArriveLateOrder
  <2>4. /\ flight' = flight /\ \A c \in Sessions \ {request[1]} : web'[c] = web[c]
        /\ web[request[1]] = "deleted" => web'[request[1]] = "deleted"
    BY <1>7, ArriveLateIs
  <2> QED BY <2>1, <2>2, <2>3, <2>4 DEF AnswerInv
<1> QED BY OutsideSteps, <1>1, <1>2, <1>3, <1>4, <1>5, <1>6, <1>7

-----------------------------------------------------------------------------
(* What is forgotten *)

\* The steps that change nobody's choice.
Steady ==
  \/ \E s \in Sessions : Backfill(s) \/ Publish(s) \/ Discover(s)
  \/ \E default \in Defaults : ShareDefault(default)
  \/ Login \/ Acknowledge

\* Steady steps decide as before.
LEMMA SteadyIs ==
  ASSUME TypeOK, SharingAssumption, FamilyInv, ConnectionInv,
         Steady \/ (record' = record /\ alive' = alive)
  PROVE  alive' = alive /\ \A c \in alive : SameDecision(record[c], record'[c])
<1> DEFINE Goal == alive' = alive /\ \A c \in alive : SameDecision(record[c], record'[c])
<1>1. \A c \in alive : c \in Sessions /\ SameDecision(record[c], record[c])
  BY RecordIs, SameIsSame DEF TypeOK
<1>2. CASE record' = record /\ alive' = alive
  BY <1>1, <1>2
<1>3. ASSUME NEW s \in Sessions, Backfill(s)
      PROVE  Goal
  <2>1. \A c \in alive \ {s} : record'[c] = record[c]
    BY <1>1, <1>3, BackfillIs
  <2> QED BY <1>1, <1>3, <2>1, BackfillIs DEF Backfill
<1>4. ASSUME NEW s \in Sessions, Publish(s)
      PROVE  Goal
  <2>1. \A c \in alive \ {s} : record'[c] = record[c]
    BY <1>1, <1>4, PublishIs
  <2> QED BY <1>1, <1>4, <2>1, PublishIs DEF Publish
<1>5. ASSUME NEW s \in Sessions, Discover(s)
      PROVE  Goal
  <2>1. RemoveLocal({s}, FALSE) /\ {s} \in SUBSET Sessions /\ s \notin alive /\ alive' = alive
    BY <1>5 DEF Discover
  <2>2. \A c \in Sessions \ {s} : record'[c] = record[c]
    BY <2>1, RemoveIs
  <2> QED BY <1>1, <2>1, <2>2
<1>6. ASSUME NEW default \in Defaults, ShareDefault(default)
      PROVE  Goal
  <2>1. record' = Reconciled(share, default) /\ alive' = alive /\ share \in Defaults
    BY <1>6 DEF ShareDefault, Reconcile, TypeOK
  <2> QED BY <1>1, <2>1, ReconcileIs
<1>7. CASE Login
  BY <1>1, <1>7, LoginIs
<1>8. CASE Acknowledge
  <2>1. alive' = alive /\ flight.session \in Sessions /\ flight.shared \in BOOLEAN
    BY <1>8, FlightIs DEF Acknowledge
  <2>2. CASE flight.session \in alive
    <3>1. \A c \in alive \ {flight.session} : record'[c] = record[c]
      BY <1>1, <1>8, <2>2, AcknowledgeIs
    <3> QED BY <1>1, <1>8, <2>1, <2>2, <3>1, AcknowledgeIs
  <2>3. CASE flight.session \notin alive
    <3>1. RemoveLocal({flight.session}, ~flight.shared) /\ {flight.session} \in SUBSET Sessions
      BY <1>8, <2>1, <2>3 DEF Acknowledge
    <3>2. \A c \in Sessions \ {flight.session} : record'[c] = record[c]
      BY <2>1, <3>1, RemoveIs
    <3> QED BY <1>1, <2>1, <2>3, <3>2
  <2> QED BY <2>2, <2>3
<1> QED BY <1>2, <1>3, <1>4, <1>5, <1>6, <1>7, <1>8 DEF Steady

\* Steady steps change nobody's choice.
LEMMA SteadyChoices ==
  ASSUME TypeOK, TypeOK', SharingAssumption, FamilyInv, FamilyInv', ConnectionInv,
         Steady \/ (record' = record /\ alive' = alive), NEW c \in Sessions, NEW default
  PROVE  ChosenUnder(c, default)' <=> ChosenUnder(c, default)
<1>1. alive' = alive /\ \A d \in alive : SameDecision(record[d], record'[d])
  BY SteadyIs
<1>2. \A d \in alive : /\ Ended(record'[d]) <=> Ended(record[d])
                       /\ On(record'[d], default) <=> On(record[d], default)
  BY <1>1, RecordIs, NextRecordIs, SameDecisionIs DEF TypeOK
<1>3. c \in alive => Root \in alive
  BY DEF FamilyInv
<1> QED BY <1>1, <1>2, <1>3, ChosenIs, ChosenIsNext

\* The record of the root says the same of everybody under a choice made for it.
LEMMA ShareOnChoices ==
  ASSUME TypeOK, TypeOK', SharingAssumption, FamilyInv, FamilyInv',
         NEW s \in Sessions, ShareOn(s), NEW c \in Sessions, NEW default
  PROVE  ChosenUnder(c, default)' <=> c \in alive /\ (c = Root \/ ~Ended(record[c]))
<1>1. ~Ended(record'[Root]) /\ On(record'[Root], default) /\ Root \in alive
  BY ShareOnIs DEF Ended, On
<1>2. c # Root => (Ended(record'[c]) <=> Ended(record[c]))
  BY ShareOnIs, RecordIs, NextRecordIs, SameDecisionIs
<1>3. alive' = alive
  BY DEF ShareOn
<1> QED BY <1>1, <1>2, <1>3, ChosenIsNext

\* Turning off shares nobody.
LEMMA TurnOffChoices ==
  ASSUME TypeOK, TypeOK', SharingAssumption, FamilyInv, FamilyInv',
         NEW s \in Sessions, NEW done \in SUBSET SharedNow, TurnOff(s, done),
         NEW c \in Sessions, NEW default
  PROVE  ~ChosenUnder(c, default)'
<1>1. ~On(record'[Root], default)
  BY TurnOffIs DEF On
<1> QED BY <1>1, ChosenIsNext

\* A session created on the web unshares nobody.
LEMMA MarkChoices ==
  ASSUME TypeOK, TypeOK', SharingAssumption, FamilyInv, FamilyInv', MarkWebCreated,
         NEW c \in Sessions, NEW default
  PROVE  ChosenUnder(c, default)' <=> c \in alive /\ ~Ended(record[c]) /\ ~Ended(record[Root])
<1>1. On(record'[Root], default) /\ (Ended(record'[Root]) <=> Ended(record[Root]))
  BY MarkIs DEF On
<1>2. Ended(record'[c]) <=> Ended(record[c])
  BY <1>1, MarkIs
<1>3. alive' = alive
  BY DEF MarkWebCreated
<1> QED BY <1>1, <1>2, <1>3, ChosenIsNext

\* A deletion leaves those that live as they were.
LEMMA DeleteChoices ==
  ASSUME TypeOK, TypeOK', SharingAssumption, FamilyInv, FamilyInv',
         NEW s \in Sessions, Delete(s) \/ CrashInDelete(s), NEW c \in Sessions, NEW default
  PROVE  ChosenUnder(c, default)' <=> c \in alive' /\ ChosenUnder(c, default)
<1>1. alive' \subseteq alive /\ (c \in alive' => Root \in alive')
  BY DEF Delete, CrashInDelete, FamilyInv
<1>2. \A d \in alive' : d \in Sessions /\ record'[d] = record[d]
  <2>1. CASE Delete(s)
    <3>1. /\ RemoveLocal(Family(s) \cap alive, FALSE) /\ Family(s) \cap alive \in SUBSET Sessions
          /\ alive' = alive \ Family(s)
      BY <2>1 DEF Delete, TypeOK
    <3>2. \A d \in Sessions \ (Family(s) \cap alive) : record'[d] = record[d]
      BY <3>1, RemoveIs
    <3> QED BY <3>1, <3>2 DEF TypeOK
  <2>2. CASE CrashInDelete(s)
    BY <1>1, <2>2 DEF CrashInDelete, TypeOK
  <2> QED BY <2>1, <2>2
<1> QED BY <1>1, <1>2, ChosenIs, ChosenIsNext DEF SharingAssumption

\* Ending records takes their sessions, and those of a root that ends, away.
Ends(ended) ==
  /\ \A c \in ended : c \in alive => Ended(record'[c])
  /\ \A c \in Sessions \ ended : record'[c] = record[c]
  /\ alive' = alive

\* A connection ends the sessions it fences.
LEMMA ConnectEnds ==
  ASSUME TypeOK, SharingAssumption, NEW h \in Hosts, Connect(h)
  PROVE  Ends(Fenced(h)) /\ Fenced(h) \subseteq Sessions
<1>1. Fenced(h) \subseteq Sessions /\ alive' = alive
  BY DEF Fenced, Connect
<1>2. \A c \in Fenced(h) : Ended(record'[c])
  BY ConnectIs
<1>3. \A c \in Sessions \ Fenced(h) : record'[c] = record[c]
  BY ConnectIs
<1> QED BY <1>1, <1>2, <1>3 DEF Ends

\* The web's deletion ends one session.
LEMMA TerminateEnds ==
  ASSUME TypeOK, SharingAssumption, Terminate
  PROVE  Ends({flight.session}) /\ flight.session \in Sessions
<1> DEFINE s == flight.session
<1>1. s \in Sessions /\ alive' = alive
  BY TerminateIs DEF Terminate
<1>2. /\ s \in alive => Ended(record'[s])
      /\ \A c \in Sessions \ {s} : record'[c] = record[c]
  BY TerminateIs
<1> QED BY <1>1, <1>2 DEF Ends

\* What ends is no longer shared; with a root it is all of its children.
LEMMA EndsChoices ==
  ASSUME TypeOK, TypeOK', SharingAssumption, FamilyInv, FamilyInv', NEW ended \in SUBSET Sessions,
         Ends(ended), NEW c \in Sessions, NEW default \in Defaults
  PROVE  /\ ChosenUnder(c, default)' => ChosenUnder(c, default) /\ c \notin ended /\ Root \notin ended
         /\ ChosenUnder(c, default) /\ c \notin ended /\ Root \notin ended => ChosenUnder(c, default)'
<1>1. Root \in Sessions /\ (c \in alive => Root \in alive) /\ alive' = alive
  BY DEF SharingAssumption, FamilyInv, Ends
<1>2. ChosenUnder(c, default)' => c \notin ended /\ Root \notin ended
  BY <1>1, ChosenIsNext DEF Ends
<1>3. c \notin ended /\ Root \notin ended => record'[c] = record[c] /\ record'[Root] = record[Root]
  BY <1>1 DEF Ends
<1> QED BY <1>1, <1>2, <1>3, ChosenIs, ChosenIsNext

\* What is forgotten stays so until it is shared again.
LEMMA StillForgottenIs ==
  ASSUME NEW lost, NEW c
  PROVE  c \in StillForgotten(lost) <=> c \in forgotten \cup lost /\ ~ChosenUnder(c, share)'
BY DEF StillForgotten, ChosenUnder

\* What some default shares, the default "all" shares.
LEMMA MonotoneChoice ==
  ASSUME NEW c \in Sessions, NEW default \in Defaults, ChosenUnder(c, default)
  PROVE  ChosenUnder(c, "all")
BY Monotone DEF ChosenUnder

\* What is forgotten stays out of everybody's choice.
LEMMA ForgottenStep ==
  ASSUME TypeOK, TypeOK', SharingAssumption, FamilyInv, FamilyInv', ConnectionInv,
         ForgottenInv, [Next]_vars
  PROVE  ForgottenInv'
<1>1. /\ forgotten \subseteq Sessions /\ forgotten' \subseteq Sessions
      /\ share' \in Defaults /\ "all" \in Defaults
  BY DEF TypeOK, Defaults
<1>2. ASSUME \A c \in forgotten' : c \in forgotten /\ (ChosenUnder(c, "all")' => ChosenUnder(c, "all"))
      PROVE  ForgottenInv'
  BY <1>2 DEF ForgottenInv
<1>3. ASSUME Steady \/ (record' = record /\ alive' = alive), forgotten' \subseteq forgotten
      PROVE  ForgottenInv'
  BY <1>1, <1>2, <1>3, SteadyChoices
<1>4. \A c : c \in StillForgotten({}) => c \in forgotten
  BY StillForgottenIs
<1>5. CASE Quiet
  <2>1. ASSUME NEW s \in Sessions, CrashInDelete(s)
        PROVE  ForgottenInv'
    <3>1. \A c \in forgotten' : c \in forgotten \/ c \in Family(s)
      BY <2>1, StillForgottenIs DEF CrashInDelete
    <3>2. \A c \in Family(s) : c \notin alive'
      BY <2>1 DEF CrashInDelete
    <3> QED BY <1>1, <2>1, <3>1, <3>2, DeleteChoices DEF ForgottenInv, ChosenUnder
  <2>2. ASSUME ~\E s \in Sessions : CrashInDelete(s)
        PROVE  ForgottenInv'
    <3>1. record' = record /\ alive' = alive
      BY <1>5, <2>2, QuietIs
    <3>2. forgotten' \subseteq forgotten
      BY <1>4, <1>5, <2>2 DEF Quiet, Change, DeleteOnWeb, CrashInBackfill, Logout, Drop, Stop, Arrive, Ignore,
        TimeOut, Refuse, Crash, ArriveLate, vars
    <3> QED BY <1>3, <3>1, <3>2
  <2> QED BY <2>1, <2>2
<1>6. ASSUME NEW s \in Sessions, ShareOn(s)
      PROVE  ForgottenInv'
  <2>1. \A c \in forgotten' : ~ChosenUnder(c, share)'
    BY <1>6, StillForgottenIs DEF ShareOn
  <2> QED BY <1>1, <1>6, <2>1, ShareOnChoices DEF ForgottenInv
<1>7. ASSUME NEW s \in Sessions, NEW done \in SUBSET SharedNow, TurnOff(s, done)
      PROVE  ForgottenInv'
  BY <1>1, <1>7, TurnOffChoices DEF ForgottenInv
<1>8. ASSUME NEW s \in Sessions, Delete(s)
      PROVE  ForgottenInv'
  <2>1. forgotten' = forgotten
    BY <1>8 DEF Delete
  <2> QED BY <1>1, <1>2, <1>8, <2>1, DeleteChoices
<1>9. CASE MarkWebCreated
  <2>1. \A c \in forgotten' : ~ChosenUnder(c, share)'
    BY <1>9, StillForgottenIs DEF MarkWebCreated
  <2> QED BY <1>1, <1>9, <2>1, MarkChoices DEF ForgottenInv
<1>10. ASSUME NEW s \in Sessions, Backfill(s) \/ Publish(s) \/ Discover(s)
       PROVE  ForgottenInv'
  <2>1. forgotten' = forgotten
    BY <1>10 DEF Backfill, Publish, Discover
  <2> QED BY <1>3, <1>10, <2>1 DEF Steady
<1>11. ASSUME NEW default \in Defaults, ShareDefault(default)
       PROVE  ForgottenInv'
  <2>1. forgotten' \subseteq forgotten
    BY <1>4, <1>11 DEF ShareDefault
  <2> QED BY <1>3, <1>11, <2>1 DEF Steady
<1>12. CASE Login \/ Acknowledge
  <2>1. forgotten' \subseteq forgotten
    BY <1>4, <1>12 DEF Login, Acknowledge
  <2> QED BY <1>3, <1>12, <2>1 DEF Steady
<1>13. ASSUME NEW ended \in SUBSET Sessions, Ends(ended),
              \A c \in forgotten' : c \in forgotten \/ c \in ended \/ Root \in ended
       PROVE  ForgottenInv'
  BY <1>1, <1>13, EndsChoices DEF ForgottenInv
<1>14. CASE Terminate
  <2>1. \A c \in forgotten' : c \in forgotten \/ Root \in {flight.session}
    BY <1>14, StillForgottenIs DEF Terminate, Orphaned
  <2>2. Ends({flight.session}) /\ {flight.session} \in SUBSET Sessions
    BY <1>14, TerminateEnds
  <2> QED BY <1>13, <2>1, <2>2
<1>15. ASSUME NEW h \in Hosts, Connect(h)
       PROVE  ForgottenInv'
  <2>1. \A c \in forgotten' : c \in forgotten \/ c \in Fenced(h) \/ Root \in Fenced(h)
    BY <1>15, StillForgottenIs DEF Connect, Orphaned
  <2>2. Ends(Fenced(h)) /\ Fenced(h) \in SUBSET Sessions
    BY <1>15, ConnectEnds
  <2> QED BY <1>13, <2>1, <2>2
<1>16. ASSUME NEW s \in Sessions, ShareOff(s)
       PROVE  ForgottenInv'
  BY <1>7, <1>16 DEF ShareOff
<1>17. ASSUME NEW s \in Sessions, NEW done \in SUBSET SharedNow, CrashInOff(s, done)
       PROVE  ForgottenInv'
  BY <1>7, <1>17 DEF CrashInOff
<1> QED BY Steps, <1>5, <1>6, <1>8, <1>9, <1>10, <1>11, <1>12, <1>14, <1>15, <1>16, <1>17

-----------------------------------------------------------------------------
(* What is owed *)

\* Whoever is shown as shared after a step was before, or is published.
LEMMA ShowsNext ==
  ASSUME TypeOK, SharingAssumption, ConnectionInv, [Next]_vars, NEW c \in Sessions,
         InOrder(c)', Shows(c)'
  PROVE  InOrder(c) /\ (Shows(c) \/ (Publish(c) /\ IsShared(c)))
<1>1. CASE Local
  BY <1>1, LocalIs DEF Shows, InOrder
<1>2. CASE GivenUp
  BY <1>2, GivenUpIs DEF Shows, InOrder
<1>3. CASE Logout \/ Drop \/ Stop
  BY <1>3, LosesConnectionIs, StaleType DEF Shows, InOrder
<1>4. CASE Arrive
  <2>1. InOrder(c)
    BY <1>4, ArriveIs DEF InOrder
  <2>2. flight'.reply # "none"
    BY <1>4, ArriveIs
  <2>3. web'[c] = "shared"
    BY <2>2 DEF Shows
  <2> QED BY <1>4, <2>1, <2>3, ArriveIs DEF Shows
<1>5. ASSUME NEW s \in Sessions, Publish(s)
      PROVE  InOrder(c) /\ (Shows(c) \/ (Publish(c) /\ IsShared(c)))
  <2>1. InOrder(c) /\ web' = web
    BY <1>5, PublishOutside DEF InOrder
  <2>2. flight'.session = s /\ flight'.shared = IsShared(s)
    BY <1>5, PublishIs
  <2> QED BY <1>5, <2>1, <2>2 DEF Shows
<1>6. ASSUME NEW s \in Sessions, DeleteOnWeb(s)
      PROVE  InOrder(c) /\ (Shows(c) \/ (Publish(c) /\ IsShared(c)))
  BY <1>6, DeleteOnWebIs DEF Shows, InOrder
<1>7. ASSUME NEW request \in late, ArriveLate(request)
      PROVE  InOrder(c) /\ (Shows(c) \/ (Publish(c) /\ IsShared(c)))
  <2>1. InOrder(c) /\ c # request[1] /\ web'[c] = web[c] /\ flight' = flight
    BY <1>7, ArriveLateIs, ArriveLateOrder
  <2> QED BY <2>1 DEF Shows
<1> QED BY OutsideSteps, <1>1, <1>2, <1>3, <1>4, <1>5, <1>6, <1>7

\* Every step preserves OwedInv.
LEMMA OwedStep ==
  ASSUME TypeOK, TypeOK', SharingAssumption, FamilyInv, FamilyInv', ConnectionInv, AnswerInv,
         SentInv, ForgottenInv, ForgottenInv', OwedInv, [Next]_vars
  PROVE  OwedInv'
<1> SUFFICES ASSUME NEW c \in Sessions, c \notin forgotten', InOrder(c)', Shows(c)'
             PROVE  Cleared(c)'
  BY DEF OwedInv
<1>1. /\ InOrder(c) /\ (Shows(c) \/ (Publish(c) /\ IsShared(c)))
      /\ share \in Defaults /\ share' \in Defaults /\ applied \in Defaults /\ applied' \in Defaults
      /\ record[c] \in RecordType \cup {NoRecord} /\ record'[c] \in RecordType \cup {NoRecord}
      /\ c \in alive => Root \in alive
  BY ShowsNext, RecordIs, NextRecordIs DEF TypeOK, FamilyInv
\* A publication of a session that is shared.
<1>2. CASE Publish(c) /\ IsShared(c)
  <2>1. /\ connected /\ ~Ended(record[c]) /\ c \in alive /\ ChosenUnder(c, share)
        /\ SameDecision(record[c], record'[c])
    BY <1>2, PublishIs, SharedNowIs DEF ChosenUnder
  <2>2. applied' = share
    BY <1>2, <2>1 DEF ConnectionInv, Publish
  <2>3. ~Ended(record'[c])
    BY <1>1, <2>1, SameDecisionIs
  <2>4. ChosenUnder(c, share)'  <=> ChosenUnder(c, applied)'
    BY <1>2, <2>2 DEF Publish
  <2>5. Steady
    BY <1>2 DEF Steady
  <2>6. ChosenUnder(c, share)'
    <3>1. share' = share
      BY <1>2 DEF Publish
    <3>2. \A default : ChosenUnder(c, default)' <=> ChosenUnder(c, default)
      BY <2>5, SteadyChoices
    <3> QED BY <2>1, <3>1, <3>2 DEF ChosenUnder
  <2> QED BY <2>3, <2>4, <2>6 DEF Cleared
<1> SUFFICES ASSUME Shows(c)
             PROVE  Cleared(c)'
  BY <1>1, <1>2
<1>3. c \in alive => Has(record[c]) /\ Attempted(record[c])
  BY DEF SentInv, Sent, Shows, Travels
<1>4. c \notin forgotten => Cleared(c)
  BY <1>1 DEF OwedInv
<1>5. \A default \in Defaults : c \in forgotten => ~ChosenUnder(c, default)
  BY MonotoneChoice DEF ForgottenInv
\* What is not forgotten any more is shared again.
<1>6. ASSUME NEW lost, forgotten' = StillForgotten(lost)
      PROVE  /\ c \in forgotten \cup lost => ChosenUnder(c, share)'
             /\ ~ChosenUnder(c, share)' => c \notin forgotten \cup lost
  BY <1>6, StillForgottenIs
\* The steps that change nobody's choice.
<1>7. ASSUME Steady \/ (record' = record /\ alive' = alive)
      PROVE  /\ \A default : ChosenUnder(c, default)' <=> ChosenUnder(c, default)
             /\ c \in forgotten => ~ChosenUnder(c, share)'
             /\ alive' = alive
  BY <1>1, <1>5, <1>7, SteadyChoices, SteadyIs
<1>8. ASSUME c \notin forgotten, alive' = alive, applied' = applied,
             \A default : ChosenUnder(c, default)' <=> ChosenUnder(c, default),
             ~Ended(record[c]) => ~Ended(record'[c]),
             Has(record[c]) /\ Attempted(record[c]) => Has(record'[c]) /\ Attempted(record'[c]),
             Owes(c) /\ ~Ended(record[c]) => record'[c].unsharedPending
      PROVE  Cleared(c)'
  BY <1>4, <1>8 DEF Cleared, Owes
<1>9. CASE Quiet
  <2>1. record' = record /\ applied' = applied
    <3>1. applied' = applied
      BY <1>9 DEF Quiet, Change, DeleteOnWeb, CrashInBackfill, CrashInDelete, Logout, Drop, Stop, Arrive,
        Ignore, TimeOut, Refuse, Crash, ArriveLate, vars, durable
    <3> QED BY <1>9, <3>1, QuietIs
  <2>2. ASSUME NEW s \in Sessions, CrashInDelete(s)
        PROVE  Cleared(c)'
    <3> DEFINE lost == {d \in Family(s) : Has(record[d]) /\ Attempted(record[d])}
    <3>1. forgotten' = StillForgotten(lost) /\ alive' = alive \ Family(s)
      BY <2>2 DEF CrashInDelete
    <3>2. \A default : ChosenUnder(c, default)' <=> c \in alive' /\ ChosenUnder(c, default)
      BY <2>2, DeleteChoices
    <3>3. c \notin forgotten /\ c \notin lost
      <4>1. c \in lost => c \notin alive'
        BY <3>1
      <4> QED BY <1>5, <1>1, <1>6, <3>1, <3>2, <4>1
    <3>4. c \in alive => c \in alive'
      BY <1>3, <3>1, <3>3
    <3>5. \A default : ChosenUnder(c, default)' <=> ChosenUnder(c, default)
      BY <3>2, <3>4 DEF ChosenUnder
    <3> QED BY <1>4, <2>1, <3>3, <3>5 DEF Cleared, Owes
  <2>3. ASSUME ~\E s \in Sessions : CrashInDelete(s)
        PROVE  Cleared(c)'
    <3>1. alive' = alive
      BY <1>9, <2>3, QuietIs
    <3>2. forgotten' = forgotten \/ forgotten' = StillForgotten({})
      BY <1>9, <2>3 DEF Quiet, Change, DeleteOnWeb, CrashInBackfill, Logout, Drop, Stop, Arrive, Ignore,
        TimeOut, Refuse, Crash, ArriveLate, vars
    <3>3. c \notin forgotten
      BY <1>6, <1>7, <2>1, <3>1, <3>2
    <3> QED BY <1>7, <1>8, <2>1, <3>1, <3>3 DEF Owes
  <2> QED BY <2>2, <2>3
<1>10. ASSUME NEW s \in Sessions, ShareOn(s)
       PROVE  Cleared(c)'
  <2>1. /\ Root \in alive /\ ~Ended(record'[Root]) /\ alive' = alive
        /\ c # Root => /\ Ended(record'[c]) <=> Ended(record[c])
                       /\ c \notin alive => record'[c] = record[c]
    BY <1>1, <1>10, ShareOnIs, SameDecisionIs DEF ShareOn, Ended
  <2>2. \A default : ChosenUnder(c, default)' <=> c \in alive /\ (c = Root \/ ~Ended(record[c]))
    BY <1>10, ShareOnChoices
  <2>3. CASE c \in forgotten
    <3>1. ChosenUnder(c, share)'
      BY <1>6, <1>10, <2>3 DEF ShareOn
    <3> QED BY <2>1, <2>2, <3>1 DEF Cleared
  <2>4. CASE c \notin forgotten
    <3>1. ~Ended(record[c]) /\ (c \notin alive => Owes(c))
      BY <1>4, <2>4 DEF Cleared, ChosenUnder
    <3>2. c \in alive => ChosenUnder(c, applied)'
      BY <2>2, <3>1
    <3> QED BY <2>1, <3>1, <3>2 DEF Cleared, Owes
  <2> QED BY <2>3, <2>4
<1>11. ASSUME NEW s \in Sessions, NEW done \in SUBSET SharedNow, TurnOff(s, done), c \notin forgotten,
              ChosenUnder(c, applied) =>
                c \in done \/ ~Untold(c) \/ (c = Root /\ SharedUnder(record, s, configured, share))
       PROVE  Cleared(c)'
  <2>1. Cleared(c)
    BY <1>4, <1>11
  <2>2. /\ ~record'[Root].terminal
        /\ Has(record[c]) => Has(record'[c]) /\ record'[c].host = record[c].host
        /\ Owes(c) /\ ~record[c].terminal => record'[c].unsharedPending
        /\ c # Root => SameDecision(record[c], record'[c])
        /\ c \notin alive => record'[c] = record[c]
    BY <1>11, TurnOffIs DEF Owes
  <2>3. ~Ended(record'[c])
    BY <1>1, <2>1, <2>2, SameDecisionIs DEF Cleared, Ended
  <2>4. Has(record'[c]) /\ Attempted(record'[c])
    BY <1>3, <2>1, <2>2 DEF Cleared, Owes, ChosenUnder, Attempted
  <2>5. record'[c].unsharedPending
    <3>1. CASE ChosenUnder(c, applied)
      <4>1. Has(record[c]) /\ Attempted(record[c]) /\ ~Ended(record[c])
        BY <1>3, <2>1, <3>1 DEF ChosenUnder, Cleared
      <4> QED BY <1>11, <3>1, <4>1, TurnOffOwes
    <3>2. CASE ~ChosenUnder(c, applied)
      BY <2>1, <2>2, <3>2 DEF Cleared, Owes, Ended
    <3> QED BY <3>1, <3>2
  <2> QED BY <2>3, <2>4, <2>5 DEF Cleared, Owes
<1>12. CASE MarkWebCreated
  <2>1. /\ Root \in alive /\ c # Root => record'[c] = record[c]
        /\ Ended(record'[c]) <=> Ended(record[c])
    BY <1>12, MarkIs
  <2>2. \A default : ChosenUnder(c, default)' <=> c \in alive /\ ~Ended(record[c]) /\ ~Ended(record[Root])
    BY <1>12, MarkChoices
  <2>3. CASE c \in forgotten
    <3>1. ChosenUnder(c, share)'
      BY <1>6, <1>12, <2>3 DEF MarkWebCreated
    <3> QED BY <2>1, <2>2, <3>1 DEF Cleared
  <2>4. CASE c \notin forgotten
    <3>1. ~Ended(record[c]) /\ (~ChosenUnder(c, applied) => Owes(c))
      BY <1>4, <2>4 DEF Cleared
    <3>2. CASE ChosenUnder(c, applied)'
      BY <2>1, <3>1, <3>2 DEF Cleared
    <3>3. CASE ~ChosenUnder(c, applied)'
      <4>1. c # Root /\ record'[c] = record[c]
        BY <1>12, <2>1, <2>2, <3>1, <3>3, MarkIs
      <4>2. ~ChosenUnder(c, applied)
        BY <2>2, <3>1, <3>3, ChosenIs
      <4> QED BY <2>1, <3>1, <4>1, <4>2 DEF Cleared, Owes
    <3> QED BY <3>2, <3>3
  <2> QED BY <2>3, <2>4
<1>13. ASSUME NEW s \in Sessions, Delete(s)
       PROVE  Cleared(c)'
  <2> DEFINE gone == Family(s) \cap alive
  <2>1. /\ RemoveLocal(gone, FALSE) /\ gone \in SUBSET Sessions /\ forgotten' = forgotten
        /\ alive' = alive \ Family(s) /\ applied' = applied
    BY <1>13 DEF Delete, TypeOK
  <2>2. Cleared(c)
    BY <1>4, <2>1
  <2>3. CASE c \in gone
    <3>1. /\ Has(record[c]) /\ Attempted(record[c]) /\ ~Ended(record[c])
      BY <1>3, <2>2, <2>3 DEF Cleared
    <3>2. Owes(c)' /\ ~Ended(record'[c])
      BY <2>1, <2>3, <3>1, RemoveIs DEF Owes
    <3> QED BY <3>2 DEF Cleared
  <2>4. CASE c \notin gone
    <3>1. record'[c] = record[c]
      BY <2>1, <2>4, RemoveIs
    <3>2. c \in alive => c \in alive'
      BY <2>1, <2>4
    <3>3. \A default : ChosenUnder(c, default)' <=> ChosenUnder(c, default)
      BY <1>13, <3>2, DeleteChoices DEF ChosenUnder
    <3> QED BY <2>1, <2>2, <3>1, <3>3 DEF Cleared, Owes
  <2> QED BY <2>3, <2>4
<1>14. ASSUME NEW s \in Sessions, Backfill(s)
       PROVE  Cleared(c)'
  <2>1. forgotten' = forgotten /\ applied' = applied
    BY <1>14 DEF Backfill
  <2>2. CASE c = s
    <3>1. Has(record[c]) /\ RecordOf(record, c) = record[c]
      BY <1>3, <1>14, <2>2, BackfillIs DEF RecordOf
    <3>2. /\ Has(record'[c]) /\ record'[c].host = record[c].host
          /\ record'[c].unsharedPending = record[c].unsharedPending
          /\ Ended(record'[c]) <=> Ended(record[c])
      BY <1>1, <1>14, <2>2, <3>1, BackfillIs, SameDecisionIs DEF SameDecision
    <3> QED BY <1>7, <1>8, <1>14, <2>1, <3>2 DEF Steady, Owes, Attempted
  <2>3. CASE c # s
    <3>1. record'[c] = record[c]
      BY <1>14, <2>3, BackfillIs
    <3> QED BY <1>7, <1>8, <1>14, <2>1, <3>1 DEF Steady, Owes
  <2> QED BY <2>2, <2>3
<1>15. ASSUME NEW s \in Sessions, Publish(s)
       PROVE  Cleared(c)'
  <2>1. forgotten' = forgotten /\ applied' = applied
    BY <1>15 DEF Publish
  <2>2. CASE c = s
    <3>1. /\ Has(record'[c]) /\ Attempted(record'[c])
          /\ Has(record[c]) /\ record[c].unsharedPending => record'[c].unsharedPending
          /\ c \in alive => SameDecision(record[c], record'[c])
          /\ c \notin alive => ~Ended(record'[c])
      BY <1>15, <2>2, PublishIs
    <3>2. ~Ended(record[c]) => ~Ended(record'[c])
      BY <1>1, <3>1, SameDecisionIs
    <3> QED BY <1>7, <1>8, <1>15, <2>1, <3>1, <3>2 DEF Steady, Owes
  <2>3. CASE c # s
    <3>1. record'[c] = record[c]
      BY <1>15, <2>3, PublishIs
    <3> QED BY <1>7, <1>8, <1>15, <2>1, <3>1 DEF Steady, Owes
  <2> QED BY <2>2, <2>3
<1>16. ASSUME NEW s \in Sessions, Discover(s)
       PROVE  Cleared(c)'
  <2>1. /\ forgotten' = forgotten /\ applied' = applied /\ alive' = alive
        /\ RemoveLocal({s}, FALSE) /\ {s} \in SUBSET Sessions /\ s \notin alive
    BY <1>16 DEF Discover
  <2>2. Cleared(c)
    BY <1>4, <2>1
  <2>3. CASE c = s
    <3>1. Owes(c) /\ ~Ended(record[c])
      BY <2>1, <2>2, <2>3 DEF Cleared, ChosenUnder
    <3>2. Owes(c)' /\ ~Ended(record'[c])
      <4>1. c \in {s} /\ FALSE \in BOOLEAN
        BY <2>3
      <4>2. Has(record'[c])
        BY <2>1, <3>1, <4>1, RemoveIs DEF Owes
      <4> QED BY <2>1, <4>1, <4>2, RemoveIs DEF Owes
    <3> QED BY <3>2 DEF Cleared
  <2>4. CASE c # s
    <3>1. record'[c] = record[c]
      BY <2>1, <2>4, RemoveIs
    <3> QED BY <1>7, <1>8, <1>16, <2>1, <3>1 DEF Steady, Owes
  <2> QED BY <2>3, <2>4
<1>17. ASSUME NEW default \in Defaults \ {share}, ShareDefault(default)
       PROVE  Cleared(c)'
  <2>1. /\ record' = Reconciled(share, default) /\ applied' = default
        /\ forgotten' = StillForgotten({}) /\ Steady
    BY <1>17 DEF ShareDefault, Reconcile, Steady
  <2>2. c \notin forgotten
    BY <1>6, <1>7, <2>1
  <2>3. Cleared(c)
    BY <1>4, <2>2
  <2>4. /\ SameDecision(record[c], record'[c])
        /\ Has(record[c]) => Has(record'[c]) /\ record'[c].host = record[c].host
        /\ Has(record[c]) /\ Attempted(record[c]) /\ ~Ended(record[c]) /\ ~ChosenUnder(c, default)
             /\ (ChosenUnder(c, share) \/ record[c].unsharedPending) =>
             record'[c].unsharedPending
    BY <1>1, <2>1, ReconcileIs
  <2>5. ~Ended(record'[c])
    BY <1>1, <2>3, <2>4, SameDecisionIs DEF Cleared
  <2>6. ASSUME ~ChosenUnder(c, applied)'
        PROVE  Owes(c)'
    <3>1. ~ChosenUnder(c, default)
      BY <1>7, <2>1, <2>6
    \* There are two defaults: the new one is the one last applied, or the old one is.
    <3>2. applied = share \/ applied = default
      BY <1>1, <1>17 DEF Defaults
    <3>3. ChosenUnder(c, share) \/ Owes(c)
      BY <2>3, <3>1, <3>2 DEF Cleared
    <3>4. Has(record[c]) /\ Attempted(record[c])
      BY <1>3, <3>3 DEF Owes, ChosenUnder
    <3> QED BY <2>3, <2>4, <3>1, <3>3, <3>4 DEF Owes, Attempted, Cleared
  <2> QED BY <2>5, <2>6 DEF Cleared
<1>18. CASE Login
  <2>1. forgotten' = StillForgotten({}) /\ Steady
    BY <1>18 DEF Login, Steady
  <2>2. c \notin forgotten
    BY <1>6, <1>7, <2>1
  <2>3. Cleared(c)
    BY <1>4, <2>2
  <2>4. /\ applied' = share
        /\ SameDecision(record[c], record'[c])
        /\ Has(record[c]) => Has(record'[c]) /\ record'[c].host = record[c].host
        /\ Has(record[c]) /\ Attempted(record[c]) /\ ~Ended(record[c]) /\ ~ChosenUnder(c, share)
             /\ (ChosenUnder(c, applied) \/ record[c].unsharedPending) =>
             record'[c].unsharedPending
    BY <1>18, LoginIs
  <2>5. ~Ended(record'[c])
    BY <1>1, <2>3, <2>4, SameDecisionIs DEF Cleared
  <2>6. ASSUME ~ChosenUnder(c, applied)'
        PROVE  Owes(c)'
    <3>1. ~ChosenUnder(c, share)
      BY <1>7, <2>1, <2>4, <2>6
    <3>2. ChosenUnder(c, applied) \/ Owes(c)
      BY <2>3 DEF Cleared
    <3>3. Has(record[c]) /\ Attempted(record[c])
      BY <1>3, <3>2 DEF Owes, ChosenUnder
    <3> QED BY <2>3, <2>4, <3>1, <3>2, <3>3 DEF Owes, Attempted, Cleared
  <2> QED BY <2>5, <2>6 DEF Cleared
<1>19. CASE Acknowledge
  <2> DEFINE s == flight.session
  <2>1. /\ flight # NoFlight /\ flight.reply = "ok" /\ flight' = NoFlight /\ web' = web
        /\ applied' = applied /\ alive' = alive
        /\ forgotten' = forgotten \ (IF flight.shared THEN {} ELSE {s})
        /\ s \in Sessions /\ flight.shared \in BOOLEAN
    BY <1>19, FlightIs DEF Acknowledge, outside
  <2>2. c = s => flight.shared
    BY <1>1, <2>1 DEF AnswerInv, Shows
  <2>3. c \notin forgotten
    BY <2>1, <2>2
  <2>4. Cleared(c)
    BY <1>4, <2>3
  <2>5. CASE s \in alive
    <3>1. /\ SameDecision(record[s], record'[s])
          /\ Has(record'[s]) /\ Attempted(record'[s])
          /\ record'[s].unsharedPending =
               (RecordOf(record, s).unsharedPending /\ (flight.shared \/ IsShared(s)))
          /\ \A d \in Sessions \ {s} : record'[d] = record[d]
      BY <1>19, <2>5, AcknowledgeIs
    <3>2. CASE c = s
      <4>1. RecordOf(record, c) = record[c]
        BY <1>3, <2>5, <3>2 DEF RecordOf
      <4>2. Owes(c) => record'[c].unsharedPending
        BY <2>2, <3>1, <3>2, <4>1 DEF Owes
      <4>3. ~Ended(record[c]) => ~Ended(record'[c])
        BY <1>1, <3>1, <3>2, SameDecisionIs
      <4> QED BY <1>7, <1>8, <1>19, <2>1, <2>3, <3>1, <3>2, <4>2, <4>3 DEF Steady
    <3>3. CASE c # s
      <4>1. record'[c] = record[c]
        BY <3>1, <3>3
      <4> QED BY <1>7, <1>8, <1>19, <2>1, <2>3, <4>1 DEF Steady, Owes
    <3> QED BY <3>2, <3>3
  <2>6. CASE s \notin alive
    <3>1. RemoveLocal({s}, ~flight.shared) /\ {s} \in SUBSET Sessions /\ (~flight.shared) \in BOOLEAN
      BY <1>19, <2>1, <2>6 DEF Acknowledge
    <3>2. CASE c = s
      <4>1. Owes(c) /\ ~Ended(record[c])
        BY <2>4, <2>6, <3>2 DEF Cleared, ChosenUnder
      <4>2. c \in {s} /\ ~(~flight.shared)
        BY <2>2, <3>2
      <4>3. Has(record'[c])
        BY <3>1, <4>1, <4>2, RemoveIs DEF Owes
      <4>4. Owes(c)' /\ ~Ended(record'[c])
        BY <3>1, <4>2, <4>3, RemoveIs DEF Owes
      <4> QED BY <4>4 DEF Cleared
    <3>3. CASE c # s
      <4>1. record'[c] = record[c]
        <5>1. c \in Sessions \ {s}
          BY <3>3
        <5> QED BY <2>1, <3>1, <5>1, RemoveIs
      <4> QED BY <1>7, <1>8, <1>19, <2>1, <2>3, <4>1 DEF Steady, Owes
    <3> QED BY <3>2, <3>3
  <2> QED BY <2>5, <2>6
\* What ends is forgotten, and with a root its children.
<1>20. ASSUME NEW ended \in SUBSET Sessions, Ends(ended), c \notin ended,
              forgotten' = StillForgotten(Orphaned(ended)) \/ forgotten' = StillForgotten(ended \cup Orphaned(ended)),
              applied' = applied, configured
       PROVE  Cleared(c)'
  <2>1. /\ record'[c] = record[c] /\ alive' = alive /\ applied = share
    BY <1>20 DEF Ends, ConnectionInv
  <2>2. /\ \A default \in Defaults : ChosenUnder(c, default)' => ChosenUnder(c, default)
        /\ ~ChosenUnder(c, applied)' => ~ChosenUnder(c, applied) \/ Root \in ended
    BY <1>1, <1>20, EndsChoices
  <2>3. c \notin forgotten
    BY <1>1, <1>5, <1>6, <1>20, <2>2
  <2>4. Cleared(c)
    BY <1>4, <2>3
  <2>5. ASSUME ~ChosenUnder(c, applied)', ChosenUnder(c, applied)
        PROVE  FALSE
    <3>1. Root \in ended /\ c \in alive
      BY <2>2, <2>5 DEF ChosenUnder
    <3>2. c \in Orphaned(ended)
      BY <1>3, <1>20, <2>1, <2>5, <3>1, SharedNowIs DEF Orphaned
    <3>3. ~ChosenUnder(c, share)'
      BY <1>1, <1>20, <3>1, EndsChoices
    <3> QED BY <1>6, <1>20, <3>2, <3>3
  <2> QED BY <2>1, <2>4, <2>5 DEF Cleared, Owes
<1>21. CASE Terminate
  <2> DEFINE s == flight.session
  <2>1. /\ flight # NoFlight /\ flight.live /\ flight.reply = "deleted" /\ flight' = NoFlight
        /\ web' = web /\ applied' = applied /\ forgotten' = StillForgotten(Orphaned({s}))
    BY <1>21 DEF Terminate, outside
  <2>2. c # s
    BY <2>1 DEF AnswerInv, Shows
  <2>3. connected /\ configured
    BY <2>1 DEF ConnectionInv
  <2>4. Ends({s}) /\ {s} \in SUBSET Sessions
    BY <1>21, TerminateEnds
  <2> QED BY <1>20, <2>1, <2>2, <2>3, <2>4
<1>22. ASSUME NEW h \in Hosts, Connect(h)
       PROVE  Cleared(c)'
  <2>1. /\ configured /\ applied' = applied
        /\ forgotten' = StillForgotten(Fenced(h) \cup Orphaned(Fenced(h)))
    BY <1>22 DEF Connect
  <2>2. Ends(Fenced(h)) /\ Fenced(h) \in SUBSET Sessions
    BY <1>22, ConnectEnds
  <2>3. c \notin Fenced(h)
    <3>1. c \in Fenced(h) => ~ChosenUnder(c, share)'
      BY <1>1, <2>2, EndsChoices
    <3> QED BY <1>6, <2>1, <3>1
  <2> QED BY <1>20, <2>1, <2>2, <2>3
\* After /remote off nobody is shared, so nothing that was forgotten is redeemed.
<1>23. ASSUME NEW s \in Sessions, NEW done \in SUBSET SharedNow, TurnOff(s, done),
              NEW lost, forgotten' = StillForgotten(lost)
       PROVE  c \notin forgotten /\ c \notin lost
  <2>1. PICK now \in Defaults : now = share'
    BY <1>1
  <2>2. ~ChosenUnder(c, now)'
    BY <1>23, TurnOffChoices
  <2>3. ~ChosenUnder(c, share)'
    BY <2>1, <2>2 DEF ChosenUnder
  <2> QED BY <1>6, <1>23, <2>3
<1>24. configured => applied = share /\ (ChosenUnder(c, applied) <=> c \in SharedNow)
  BY SharedNowIs DEF ConnectionInv, SharedNow, ChosenUnder
<1>25. ASSUME NEW s \in Sessions, ShareOff(s)
       PROVE  Cleared(c)'
  <2>1. TurnOff(s, SharedNow) /\ forgotten' = StillForgotten(Unnoticed) /\ SharedNow \in SUBSET SharedNow
    BY <1>25 DEF ShareOff
  <2>2. c \notin forgotten /\ c \notin Unnoticed
    BY <1>23, <2>1
  <2>3. ChosenUnder(c, applied) => c \in SharedNow \/ ~Untold(c)
    BY <1>24, <2>2 DEF Unnoticed, ChosenUnder
  <2> QED BY <1>11, <2>1, <2>2, <2>3
<1>26. ASSUME NEW s \in Sessions, NEW done \in SUBSET SharedNow, CrashInOff(s, done)
       PROVE  Cleared(c)'
  <2> DEFINE lost == {d \in SharedNow \ done : d # Root /\ Untold(d)}
  <2>1. TurnOff(s, done) /\ done # SharedNow /\ forgotten' = StillForgotten(lost)
    BY <1>26 DEF CrashInOff
  <2>2. c \notin forgotten /\ c \notin lost
    BY <1>23, <2>1
  <2>3. configured
    BY <2>1 DEF SharedNow, IsShared, SharedUnder
  <2>4. c = Root /\ ChosenUnder(c, applied) => SharedUnder(record, s, configured, share)
    <3>1. s \in alive /\ ~Ended(record[s]) /\ (s # Root => (Has(record[s]) => ~record[s].explicit /\ ~record[s].web))
      BY <2>1 DEF TurnOff, MayChoose, Ended, FamilyInv
    <3>2. c = Root /\ ChosenUnder(c, applied) => ~Ended(record[Root]) /\ On(record[Root], share)
      BY <1>24, <2>3, ChosenIs
    <3>3. SharedUnder(record, s, TRUE, share) <=>
            ~Ended(record[s]) /\ ~Ended(record[Root]) /\ On(record[Root], share)
      BY <3>1, Decision
    <3> QED BY <2>3, <3>1, <3>2, <3>3, SharedNowIs DEF IsShared
  <2>5. ChosenUnder(c, applied) =>
          c \in done \/ ~Untold(c) \/ (c = Root /\ SharedUnder(record, s, configured, share))
    BY <1>24, <2>2, <2>3, <2>4
  <2> QED BY <1>11, <2>1, <2>2, <2>5
<1> QED BY Steps, <1>9, <1>10, <1>12, <1>13, <1>14, <1>15, <1>16, <1>17, <1>18, <1>19, <1>21, <1>22, <1>25, <1>26

(* The theorems *)

\* Nothing is shared, sent or owed in the beginning.
LEMMA InitInv ==
  ASSUME SharingAssumption, Init
  PROVE  IInv
<1>1. TypeOK
  <2>1. choices \in 0..MaxChoices /\ faults \in 0..MaxFaults
    BY DEF Init, SharingAssumption
  <2>2. record \in [Sessions -> RecordType \cup {NoRecord}]
    BY DEF Init
  <2>3. web \in [Sessions -> {"none", "shared", "unshared", "deleted"}]
    BY DEF Init
  <2>4. OtherTypes
    BY <2>1, <2>3 DEF Init, OtherTypes, SharingAssumption, Defaults
  <2> QED BY <2>2, <2>4, TypeParts DEF Records
<1>2. \A s \in Sessions : record[s] = NoRecord /\ ~Has(record[s])
  BY DEF Init, Has
<1>3. FamilyInv /\ ConnectionInv
  BY <1>2 DEF Init, FamilyInv, ConnectionInv, SharingAssumption
<1>4. \A s \in Sessions : web[s] = "none" /\ ~Travels(s) /\ ~Sent(s) /\ ~Shows(s)
  BY DEF Init, Travels, Sent, Shows
<1>5. AnswerInv /\ SentInv /\ ForgottenInv /\ OwedInv
  BY <1>4 DEF Init, AnswerInv, SentInv, ForgottenInv, OwedInv
<1> QED BY <1>1, <1>3, <1>5 DEF IInv

\* Every step preserves it.
LEMMA StepInv ==
  ASSUME SharingAssumption, IInv, [Next]_vars
  PROVE  IInv'
<1>1. TypeOK /\ FamilyInv /\ ConnectionInv /\ AnswerInv /\ SentInv /\ ForgottenInv /\ OwedInv
  BY DEF IInv
<1>2. TypeOK'
  BY <1>1, TypeStep
<1>3. FamilyInv' /\ ConnectionInv' /\ AnswerInv' /\ SentInv'
  BY <1>1, <1>2, FamilyStep, ConnectionStep, AnswerStep, SentStep
<1>4. ForgottenInv'
  BY <1>1, <1>2, <1>3, ForgottenStep
<1>5. OwedInv'
  BY <1>1, <1>2, <1>3, <1>4, OwedStep
<1> QED BY <1>2, <1>3, <1>4, <1>5 DEF IInv

\* The inductive invariant of the specification.
LEMMA Invariant == Spec => []IInv
<1>1. Init => IInv
  BY SharingAssumption, InitInv
<1>2. IInv /\ [Next]_vars => IInv'
  BY SharingAssumption, StepInv
<1> QED BY <1>1, <1>2, PTL DEF Spec

(* Type correctness: what the connector stores about a session is a record
   of state.ts:18-28 with a host it was paired with, and the web's answers
   are about sessions of the family. *)
THEOREM SharingTypes == Spec => []TypeOK
BY Invariant, PTL DEF IInv

(* The intent to upload is stored before the request leaves
   (publishSessionNow): for any number of sessions, hosts, lost responses and
   deaths, nothing is shown or on its way about a session that the connector
   takes for one that was never uploaded. *)
THEOREM SentRemembered == Spec => []SentIsRemembered
<1>1. IInv => SentIsRemembered
  BY DEF IInv, SentInv, Sent, SentIsRemembered
<1> QED BY <1>1, Invariant, PTL

(* A session the web shows although it is not shared owes the web a row with
   shared: false, and its record says so: whatever the user chooses, whatever
   is lost, whenever the daemon dies, except for the sessions the code is known
   to forget (markUnshared, removeLocalSession, publishSessionNow). *)
THEOREM DebtsKept == Spec => []OffIsOwed
<1>1. ASSUME IInv, NEW s \in Sessions \ forgotten, Owed(s)
      PROVE  Settles(s)
  <2>1. InOrder(s) /\ Shows(s)
    BY <1>1 DEF Owed, Travels, InOrder, Shows
  <2>2. Cleared(s)
    BY <1>1, <2>1 DEF IInv, OwedInv
  <2>3. ~ChosenUnder(s, applied)
    BY <1>1, SharedNowIs DEF Owed
  <2> QED BY <2>2, <2>3 DEF Cleared, Owes, Settles
<1>2. IInv => OffIsOwed
  BY <1>1 DEF OffIsOwed
<1> QED BY <1>2, Invariant, PTL

(* What was forgotten is really unshared: the exceptions of OffIsOwed never
   take in a session that some default would share, so none of them hides a
   session the user still has shared. *)
THEOREM ForgottenIsUnshared == Spec => [](\A s \in forgotten : ~Chosen(s))
<1>1. ASSUME IInv, NEW s \in forgotten
      PROVE  ~Chosen(s)
  <2>1. s \in Sessions /\ share \in Defaults
    BY <1>1 DEF IInv, TypeOK
  <2>2. ~ChosenUnder(s, "all")
    BY <1>1 DEF IInv, ForgottenInv
  <2> QED BY <2>1, <2>2, Monotone, SharedNowIs DEF ChosenUnder
<1>2. IInv => \A s \in forgotten : ~Chosen(s)
  BY <1>1
<1> QED BY <1>2, Invariant, PTL
-----------------------------------------------------------------------------
(* What is announced *)

\* The web shows s as unshared, or a request on its way would make it so.
TellsOff(s) ==
  \/ web[s] = "unshared"
  \/ flight # NoFlight /\ flight.session = s /\ ~flight.shared

\* The root was created from the web.
FromWeb == Has(record[Root]) /\ record[Root].web

\* A request that carries events, or was answered in order, shares.
ShownInv ==
  flight # NoFlight =>
    /\ flight.events => flight.shared
    /\ flight.reply = "ok" /\ flight.shared /\ InOrder(flight.session) =>
         web[flight.session] \in {"shared", "deleted"}

\* The web was told that s is unshared, and the choices made here share it.
Again(s) ==
  /\ ~FromWeb /\ Has(record[s]) /\ record[s].backfilled
  /\ ChosenUnder(s, applied) /\ InOrder(s) /\ TellsOff(s)

\* Something is left to be sent about s.
Announces(s) ==
  s \in waiting \/ (Has(record[s]) /\ record[s].sharedPending) \/ web[s] = "deleted"

AnnounceInv == \A s \in alive : Again(s) => Announces(s)

\* A root created from the web stays one.
LEMMA WebStays ==
  ASSUME TypeOK, TypeOK', SharingAssumption, FamilyInv, ConnectionInv, [Next]_vars,
         Root \in alive', FromWeb
  PROVE  FromWeb'
<1>1. Root \in alive /\ Root \in Sessions /\ Has(record[Root]) /\ record[Root].web
  BY AliveShrinks DEF SharingAssumption, FromWeb
<1>2. ASSUME Has(record'[Root]), record'[Root].web = record[Root].web
      PROVE  FromWeb'
  BY <1>1, <1>2 DEF FromWeb
<1>3. ASSUME record'[Root] = record[Root]
      PROVE  FromWeb'
  BY <1>1, <1>2, <1>3
<1>4. CASE Quiet
  BY <1>3, <1>4, QuietIs
<1>5. ASSUME NEW s \in Sessions, ShareOn(s)
      PROVE  FromWeb'
  BY <1>1, <1>2, <1>5, ShareOnIs
<1>6. ASSUME NEW s \in Sessions, NEW done \in SUBSET SharedNow, TurnOff(s, done)
      PROVE  FALSE
  BY <1>1, <1>6 DEF TurnOff, MayChoose, Deciding
<1>7. ASSUME NEW s \in Sessions, Delete(s)
      PROVE  FromWeb'
  <2>1. RemoveLocal(Family(s) \cap alive, FALSE) /\ Family(s) \cap alive \in SUBSET Sessions
    BY <1>7 DEF Delete, TypeOK
  <2>2. Root \notin Family(s) \cap alive
    BY <1>7 DEF Delete
  <2> QED BY <1>1, <1>3, <2>1, <2>2, RemoveIs
<1>8. CASE Steady
  <2>1. SameDecision(record[Root], record'[Root])
    BY <1>1, <1>8, SteadyIs
  <2> QED BY <1>1, <1>2, <2>1 DEF SameDecision, SameChoice
<1>9. CASE MarkWebCreated
  BY <1>9, MarkIs DEF FromWeb
<1>10. CASE Terminate
  <2>1. RecordOf(record, Root) = record[Root]
    BY <1>1 DEF RecordOf
  <2> QED BY <1>1, <1>2, <1>3, <1>10, <2>1, TerminateIs
<1>11. ASSUME NEW h \in Hosts, Connect(h)
       PROVE  FromWeb'
  BY <1>1, <1>2, <1>3, <1>11, ConnectIs
<1>12. ASSUME NEW s \in Sessions, ShareOff(s)
       PROVE  FALSE
  BY <1>6, <1>12 DEF ShareOff
<1>13. ASSUME NEW s \in Sessions, NEW done \in SUBSET SharedNow, CrashInOff(s, done)
       PROVE  FALSE
  BY <1>6, <1>13 DEF CrashInOff
<1> QED BY Steps, <1>4, <1>5, <1>7, <1>8, <1>9, <1>10, <1>11, <1>12, <1>13 DEF Steady

\* Who is told to be unshared after a step was before, or is published so.
LEMMA ToldNext ==
  ASSUME TypeOK, SharingAssumption, ConnectionInv, [Next]_vars, NEW c \in Sessions
  PROVE  /\ TellsOff(c)' /\ InOrder(c)' =>
              InOrder(c) /\ (TellsOff(c) \/ (Publish(c) /\ ~IsShared(c)))
         /\ web[c] = "deleted" => web'[c] = "deleted"
<1> DEFINE Goal ==
         /\ TellsOff(c)' /\ InOrder(c)' =>
              InOrder(c) /\ (TellsOff(c) \/ (Publish(c) /\ ~IsShared(c)))
         /\ web[c] = "deleted" => web'[c] = "deleted"
<1>1. CASE Local
  BY <1>1, LocalIs DEF TellsOff, InOrder
<1>2. CASE GivenUp
  <2>1. /\ flight' = NoFlight /\ web' = web /\ overtaken' = overtaken
        /\ late \subseteq late'
        /\ <<c, FALSE>> \in late' => <<c, FALSE>> \in late \/ TellsOff(c)
    BY <1>2, GivenUpIs DEF TellsOff
  <2>2. InOrder(c)' => InOrder(c)
    BY <2>1 DEF InOrder
  <2>3. TellsOff(c)' => TellsOff(c)
    BY <2>1 DEF TellsOff
  <2> QED BY <2>1, <2>2, <2>3
<1>3. CASE Logout \/ Drop \/ Stop
  BY <1>3, LosesConnectionIs, StaleType DEF TellsOff, InOrder
<1>4. CASE Arrive
  <2>1. InOrder(c)' <=> InOrder(c)
    BY <1>4, ArriveIs DEF InOrder
  <2> QED BY <1>4, <2>1, ArriveIs DEF TellsOff
<1>5. ASSUME NEW s \in Sessions, Publish(s)
      PROVE  Goal
  <2>1. InOrder(c)' <=> InOrder(c)
    BY <1>5, PublishOutside DEF InOrder
  <2> QED BY <1>5, <2>1, PublishOutside, PublishIs DEF TellsOff
<1>6. ASSUME NEW s \in Sessions, DeleteOnWeb(s)
      PROVE  Goal
  <2>1. InOrder(c)' <=> InOrder(c)
    BY <1>6, DeleteOnWebIs DEF InOrder
  <2> QED BY <1>6, <2>1, DeleteOnWebIs DEF TellsOff
<1>7. ASSUME NEW request \in late, ArriveLate(request)
      PROVE  Goal
  <2>1. InOrder(c)' => InOrder(c) /\ c # request[1]
    BY <1>7, ArriveLateOrder
  <2>2. /\ request[1] \in Sessions /\ <<request[1], request[2]>> \in late /\ request[2] \in BOOLEAN
        /\ flight' = flight /\ late' \subseteq late
        /\ \A d \in Sessions \ {request[1]} : web'[d] = web[d]
        /\ web[request[1]] = "deleted" => web'[request[1]] = "deleted"
    BY <1>7, ArriveLateIs
  <2>3. web[request[1]] # "deleted" =>
          web'[request[1]] = IF request[2] THEN "shared" ELSE "unshared"
    BY <1>7, <2>2, ShowIs DEF ArriveLate
  <2> QED BY <2>1, <2>2, <2>3 DEF TellsOff
<1> QED BY OutsideSteps, <1>1, <1>2, <1>3, <1>4, <1>5, <1>6, <1>7

\* What becomes of one record when another default is followed.
LEMMA ReconciledCases ==
  ASSUME TypeOK, NEW from \in Defaults, NEW to \in Defaults,
         record' = Reconciled(from, to), NEW c \in alive
  PROVE  \/ ChosenUnder(c, from) /\ ~ChosenUnder(c, to)
         \/ ChosenUnder(c, to) /\ ~ChosenUnder(c, from) /\ record'[c] = Offered(record[c])
         \/ (ChosenUnder(c, from) <=> ChosenUnder(c, to)) /\ record'[c] = record[c]
BY DEF TypeOK, Reconciled, ChosenUnder

\* A login follows the default in force, or finds that the records do.
LEMMA LoginFollows ==
  ASSUME TypeOK, Login
  PROVE  /\ alive' = alive /\ applied' = share
         /\ \/ applied = share /\ record' = record /\ waiting' = waiting
            \/ record' = Reconciled(applied, share) /\ Reconcile(applied, share)
BY DEF Login, Reconcile

\* Every step preserves ShownInv.
LEMMA ShownStep ==
  ASSUME TypeOK, SharingAssumption, ConnectionInv, ShownInv, [Next]_vars
  PROVE  ShownInv'
<1>1. CASE Local
  BY <1>1, LocalIs DEF ShownInv, InOrder
<1>2. CASE GivenUp
  BY <1>2, GivenUpIs DEF ShownInv
<1>3. CASE Logout \/ Drop \/ Stop
  <2>1. flight # NoFlight => flight'.events = flight.events
    BY <1>3, FlightIs, LosesConnectionIs, Absent DEF Stale, FlightType
  <2> QED BY <1>3, <2>1, LosesConnectionIs, StaleType DEF ShownInv, InOrder
<1>4. CASE Arrive
  <2>1. flight'.events = flight.events
    BY <1>4, FlightIs DEF Arrive, FlightType
  <2> QED BY <1>4, <2>1, ArriveIs DEF ShownInv
<1>5. ASSUME NEW s \in Sessions, Publish(s)
      PROVE  ShownInv'
  <2>1. flight'.events => flight'.shared
    BY <1>5 DEF Publish
  <2> QED BY <1>5, <2>1, PublishIs DEF ShownInv
<1>6. ASSUME NEW s \in Sessions, DeleteOnWeb(s)
      PROVE  ShownInv'
  <2>1. flight # NoFlight => flight.session \in Sessions
    BY FlightIs
  <2> QED BY <1>6, <2>1, DeleteOnWebIs DEF ShownInv, InOrder
<1>7. ASSUME NEW request \in late, ArriveLate(request)
      PROVE  ShownInv'
  <2>1. flight # NoFlight => flight.session \in Sessions
    BY FlightIs
  <2>2. \A c \in Sessions \ {request[1]} : InOrder(c)' => InOrder(c)
    BY <1>7, ArriveLateOrder
  <2>3. ~InOrder(request[1])'
    BY <1>7, ArriveLateOrder
  <2>4. flight' = flight /\ \A c \in Sessions \ {request[1]} : web'[c] = web[c]
    BY <1>7, ArriveLateIs
  <2> QED BY <2>1, <2>2, <2>3, <2>4 DEF ShownInv
<1> QED BY OutsideSteps, <1>1, <1>2, <1>3, <1>4, <1>5, <1>6, <1>7

\* What is left to be sent about c stays.
Carries(c) ==
  /\ Has(record[c]) /\ record[c].backfilled
  /\ record[c].sharedPending => record'[c].sharedPending
  /\ c \in waiting => c \in waiting'

\* Outboxes of sessions that stay are kept when others are removed.
LEMMA RemoveCarries ==
  ASSUME TypeOK, NEW gone \in SUBSET Sessions, NEW told \in BOOLEAN, RemoveLocal(gone, told),
         NEW c \in Sessions \ gone, Has(record'[c]), record'[c].backfilled
  PROVE  Carries(c)
<1>1. record'[c] = record[c]
  BY RemoveIs
<1>2. c \in waiting => c \in waiting'
  BY DEF RemoveLocal
<1> QED BY <1>1, <1>2 DEF Carries

\* A session whose choice another default turns is offered again; one that
\* both defaults share keeps what it has.
LEMMA ReconcileAnnounces ==
  ASSUME TypeOK, NEW from \in Defaults, NEW to \in Defaults, Reconcile(from, to),
         NEW c \in alive, ChosenUnder(c, to), Has(record'[c]), record'[c].backfilled
  PROVE  record'[c].sharedPending \/ (ChosenUnder(c, from) /\ Carries(c))
<1>1. record' = Reconciled(from, to) /\ c \in Sessions
  BY DEF Reconcile, TypeOK
<1>2. CASE record'[c] = Offered(record[c])
  <2>1. Has(record[c])
    BY <1>1, <1>2, RecordIs, OfferedRecord
  <2>2. record[c] \in RecordType
    BY <1>1, <2>1, HasType
  <2>3. record[c].backfilled
    BY <1>2, <2>2, OfferedKeeps
  <2> QED BY <1>2, <2>1, <2>2, <2>3 DEF Offered, RecordType
<1>3. CASE ChosenUnder(c, from) /\ record'[c] = record[c]
  <2>1. c \in waiting => c \in waiting'
    BY DEF Reconcile, Forget, ChosenUnder
  <2> QED BY <1>3, <2>1 DEF Carries
<1> QED BY <1>1, <1>2, <1>3, ReconciledCases

\* Whoever was told off, and is chosen again, is announced.
LEMMA AnnouncedNext ==
  ASSUME TypeOK, TypeOK', SharingAssumption, FamilyInv, FamilyInv', ConnectionInv, ShownInv,
         AnnounceInv, [Next]_vars,
         NEW c \in alive', Again(c)', ~FromWeb, InOrder(c), TellsOff(c),
         web[c] = "deleted" => web'[c] = "deleted"
  PROVE  Announces(c)'
<1> DEFINE Goal == Announces(c)'
<1>1. /\ c \in alive /\ c \in Sessions /\ Root \in Sessions
      /\ share \in Defaults /\ applied \in Defaults
  BY AliveShrinks DEF TypeOK, SharingAssumption
<1>2. Has(record'[c]) /\ record'[c].backfilled
  BY DEF Again
<1>3. PICK now \in Defaults : now = applied'
  BY DEF TypeOK
<1>4. ChosenUnder(c, now)'
  BY <1>3 DEF Again, ChosenUnder
<1>5. record'[c].sharedPending => Goal
  BY <1>2 DEF Announces
<1>6. ASSUME ChosenUnder(c, applied), Carries(c)
      PROVE  Goal
  <2>1. Announces(c)
    BY <1>1, <1>6 DEF AnnounceInv, Again, Carries
  <2> QED BY <1>2, <1>6, <2>1 DEF Announces, Carries
<1>7. ASSUME record'[c] = record[c], c \in waiting => c \in waiting'
      PROVE  Carries(c)
  BY <1>2, <1>7 DEF Carries
<1>8. ASSUME Steady \/ (record' = record /\ alive' = alive)
      PROVE  ChosenUnder(c, now)
  BY <1>1, <1>4, <1>8, SteadyChoices
<1>9. CASE Quiet
  <2>1. record' = record /\ applied' = applied /\ (c \in waiting => c \in waiting')
    BY <1>9 DEF Quiet, Change, DeleteOnWeb, CrashInBackfill, CrashInDelete, Logout, Drop, Stop, Arrive, Ignore,
      TimeOut, Refuse, Crash, ArriveLate, vars, durable
  <2>2. ChosenUnder(c, now)
    <3>1. CASE alive' = alive
      BY <1>8, <2>1, <3>1
    <3>2. ASSUME NEW s \in Sessions, CrashInDelete(s)
          PROVE  ChosenUnder(c, now)
      BY <1>1, <1>4, <3>2, DeleteChoices
    <3> QED BY <1>9, <3>1, <3>2, QuietIs
  <2> QED BY <1>3, <1>6, <1>7, <2>1, <2>2
<1>10. ASSUME NEW s \in Sessions, ShareOn(s)
       PROVE  Goal
  <2> DEFINE chosen == [record EXCEPT ![Root] = Choice(s, TRUE)]
  <2>1. record'[c] = Offered(chosen[c])
    BY <1>1, <1>10 DEF ShareOn
  <2>2. chosen[c] \in RecordType \cup {NoRecord}
    BY <1>1, <1>10, ChoiceIs, RecordIs DEF TypeOK
  <2> HIDE DEF chosen
  <2>3. chosen[c] \in RecordType /\ Has(chosen[c])
    BY <1>2, <2>1, <2>2, OfferedRecord, Absent DEF Has
  <2>4. chosen[c].backfilled
    BY <1>2, <2>1, <2>3, OfferedKeeps
  <2>5. record'[c].sharedPending
    BY <2>1, <2>3, <2>4 DEF Offered, RecordType
  <2> QED BY <1>5, <2>5
<1>11. ASSUME NEW s \in Sessions, NEW done \in SUBSET SharedNow, TurnOff(s, done)
       PROVE  Goal
  <2>1. ~ChosenUnder(c, now)'
    BY <1>1, <1>11, TurnOffChoices
  <2> QED BY <1>4, <2>1
<1>12. ASSUME NEW s \in Sessions, Delete(s)
       PROVE  Goal
  <2>1. /\ RemoveLocal(Family(s) \cap alive, FALSE) /\ Family(s) \cap alive \in SUBSET Sessions
        /\ c \notin Family(s) \cap alive /\ applied' = applied
    <3>1. alive \subseteq Sessions /\ alive' = alive \ Family(s)
      BY <1>12 DEF Delete, TypeOK
    <3> QED BY <1>12, <3>1 DEF Delete
  <2>2. Carries(c)
    BY <1>1, <1>2, <2>1, RemoveCarries
  <2>3. ChosenUnder(c, now)
    BY <1>1, <1>4, <1>12, DeleteChoices
  <2> QED BY <1>3, <1>6, <2>1, <2>2, <2>3
<1>13. ASSUME NEW s \in Sessions, Backfill(s)
       PROVE  Goal
  <2>1. applied' = applied /\ waiting' = waiting \cup {s}
    BY <1>13 DEF Backfill
  <2>2. CASE c = s
    BY <2>1, <2>2 DEF Announces
  <2>3. CASE c # s
    <3>1. ChosenUnder(c, now)
      BY <1>8, <1>13 DEF Steady
    <3> QED BY <1>1, <1>3, <1>6, <1>7, <1>13, <2>1, <2>3, <3>1, BackfillIs
  <2> QED BY <2>2, <2>3
<1>14. ASSUME NEW s \in Sessions, Publish(s)
       PROVE  Goal
  <2>1. applied' = applied /\ waiting' = waiting
    BY <1>14 DEF Publish
  <2>2. ChosenUnder(c, now)
    BY <1>8, <1>14 DEF Steady
  <2>3. CASE c = s
    <3>1. Found(s) = RecordOf(record, c) /\ RecordOf(record, c) \in RecordType
      BY <1>1, <2>3, HasType DEF Found
    <3>2. record'[s] = Intended(Found(s))
      BY <1>14 DEF Publish, TypeOK
    <3>3. host \in Hosts
      BY <1>14, PublishIs DEF ConnectionInv
    <3>4. record'[c].backfilled = RecordOf(record, c).backfilled
          /\ record'[c].sharedPending = RecordOf(record, c).sharedPending
      BY <2>3, <3>1, <3>2, <3>3, IntendedKeeps
    <3>5. Has(record[c]) /\ RecordOf(record, c) = record[c]
      BY <1>2, <3>4 DEF RecordOf, Empty
    <3>6. Carries(c)
      BY <1>2, <2>1, <3>4, <3>5 DEF Carries
    <3> QED BY <1>3, <1>6, <2>1, <2>2, <3>6
  <2>4. CASE c # s
    BY <1>1, <1>3, <1>6, <1>7, <1>14, <2>1, <2>2, <2>4, PublishIs
  <2> QED BY <2>3, <2>4
<1>15. ASSUME NEW s \in Sessions, Discover(s)
       PROVE  Goal
  <2>1. RemoveLocal({s}, FALSE) /\ {s} \in SUBSET Sessions /\ c \in Sessions \ {s} /\ applied' = applied
    BY <1>1, <1>15 DEF Discover
  <2>2. Carries(c)
    BY <1>2, <2>1, RemoveCarries
  <2>3. ChosenUnder(c, now)
    BY <1>8, <1>15 DEF Steady
  <2> QED BY <1>3, <1>6, <2>1, <2>2, <2>3
<1>16. ASSUME NEW default \in Defaults \ {share}, ShareDefault(default)
       PROVE  Goal
  <2>1. Reconcile(share, default) /\ now = default
    BY <1>3, <1>16 DEF ShareDefault, Reconcile
  <2>2. ChosenUnder(c, default)
    BY <1>8, <1>16, <2>1 DEF Steady
  <2>3. ChosenUnder(c, share) => ChosenUnder(c, applied)
    BY <1>1, <1>16, <2>2 DEF Defaults
  <2> QED BY <1>1, <1>2, <1>5, <1>6, <1>16, <2>1, <2>2, <2>3, ReconcileAnnounces
<1>17. CASE Login
  <2>1. now = share /\ ChosenUnder(c, share)
    BY <1>3, <1>8, <1>17, LoginFollows DEF Steady
  <2>2. CASE applied = share /\ record' = record /\ waiting' = waiting
    BY <1>6, <1>7, <2>1, <2>2
  <2>3. CASE Reconcile(applied, share)
    BY <1>1, <1>2, <1>5, <1>6, <2>1, <2>3, ReconcileAnnounces
  <2> QED BY <1>17, <2>2, <2>3, LoginFollows
<1>18. CASE MarkWebCreated
  BY <1>18, MarkIs DEF Again, FromWeb
<1>19. CASE Acknowledge
  <2>1. /\ applied' = applied /\ flight # NoFlight /\ flight.reply = "ok"
        /\ flight.session \in Sessions /\ flight.shared \in BOOLEAN
        /\ flight \in FlightType /\ host \in Hosts \cup {Nobody}
    BY <1>19, FlightIs DEF Acknowledge, TypeOK
  <2>2. ChosenUnder(c, now)
    BY <1>8, <1>19 DEF Steady
  <2>3. CASE flight.session \notin alive
    <3>1. RemoveLocal({flight.session}, ~flight.shared)
      BY <1>19, <2>3 DEF Acknowledge
    <3>2. {flight.session} \in SUBSET Sessions /\ c \in Sessions \ {flight.session}
      BY <1>1, <2>1, <2>3
    <3>3. Carries(c)
      BY <1>2, <2>1, <3>1, <3>2, RemoveCarries
    <3> QED BY <1>3, <1>6, <2>1, <2>2, <3>3
  <2>4. CASE flight.session \in alive /\ c # flight.session
    <3>1. c \in waiting => c \in waiting'
      BY <1>19, <2>4 DEF Acknowledge
    <3>2. record'[c] = record[c]
      BY <1>1, <1>19, <2>4, AcknowledgeIs
    <3> QED BY <1>3, <1>6, <1>7, <2>1, <2>2, <3>1, <3>2
  <2>5. CASE c = flight.session /\ flight.shared
    BY <1>1, <2>1, <2>5 DEF ShownInv, TellsOff
  <2>6. CASE c = flight.session /\ ~flight.shared
    <3>1. record'[c] = Settled(RecordOf(record, c), c)
      BY <1>1, <1>19, <2>6 DEF Acknowledge, TypeOK
    <3>2. RecordOf(record, c) \in RecordType /\ IsShared(c) \in BOOLEAN
      BY <1>1, HasType, SharedNowIs
    <3>3. /\ record'[c].backfilled = RecordOf(record, c).backfilled
          /\ record'[c].sharedPending = RecordOf(record, c).sharedPending
      <4>1. record'[c].backfilled = RecordOf(record, c).backfilled
        BY <2>1, <3>1, <3>2, SettledKeeps
      <4>2. record'[c].sharedPending =
              (RecordOf(record, c).sharedPending /\ ~(flight.shared /\ IsShared(c)))
        BY <2>1, <3>1, <3>2, SettledKeeps
      <4>3. RecordOf(record, c).sharedPending \in BOOLEAN
        BY <3>2 DEF RecordType
      <4> QED BY <2>6, <4>1, <4>2, <4>3
    <3>4. Has(record[c]) /\ RecordOf(record, c) = record[c]
      BY <1>2, <3>3 DEF RecordOf, Empty
    <3>5. c \in waiting => c \in waiting'
      BY <1>1, <1>19, <2>1, <2>6 DEF Acknowledge, ShownInv
    <3>6. Carries(c)
      BY <1>2, <3>3, <3>4, <3>5 DEF Carries
    <3> QED BY <1>3, <1>6, <2>1, <2>2, <3>6
  <2> QED BY <2>1, <2>3, <2>4, <2>5, <2>6
<1>20. ASSUME NEW ended \in SUBSET Sessions, Ends(ended), applied' = applied, waiting \ ended \subseteq waiting'
       PROVE  Goal
  <2>1. ChosenUnder(c, now) /\ c \notin ended
    BY <1>1, <1>4, <1>20, EndsChoices
  <2>2. record'[c] = record[c] /\ (c \in waiting => c \in waiting')
    BY <1>1, <1>20, <2>1 DEF Ends
  <2> QED BY <1>3, <1>6, <1>7, <1>20, <2>1, <2>2
<1>21. CASE Terminate
  <2>1. applied' = applied /\ waiting' = waiting \ {flight.session}
    BY <1>21 DEF Terminate
  <2>2. Ends({flight.session}) /\ {flight.session} \in SUBSET Sessions
    BY <1>21, TerminateEnds
  <2> QED BY <1>20, <2>1, <2>2
<1>22. ASSUME NEW h \in Hosts, Connect(h)
       PROVE  Goal
  <2>1. applied' = applied /\ waiting' = waiting \ Fenced(h)
    BY <1>22 DEF Connect
  <2>2. Ends(Fenced(h)) /\ Fenced(h) \in SUBSET Sessions
    BY <1>22, ConnectEnds
  <2> QED BY <1>20, <2>1, <2>2
<1>23. ASSUME NEW s \in Sessions, ShareOff(s)
       PROVE  Goal
  BY <1>11, <1>23 DEF ShareOff
<1>24. ASSUME NEW s \in Sessions, NEW done \in SUBSET SharedNow, CrashInOff(s, done)
       PROVE  Goal
  BY <1>11, <1>24 DEF CrashInOff
<1> QED BY Steps, <1>9, <1>10, <1>12, <1>13, <1>14, <1>15, <1>16, <1>17, <1>18, <1>19, <1>21, <1>22,
      <1>23, <1>24

\* Every step preserves AnnounceInv.
LEMMA AnnounceStep ==
  ASSUME TypeOK, TypeOK', SharingAssumption, FamilyInv, FamilyInv', ConnectionInv, ShownInv,
         AnnounceInv, [Next]_vars
  PROVE  AnnounceInv'
<1> SUFFICES ASSUME NEW c \in alive', Again(c)'
             PROVE  Announces(c)'
  BY DEF AnnounceInv
<1>1. c \in alive /\ c \in Sessions /\ share \in Defaults
  BY AliveShrinks DEF TypeOK
<1>2. ASSUME Publish(c), ~IsShared(c)
      PROVE  FALSE
  <2>1. connected /\ configured /\ applied = share /\ applied' = applied
    BY <1>2 DEF Publish, Ready, ConnectionInv
  <2>2. PICK now \in Defaults : now = share
    BY <1>1
  <2>3. ~ChosenUnder(c, now)
    BY <1>1, <1>2, <2>1, <2>2, SharedNowIs DEF ChosenUnder
  <2>4. Steady
    BY <1>1, <1>2 DEF Steady
  <2>5. ~ChosenUnder(c, now)'
    BY <1>1, <2>3, <2>4, SteadyChoices
  <2> QED BY <2>1, <2>2, <2>5 DEF Again, ChosenUnder
<1>3. TellsOff(c)' /\ InOrder(c)'
  BY DEF Again
<1>4. InOrder(c) /\ TellsOff(c) /\ (web[c] = "deleted" => web'[c] = "deleted")
  BY <1>1, <1>2, <1>3, ToldNext
<1>5. ~FromWeb
  <2>1. Root \in alive' /\ ~FromWeb'
    BY DEF FamilyInv, Again
  <2> QED BY <2>1, WebStays
<1> QED BY <1>4, <1>5, AnnouncedNext

(* A session that is shared again is announced again (markShared,
   publishSessionNow): for any family of sessions and whatever is lost, the web
   does not go on showing as unshared a session for which the connector
   believes that nothing is left to send, unless a command of the web marked
   its root after it was turned off here. *)
THEOREM Announced == Spec => []OnIsAnnounced
<1> DEFINE AInv == IInv /\ ShownInv /\ AnnounceInv
<1>1. Init => ShownInv /\ AnnounceInv
  <2> SUFFICES ASSUME Init
               PROVE  ShownInv /\ AnnounceInv
    OBVIOUS
  <2>1. \A s \in Sessions : ~Has(record[s])
    BY DEF Init, Has
  <2>2. alive = Sessions /\ flight = NoFlight
    BY DEF Init
  <2> QED BY <2>1, <2>2 DEF ShownInv, AnnounceInv, Again, TypeOK, Init
<1>2. AInv /\ IInv' /\ [Next]_vars => ShownInv' /\ AnnounceInv'
  BY SharingAssumption, ShownStep, AnnounceStep DEF IInv
<1>3. AInv => OnIsAnnounced
  <2> SUFFICES ASSUME IInv, AnnounceInv, NEW s \in Sessions, Unannounced(s), ~FromWeb
               PROVE  FALSE
    BY DEF OnIsAnnounced, FromWeb
  <2> USE DEF Unannounced
  <2>1. s \in alive /\ ChosenUnder(s, applied)
    BY SharedNowIs DEF IInv, ConnectionInv, ChosenUnder
  <2>2. InOrder(s) /\ TellsOff(s)
    BY DEF Travels, InOrder, TellsOff
  <2> QED BY <2>1, <2>2 DEF AnnounceInv, Again, Announces
<1> QED BY <1>1, <1>2, <1>3, Invariant, PTL DEF Spec
=============================================================================
