---------------------------- MODULE BrokerProofs ----------------------------
(***************************************************************************)
(* Proofs about Broker for every set of questions, clients and sessions,   *)
(* every scope, eligibility and deadline, and any number of crashes.       *)
(***************************************************************************)
EXTENDS Broker, FiniteSetTheorems, TLAPS

\* The row, the asker's promise and the continuation of a question agree.
RowInv(q) ==
  /\ told[q] = "waiting" => up /\ state[q] = "waiting"
  /\ up /\ state[q] = "waiting" => told[q] = "waiting"
  /\ told[q] = "answered" => state[q] = "answered" /\ winner[q] # NoClient /\ cont[q] = "none"
  /\ told[q] = "cancelled" => state[q] \notin {"waiting", "deferred", "answered"}
  /\ state[q] = "new" => told[q] \in {"none", "cancelled"}
  /\ cont[q] # "none" => state[q] = "answered" /\ ScopeOf[q] # Host
  /\ cont[q] \in {"none", "ready"} => resumed[q] = 0
  /\ resumed[q] <= 1

\* A lane holds continuations of its session, and only the one at its head is
\* past "ready".
LaneInv(s) ==
  /\ \A i \in 1 .. Len(lane[s]) : ScopeOf[lane[s][i]] = s
  /\ stage[s] # "idle" => up /\ lane[s] # <<>>
  /\ stage[s] = "resuming" => cont[Head(lane[s])] = "ready"
  /\ stage[s] = "prompting" => cont[Head(lane[s])] = "dispatch_intent"
  /\ \A q \in Question :
       up /\ ScopeOf[q] = s /\ cont[q] = "dispatch_intent" =>
         stage[s] = "prompting" /\ q = Head(lane[s])

IInv ==
  /\ TypeOK
  /\ \A q \in Question : RowInv(q)
  /\ \A s \in Session : LaneInv(s)
  /\ Serialized
-----------------------------------------------------------------------------
(* What the steps of the broker have in common.                            *)

\* The rows that clients, timers, drains and sessions take from their askers.
LEMMA PublishRows ==
  ASSUME IInv, up, NEW S \in SUBSET Question, NEW next,
         next \in [Question -> {"new", "waiting", "deferred", "lost"} \cup Resolved],
         \A q \in S : Pending(q) /\ next[q] \in {"deferred", "cancelled", "expired"},
         \A q \in Question \ S : next[q] = state[q],
         Publish(S, next), UNCHANGED <<winner, cont, up, resumed>>
  PROVE  /\ state' \in [Question -> {"new", "waiting", "deferred", "lost"} \cup Resolved]
         /\ told' \in [Question -> {"none", "waiting", "answered", "deferred", "cancelled", "gone"}]
         /\ \A q \in Question : RowInv(q)'
  <1>1. told' \in [Question -> {"none", "waiting", "answered", "deferred", "cancelled", "gone"}]
    BY DEF Publish, ToldOf, Outcome, IInv, TypeOK
  <1>2. ASSUME NEW q \in Question PROVE RowInv(q)'
    <2>1. CASE q \in S
      BY <2>1 DEF Publish, ToldOf, Outcome, Pending, IInv, TypeOK, RowInv
    <2>2. CASE q \notin S
      BY <2>2 DEF Publish, ToldOf, IInv, TypeOK, RowInv
    <2> QED BY <2>1, <2>2
  <1> QED BY <1>1, <1>2 DEF Publish

\* Lanes and continuations that stand still keep their part of the invariant.
LEMMA LanesStand ==
  ASSUME IInv, UNCHANGED <<cont, lane, stage, up>>
  PROVE  (\A s \in Session : LaneInv(s)') /\ Serialized'
  BY DEF IInv, LaneInv, Serialized

LEMMA RowsStand ==
  ASSUME IInv, UNCHANGED <<state, winner, cont, up, told, resumed>>
  PROVE  \A q \in Question : RowInv(q)'
  BY DEF IInv, RowInv

\* SetToSeq of questions is a sequence of them.
LEMMA SeqOfSet ==
  ASSUME NEW S \in SUBSET Question
  PROVE  SetToSeq(S) \in [1 .. Len(SetToSeq(S)) -> S] /\ SetToSeq(S) \in Seq(Question)
  <1>1. IsFiniteSet(S)
    BY BrokerAssumption, FS_Subset DEF BrokerAssumption
  <1>2. Cardinality(S) \in Nat /\ ExistsBijection(1 .. Cardinality(S), S)
    BY <1>1, FS_CardinalityType
  <1>3. \E f \in [1 .. Cardinality(S) -> S] : IsInjective(f)
    BY <1>2 DEF ExistsBijection, Bijection, Injection, IsInjective, Surjection
  <1>4. SetToSeq(S) \in [1 .. Cardinality(S) -> S]
    BY <1>3 DEF SetToSeq
  <1>5. Len(SetToSeq(S)) = Cardinality(S)
    BY <1>2, <1>4
  <1> QED BY <1>2, <1>4, <1>5
-----------------------------------------------------------------------------
(* Each step preserves the invariant.                                      *)

LEMMA InitIInv == Init => IInv
  <1> SUFFICES ASSUME Init PROVE IInv
    OBVIOUS
  <1>1. TypeOK
    <2>1. lane \in [Session -> Seq(Question)]
      BY DEF Init
    <2>2. attached \in [Client -> SUBSET Session] /\ crashes \in 0 .. MaxCrashes
      BY BrokerAssumption DEF BrokerAssumption, Init
    <2>3. /\ state \in [Question -> {"new", "waiting", "deferred", "lost"} \cup Resolved]
          /\ winner \in [Question -> Client \cup {NoClient, Platform}]
          /\ cont \in [Question -> {"none", "ready", "dispatch_intent"} \cup Ended]
          /\ told \in [Question -> {"none", "waiting", "answered", "deferred", "cancelled", "gone"}]
          /\ resumed \in [Question -> Nat]
      BY DEF Init
    <2>4. /\ activity \in [Session -> {"idle", "running", "ending", "settled"}]
          /\ stage \in [Session -> {"idle", "resuming", "prompting"}]
      BY DEF Init
    <2> QED BY <2>1, <2>2, <2>3, <2>4 DEF Init, TypeOK
  <1>2. \A q \in Question : RowInv(q)
    BY DEF Init, RowInv
  <1>3. (\A s \in Session : LaneInv(s)) /\ Serialized
    BY DEF Init, LaneInv, Serialized
  <1> QED BY <1>1, <1>2, <1>3 DEF IInv

\* Clients come and go, questions are asked, time passes, sessions run.
LEMMA QuietIInv ==
  ASSUME IInv,
         \/ \E q \in Question : Request(q) \/ DeadlinePasses(q) \/ HoldPasses(q)
         \/ \E c \in Client : Connect(c) \/ \E s \in Session : Attach(c, s)
         \/ \E s \in Session : Reopen(s) \/ StartRun(s) \/ EndRun(s) \/ BeginEnding(s)
  PROVE  IInv'
  <1>1. UNCHANGED <<cont, lane, stage, up>>
    BY DEF Request, DeadlinePasses, HoldPasses, Connect, Attach, Reopen, StartRun, EndRun,
           BeginEnding, work
  <1>2. (\A s \in Session : LaneInv(s)') /\ Serialized'
    BY <1>1, LanesStand
  <1>3. ASSUME NEW q \in Question, Request(q) PROVE IInv'
    <2>1. TypeOK'
      BY <1>3 DEF IInv, TypeOK, Request, clients, work
    <2>2. \A p \in Question : RowInv(p)'
      BY <1>3 DEF IInv, TypeOK, Request, RowInv, Usable
    <2> QED BY <1>2, <2>1, <2>2 DEF IInv
  <1>4. ASSUME UNCHANGED <<state, winner, cont, up, told, resumed>>, TypeOK' PROVE IInv'
    BY <1>2, <1>4, RowsStand DEF IInv
  <1>5. ASSUME NEW q \in Question, DeadlinePasses(q) \/ HoldPasses(q) PROVE IInv'
    BY <1>4, <1>5 DEF IInv, TypeOK, DeadlinePasses, HoldPasses, clients, work
  <1>6. ASSUME NEW c \in Client, Connect(c) PROVE IInv'
    BY <1>4, <1>6 DEF IInv, TypeOK, Connect, work
  <1>7. ASSUME NEW c \in Client, NEW s \in Session, Attach(c, s) PROVE IInv'
    BY <1>4, <1>7 DEF IInv, TypeOK, Attach, work
  <1>8. ASSUME NEW s \in Session, Reopen(s) PROVE IInv'
    BY <1>4, <1>8 DEF IInv, TypeOK, Reopen, clients, work
  <1>9. ASSUME NEW s \in Session, StartRun(s) \/ EndRun(s) \/ BeginEnding(s) PROVE IInv'
    <2>1. activity' \in [Session -> {"idle", "running", "ending", "settled"}]
      BY <1>9 DEF StartRun, EndRun, BeginEnding, IInv, TypeOK
    <2>2. UNCHANGED <<state, winner, cont, closed, overdue, held, up, draining, failed, connected,
                      attached, told, lane, stage, resumed, crashes>>
      BY <1>9 DEF StartRun, EndRun, BeginEnding, clients
    <2>3. TypeOK'
      BY <2>1, <2>2 DEF IInv, TypeOK
    <2> QED BY <1>4, <2>2, <2>3
  <1> QED BY <1>3, <1>5, <1>6, <1>7, <1>8, <1>9

\* Questions taken from their askers.
LEMMA WithdrawIInv ==
  ASSUME IInv,
         \/ \E q \in Question : Abort(q) \/ \E by \in Client \cup {Platform} : Dismiss(by, q)
         \/ \E c \in Client : Disconnect(c) \/ \E s \in Session : Detach(c, s)
         \/ Timer \/ Drain
         \/ \E s \in Session : Settle(s) \/ EndSettled(s)
  PROVE  IInv'
  <1>0. up /\ UNCHANGED <<winner, cont, lane, stage, up, resumed>>
    BY DEF Abort, Dismiss, Disconnect, Detach, Depart, Timer, Drain, Settle, EndSettled, Usable,
           work
  <1>1. (\A s \in Session : LaneInv(s)') /\ Serialized'
    BY <1>0, LanesStand
  <1>2. ASSUME NEW S \in SUBSET Question, NEW next,
               Publish(S, next),
               next \in [Question -> {"new", "waiting", "deferred", "lost"} \cup Resolved],
               \A q \in S : Pending(q) /\ next[q] \in {"deferred", "cancelled", "expired"},
               \A q \in Question \ S : next[q] = state[q],
               overdue' = overdue, held' = held, crashes' = crashes, draining' \in BOOLEAN,
               failed' = failed, connected' \subseteq Client,
               attached' \in [Client -> SUBSET Session], closed' \subseteq Session,
               activity' \in [Session -> {"idle", "running", "ending", "settled"}]
        PROVE  IInv'
    <2>1. /\ state' \in [Question -> {"new", "waiting", "deferred", "lost"} \cup Resolved]
          /\ told' \in [Question -> {"none", "waiting", "answered", "deferred", "cancelled", "gone"}]
          /\ \A q \in Question : RowInv(q)'
      BY <1>0, <1>2, PublishRows
    <2>2. TypeOK'
      BY <1>0, <1>2, <2>1 DEF IInv, TypeOK
    <2> QED BY <1>1, <2>1, <2>2 DEF IInv
  <1>3. ASSUME NEW S \in SUBSET Question, \A q \in S : Pending(q),
               Publish(S, Moved(S, "cancelled")),
               UNCHANGED <<overdue, held, draining, failed, crashes>>,
               connected' \subseteq Client, attached' \in [Client -> SUBSET Session],
               closed' \subseteq Session,
               activity' \in [Session -> {"idle", "running", "ending", "settled"}]
        PROVE  IInv'
    <2> DEFINE next == Moved(S, "cancelled")
    <2>1. next \in [Question -> {"new", "waiting", "deferred", "lost"} \cup Resolved]
      BY DEF Moved, Resolved, IInv, TypeOK
    <2>2. \A q \in S : Pending(q) /\ next[q] \in {"deferred", "cancelled", "expired"}
      BY <1>3 DEF Moved
    <2>3. \A q \in Question \ S : next[q] = state[q]
      BY DEF Moved
    <2>4. Publish(S, next) /\ draining' \in BOOLEAN
      BY <1>3 DEF IInv, TypeOK
    <2> HIDE DEF next
    <2> QED BY <1>2, <1>3, <2>1, <2>2, <2>3, <2>4
  <1>4. ASSUME NEW q \in Question, Abort(q) \/ \E by \in Client \cup {Platform} : Dismiss(by, q)
        PROVE  IInv'
    <2>1. Pending(q) /\ Publish({q}, Moved({q}, "cancelled"))
      BY <1>4 DEF Abort, Dismiss, Answerable
    <2>2. UNCHANGED <<closed, overdue, held, draining, failed, connected, attached, activity,
                      crashes>>
      BY <1>4 DEF Abort, Dismiss, clients, work
    <2>3. /\ connected' \subseteq Client /\ attached' \in [Client -> SUBSET Session]
          /\ closed' \subseteq Session
          /\ activity' \in [Session -> {"idle", "running", "ending", "settled"}]
      BY <2>2 DEF IInv, TypeOK
    <2>4. {q} \in SUBSET Question /\ \A p \in {q} : Pending(p)
      BY <2>1
    <2> QED BY <1>3, <2>1, <2>2, <2>3, <2>4
  <1>5. ASSUME NEW online \in SUBSET Client, NEW sessions \in [Client -> SUBSET Session],
               Depart(online, sessions)
        PROVE  IInv'
    <2> DEFINE gone == IF failed THEN {} ELSE Orphaned(online, sessions)
    <2>1. gone \in SUBSET Question /\ \A q \in gone : Pending(q)
      BY DEF Orphaned
    <2>2. Publish(gone, Moved(gone, "cancelled"))
      BY <1>5 DEF Depart
    <2>3. /\ connected' = online /\ attached' = sessions
          /\ UNCHANGED <<closed, overdue, held, draining, failed, activity, crashes>>
      BY <1>5 DEF Depart, work
    <2> HIDE DEF gone
    <2>4. /\ connected' \subseteq Client /\ attached' \in [Client -> SUBSET Session]
          /\ closed' \subseteq Session
          /\ activity' \in [Session -> {"idle", "running", "ending", "settled"}]
      BY <2>3 DEF IInv, TypeOK
    <2> QED BY <1>3, <2>1, <2>2, <2>3, <2>4
  <1>6. ASSUME NEW c \in Client, Disconnect(c) PROVE IInv'
    BY <1>5, <1>6 DEF Disconnect, IInv, TypeOK
  <1>7. ASSUME NEW c \in Client, NEW s \in Session, Detach(c, s) PROVE IInv'
    BY <1>5, <1>7 DEF Detach, IInv, TypeOK
  <1>8. CASE Timer
    <2> DEFINE next == [q \in Question |-> IF q \in Due THEN "expired"
                                 ELSE IF q \in HeldTooLong THEN "deferred" ELSE state[q]]
    <2>1. /\ Due \cup HeldTooLong \in SUBSET Question
          /\ \A q \in Due \cup HeldTooLong : Pending(q) /\ next[q] \in {"deferred", "cancelled", "expired"}
          /\ \A q \in Question \ (Due \cup HeldTooLong) : next[q] = state[q]
          /\ next \in [Question -> {"new", "waiting", "deferred", "lost"} \cup Resolved]
      BY DEF Due, HeldTooLong, Holdable, Pending, IInv, TypeOK, Resolved
    <2>2. Publish(Due \cup HeldTooLong, next)
      BY <1>8 DEF Timer
    <2> HIDE DEF next
    <2> QED BY <1>2, <1>8, <2>1, <2>2 DEF Timer, IInv, TypeOK, clients, work
  <1>9. CASE Drain
    <2> DEFINE S == DrainedQuestions
               next == DeferOrCancel(S)
    <2>1. /\ S \in SUBSET Question
          /\ \A q \in S : Pending(q) /\ next[q] \in {"deferred", "cancelled", "expired"}
          /\ \A q \in Question \ S : next[q] = state[q]
          /\ next \in [Question -> {"new", "waiting", "deferred", "lost"} \cup Resolved]
      BY DEF DrainedQuestions, DeferOrCancel, Pending, IInv, TypeOK, Resolved
    <2>2. Publish(S, next)
      BY <1>9 DEF Drain
    <2> HIDE DEF S, next
    <2> QED BY <1>2, <1>9, <2>1, <2>2 DEF Drain, IInv, TypeOK, clients, work
  <1>10. ASSUME NEW s \in Session, Settle(s) PROVE IInv'
    <2>1. SettledBy(s) \in SUBSET Question /\ \A q \in SettledBy(s) : Pending(q)
      BY DEF SettledBy
    <2>2. activity' \in [Session -> {"idle", "running", "ending", "settled"}]
      BY <1>10 DEF Settle, IInv, TypeOK
    <2>3. /\ Publish(SettledBy(s), Moved(SettledBy(s), "cancelled"))
          /\ UNCHANGED <<closed, overdue, held, draining, failed, connected, attached, crashes>>
      BY <1>10 DEF Settle, clients
    <2>4. /\ connected' \subseteq Client /\ attached' \in [Client -> SUBSET Session]
          /\ closed' \subseteq Session
      BY <2>3 DEF IInv, TypeOK
    <2> QED BY <1>3, <2>1, <2>2, <2>3, <2>4
  <1>11. ASSUME NEW s \in Session, EndSettled(s) PROVE IInv'
    <2>1. activity' \in [Session -> {"idle", "running", "ending", "settled"}]
      BY <1>11 DEF EndSettled, IInv, TypeOK
    <2>2. CASE UNCHANGED <<state, told, closed>>
      <3>1. TypeOK'
        BY <1>11, <2>1, <2>2 DEF EndSettled, IInv, TypeOK, clients
      <3>2. \A q \in Question : RowInv(q)'
        BY <1>0, <2>2, RowsStand
      <3> QED BY <1>1, <3>1, <3>2 DEF IInv
    <2> DEFINE asking == {q \in SettledBy(s) : ~failed /\ told[q] = "waiting"}
    <2>3. CASE closed' = closed \cup {s} /\ Publish(asking, Moved(asking, "cancelled"))
      <3>1. asking \in SUBSET Question /\ \A q \in asking : Pending(q)
        BY DEF SettledBy
      <3>2. Publish(asking, Moved(asking, "cancelled")) /\ closed' \subseteq Session
        BY <2>3 DEF IInv, TypeOK
      <3>3. UNCHANGED <<overdue, held, draining, failed, connected, attached, crashes>>
        BY <1>11 DEF EndSettled, clients
      <3>4. connected' \subseteq Client /\ attached' \in [Client -> SUBSET Session]
        BY <3>3 DEF IInv, TypeOK
      <3> HIDE DEF asking
      <3> QED BY <1>3, <2>1, <3>1, <3>2, <3>3, <3>4
    <2> QED BY <1>11, <2>2, <2>3 DEF EndSettled
  <1> QED BY <1>4, <1>6, <1>7, <1>8, <1>9, <1>10, <1>11

\* An answer; a deferred question's continuation joins its lane.
LEMMA AnswerIInv ==
  ASSUME IInv, NEW q \in Question, NEW by \in Client \cup {Platform}, Answer(by, q)
  PROVE  IInv'
  <1>0. /\ up /\ Pending(q) /\ NoClient # by
        /\ UNCHANGED <<closed, overdue, held, up, draining, failed, connected, attached, activity,
                       stage, resumed, crashes>>
    BY BrokerAssumption DEF BrokerAssumption, Answer, Answerable, Usable, clients
  <1>1. /\ state' = [p \in Question |-> IF p = q THEN "answered" ELSE state[p]]
        /\ winner' = [winner EXCEPT ![q] = by]
        /\ told' = [p \in Question |-> IF p = q /\ told[q] = "waiting" THEN "answered" ELSE told[p]]
    BY DEF Answer, Publish, Moved, ToldOf, Outcome, IInv, TypeOK
  <1>2. \/ state[q] = "waiting" /\ UNCHANGED <<cont, lane>>
        \/ state[q] = "deferred" /\ ScopeOf[q] = Host /\ UNCHANGED <<cont, lane>>
        \/ /\ state[q] = "deferred" /\ ScopeOf[q] # Host
           /\ cont' = [cont EXCEPT ![q] = "ready"]
           /\ lane' = lane \/ lane' = Enqueued(q)
    BY <1>0 DEF Answer, Continues, Pending
  <1>3. ScopeOf[q] # Host => ScopeOf[q] \in Session
    BY BrokerAssumption DEF BrokerAssumption
  <1>4. cont[q] = "none" /\ resumed[q] = 0 /\ told[q] \in {"waiting", "none", "deferred", "gone", "cancelled"}
    BY <1>0 DEF IInv, RowInv, TypeOK, Pending
  <1>5. lane' \in [Session -> Seq(Question)]
    <2>1. CASE lane' = lane
      BY <2>1 DEF IInv, TypeOK
    <2>2. CASE ScopeOf[q] \in Session /\ lane' = Enqueued(q)
      <3>1. lane \in [Session -> Seq(Question)]
        BY DEF IInv, TypeOK
      <3>2. Append(lane[ScopeOf[q]], q) \in Seq(Question)
        BY <2>2, <3>1
      <3> QED BY <2>2, <3>1, <3>2 DEF Enqueued
    <2> QED BY <1>2, <1>3, <2>1, <2>2
  <1>6. cont' \in [Question -> {"none", "ready", "dispatch_intent"} \cup Ended]
    BY <1>2 DEF IInv, TypeOK
  <1>7. TypeOK'
    <2>1. state' \in [Question -> {"new", "waiting", "deferred", "lost"} \cup Resolved]
      BY <1>1 DEF IInv, TypeOK, Resolved
    <2>2. winner' \in [Question -> Client \cup {NoClient, Platform}]
      BY <1>1 DEF IInv, TypeOK
    <2>3. told' \in [Question -> {"none", "waiting", "answered", "deferred", "cancelled", "gone"}]
      BY <1>1 DEF IInv, TypeOK
    <2> QED BY <1>0, <1>5, <1>6, <2>1, <2>2, <2>3 DEF IInv, TypeOK
  <1>8. ASSUME NEW p \in Question PROVE RowInv(p)'
    <2>1. CASE p # q
      <3>1. /\ state'[p] = state[p] /\ winner'[p] = winner[p] /\ told'[p] = told[p]
            /\ cont'[p] = cont[p]
        BY <1>1, <1>2, <2>1 DEF IInv, TypeOK
      <3> QED BY <1>0, <3>1 DEF IInv, RowInv
    <2>2. CASE p = q
      <3>1. state'[q] = "answered" /\ winner'[q] = by
        BY <1>1 DEF IInv, TypeOK
      <3>2. told'[q] = IF told[q] = "waiting" THEN "answered" ELSE told[q]
        BY <1>1 DEF IInv, TypeOK
      <3>3. cont'[q] = "none" \/ (cont'[q] = "ready" /\ state[q] = "deferred" /\ ScopeOf[q] # Host)
        BY <1>2, <1>4 DEF IInv, TypeOK
      <3>4. RowInv(q)
        BY DEF IInv
      <3> QED BY <1>0, <1>4, <2>2, <3>1, <3>2, <3>3, <3>4 DEF RowInv, Pending
    <2> QED BY <2>1, <2>2
  <1>9. ASSUME NEW p \in Question
        PROVE  (cont'[p] = "dispatch_intent") = (cont[p] = "dispatch_intent")
    BY <1>2, <1>4 DEF IInv, TypeOK
  <1>10. ASSUME NEW s \in Session PROVE LaneInv(s)'
    <2>1. lane[s] \in Seq(Question) /\ LaneInv(s)
      BY DEF IInv, TypeOK
    <2>2. lane'[s] = lane[s] \/ (lane'[s] = Append(lane[s], q) /\ ScopeOf[q] = s)
      BY <1>2, <1>3 DEF Enqueued, IInv, TypeOK
    <2>3. stage'[s] # "idle" => lane[s] # <<>>
      BY <1>0, <2>1 DEF LaneInv
    <2>4. lane[s] # <<>> => Head(lane'[s]) = Head(lane[s]) /\ lane'[s] # <<>>
      BY <2>1, <2>2
    <2>5. \A i \in 1 .. Len(lane'[s]) : ScopeOf[lane'[s][i]] = s
      BY <2>1, <2>2 DEF LaneInv
    <2>6. ASSUME stage[s] # "idle" PROVE cont'[Head(lane[s])] = cont[Head(lane[s])]
      <3>1. Head(lane[s]) \in Question
        BY <1>0, <2>1, <2>3, <2>6
      <3>2. cont[Head(lane[s])] # "none"
        BY <2>1, <2>6 DEF LaneInv, IInv, TypeOK
      <3> QED BY <1>2, <1>4, <3>1, <3>2 DEF IInv, TypeOK
    <2>7. \A p \in Question :
             up /\ ScopeOf[p] = s /\ cont'[p] = "dispatch_intent" =>
               stage[s] = "prompting" /\ p = Head(lane[s])
      BY <1>9, <2>1 DEF LaneInv
    <2> QED BY <1>0, <2>1, <2>3, <2>4, <2>5, <2>6, <2>7 DEF LaneInv
  <1>11. Serialized'
    BY <1>9 DEF IInv, Serialized
  <1> QED BY <1>7, <1>8, <1>10, <1>11 DEF IInv

\* What a continuation that leaves its lane leaves behind.
LEMMA LeaveLane ==
  ASSUME IInv, NEW s \in Session, lane[s] # <<>>, Leave(s)
  PROVE  /\ lane' \in [Session -> Seq(Question)]
         /\ stage' \in [Session -> {"idle", "resuming", "prompting"}]
         /\ lane'[s] = Tail(lane[s]) /\ stage'[s] = "idle"
         /\ \A r \in Session \ {s} : lane'[r] = lane[r] /\ stage'[r] = stage[r]
         /\ \A i \in 1 .. Len(lane'[s]) : ScopeOf[lane'[s][i]] = s
         /\ Head(lane[s]) \in Question /\ ScopeOf[Head(lane[s])] = s
  <1>1. lane[s] \in Seq(Question) /\ LaneInv(s)
    BY DEF IInv, TypeOK
  <1>2. Tail(lane[s]) \in Seq(Question) /\ Head(lane[s]) = lane[s][1] /\ Len(lane[s]) \in Nat \ {0}
    BY <1>1
  <1>3. \A i \in 1 .. Len(Tail(lane[s])) : Tail(lane[s])[i] = lane[s][i + 1] /\ i + 1 \in 1 .. Len(lane[s])
    BY <1>1, <1>2
  <1>4. lane' = [lane EXCEPT ![s] = Tail(@)] /\ stage' = [stage EXCEPT ![s] = "idle"]
    BY DEF Leave
  <1>5. lane' \in [Session -> Seq(Question)] /\ lane'[s] = Tail(lane[s])
    BY <1>2, <1>4 DEF IInv, TypeOK
  <1>6. stage' \in [Session -> {"idle", "resuming", "prompting"}] /\ stage'[s] = "idle"
    BY <1>4 DEF IInv, TypeOK
  <1>7. \A r \in Session \ {s} : lane'[r] = lane[r] /\ stage'[r] = stage[r]
    BY <1>4 DEF IInv, TypeOK
  <1>8. ScopeOf[Head(lane[s])] = s /\ Head(lane[s]) \in Question
    BY <1>1, <1>2 DEF LaneInv
  <1>9. \A i \in 1 .. Len(lane'[s]) : ScopeOf[lane'[s][i]] = s
    BY <1>1, <1>3, <1>5 DEF LaneInv
  <1> QED BY <1>5, <1>6, <1>7, <1>8, <1>9

\* Another session's lane does not notice.
LEMMA OtherLane ==
  ASSUME IInv, NEW s \in Session, NEW r \in Session \ {s}, up' = up,
         lane'[r] = lane[r], stage'[r] = stage[r],
         \A q \in Question : ScopeOf[q] # s => cont'[q] = cont[q]
  PROVE  LaneInv(r)'
  <1>1. LaneInv(r) /\ lane[r] \in Seq(Question)
    BY DEF IInv, TypeOK
  <1>2. stage[r] # "idle" => Head(lane[r]) \in Question /\ ScopeOf[Head(lane[r])] = r
    BY <1>1 DEF LaneInv
  <1> QED BY <1>1, <1>2 DEF LaneInv

\* The continuation at the head of a lane moves on, and leaves the lane or starts.
LEMMA HeadMoves ==
  ASSUME IInv, NEW s \in Session, up, lane[s] # <<>>,
         UNCHANGED <<state, winner, told, up>>,
         cont' \in [Question -> {"none", "ready", "dispatch_intent"} \cup Ended],
         resumed' \in [Question -> Nat],
         \A q \in Question \ {Head(lane[s])} : cont'[q] = cont[q] /\ resumed'[q] = resumed[q],
         LET h == Head(lane[s]) IN
           \/ cont'[h] = cont[h] /\ resumed'[h] = resumed[h]
           \/ cont[h] # "none" /\ cont'[h] \in {"dispatch_intent"} \cup Ended /\ resumed'[h] <= 1,
         \/ /\ Leave(s)
            /\ cont'[Head(lane[s])] # "dispatch_intent"
         \/ /\ lane' = lane /\ cont[Head(lane[s])] = "ready"
            /\ \/ stage' = [stage EXCEPT ![s] = "resuming"] /\ cont'[Head(lane[s])] = "ready"
               \/ stage' = [stage EXCEPT ![s] = "prompting"]
                  /\ cont'[Head(lane[s])] = "dispatch_intent",
         \A q \in Question : ScopeOf[q] = s /\ cont[q] = "dispatch_intent" => q = Head(lane[s])
  PROVE  /\ lane' \in [Session -> Seq(Question)]
         /\ stage' \in [Session -> {"idle", "resuming", "prompting"}]
         /\ \A q \in Question : RowInv(q)'
         /\ \A r \in Session : LaneInv(r)'
         /\ Serialized'
  <1> DEFINE h == Head(lane[s])
  <1>1. h \in Question /\ ScopeOf[h] = s /\ lane[s] \in Seq(Question) /\ LaneInv(s)
    <2>1. lane[s] \in Seq(Question) /\ LaneInv(s)
      BY DEF IInv, TypeOK
    <2>2. Head(lane[s]) = lane[s][1] /\ 1 \in 1 .. Len(lane[s])
      BY <2>1
    <2> QED BY <2>1, <2>2 DEF LaneInv
  <1>2. /\ lane' \in [Session -> Seq(Question)]
        /\ stage' \in [Session -> {"idle", "resuming", "prompting"}]
        /\ \A r \in Session \ {s} : lane'[r] = lane[r] /\ stage'[r] = stage[r]
        /\ \A i \in 1 .. Len(lane'[s]) : ScopeOf[lane'[s][i]] = s
    <2>1. CASE Leave(s)
      BY <2>1, LeaveLane
    <2>2. CASE lane' = lane /\ \E w \in {"resuming", "prompting"} : stage' = [stage EXCEPT ![s] = w]
      BY <1>1, <2>2 DEF IInv, TypeOK, LaneInv
    <2> QED BY <2>1, <2>2
  <1>3. ASSUME NEW q \in Question PROVE RowInv(q)'
    <2>1. RowInv(q) /\ resumed[q] \in Nat
      BY DEF IInv, TypeOK
    <2>2. CASE cont'[q] = cont[q] /\ resumed'[q] = resumed[q]
      BY <2>1, <2>2 DEF RowInv
    <2>3. CASE q = h /\ cont[q] # "none" /\ cont'[q] \in {"dispatch_intent"} \cup Ended /\ resumed'[q] <= 1
      BY <2>1, <2>3 DEF RowInv, Ended
    <2> QED BY <2>2, <2>3
  <1>4. ASSUME NEW q \in Question, ScopeOf[q] = s, cont'[q] = "dispatch_intent"
        PROVE  q = h
    BY <1>4
  <1>5. LaneInv(s)'
    <2>1. CASE Leave(s) /\ cont'[h] # "dispatch_intent"
      <3>1. stage'[s] = "idle"
        BY <2>1, LeaveLane
      <3>2. \A q \in Question : ~(ScopeOf[q] = s /\ cont'[q] = "dispatch_intent")
        BY <1>4, <2>1
      <3> QED BY <1>2, <3>1, <3>2 DEF LaneInv
    <2>2. CASE lane' = lane /\ stage' = [stage EXCEPT ![s] = "resuming"] /\ cont'[h] = "ready"
      <3>1. stage'[s] = "resuming" /\ lane'[s] = lane[s]
        BY <2>2 DEF IInv, TypeOK
      <3>2. \A q \in Question : ~(ScopeOf[q] = s /\ cont'[q] = "dispatch_intent")
        BY <1>4, <2>2
      <3> QED BY <1>2, <2>2, <3>1, <3>2 DEF LaneInv
    <2>3. CASE lane' = lane /\ stage' = [stage EXCEPT ![s] = "prompting"] /\ cont'[h] = "dispatch_intent"
      <3>1. stage'[s] = "prompting" /\ lane'[s] = lane[s]
        BY <2>3 DEF IInv, TypeOK
      <3>2. \A q \in Question : ScopeOf[q] = s /\ cont'[q] = "dispatch_intent" => q = h
        BY <1>4
      <3> QED BY <1>2, <2>3, <3>1, <3>2 DEF LaneInv
    <2> QED BY <2>1, <2>2, <2>3
  <1>6. ASSUME NEW r \in Session \ {s} PROVE LaneInv(r)'
    <2>1. \A q \in Question : ScopeOf[q] # s => cont'[q] = cont[q]
      BY <1>1
    <2> QED BY <1>2, <2>1, OtherLane
  <1>7. Serialized'
    <2>1. ASSUME NEW q \in Question, NEW p \in Question, ScopeOf[q] = ScopeOf[p],
                 cont'[q] = "dispatch_intent", cont'[p] = "dispatch_intent"
          PROVE  q = p
      <3>1. CASE ScopeOf[q] = s
        BY <1>4, <2>1, <3>1
      <3>2. CASE ScopeOf[q] # s
        BY <1>1, <2>1, <3>2 DEF IInv, Serialized
      <3> QED BY <3>1, <3>2
    <2> QED BY <2>1 DEF Serialized
  <1> QED BY <1>2, <1>3, <1>5, <1>6, <1>7

LEMMA ContinuationIInv ==
  ASSUME IInv, NEW s \in Session, Begin(s) \/ Refuse(s) \/ Resume(s) \/ Finish(s)
  PROVE  IInv'
  <1> DEFINE h == Head(lane[s])
  <1>1. LaneInv(s) /\ lane[s] \in Seq(Question) /\ stage[s] \in {"idle", "resuming", "prompting"}
    BY DEF IInv, TypeOK
  <1>2. /\ up /\ lane[s] # <<>> /\ UNCHANGED <<state, winner, told, up>>
        /\ UNCHANGED <<overdue, held, draining, connected, attached, crashes>>
    BY <1>1 DEF Begin, AtTurn, Refuse, Resume, Finish, LaneInv, clients
  <1>3. h \in Question
    BY <1>1, <1>2
  <1>4. RowInv(h) /\ resumed[h] \in Nat
    BY <1>3 DEF IInv, TypeOK
  <1>5. \A q \in Question : ScopeOf[q] = s /\ cont[q] = "dispatch_intent" => q = h
    BY <1>1, <1>2 DEF LaneInv
  <1>6. /\ closed' \subseteq Session /\ failed' \in BOOLEAN
        /\ activity' \in [Session -> {"idle", "running", "ending", "settled"}]
    BY DEF Begin, Refuse, Resume, Finish, IInv, TypeOK
  <1>7. ASSUME cont' \in [Question -> {"none", "ready", "dispatch_intent"} \cup Ended],
               resumed' \in [Question -> Nat],
               lane' \in [Session -> Seq(Question)],
               stage' \in [Session -> {"idle", "resuming", "prompting"}]
        PROVE  TypeOK'
    BY <1>2, <1>6, <1>7 DEF IInv, TypeOK
  <1>8. CASE Leave(s) /\ UNCHANGED <<cont, resumed>> /\ stage[s] # "prompting"
    <2>1. cont'[h] # "dispatch_intent"
      BY <1>1, <1>2, <1>3, <1>8 DEF LaneInv, RowInv, IInv
    <2>2. /\ cont' \in [Question -> {"none", "ready", "dispatch_intent"} \cup Ended]
          /\ resumed' \in [Question -> Nat]
      BY <1>8 DEF IInv, TypeOK
    <2>3. IInv
      OBVIOUS
    <2>4. /\ lane' \in [Session -> Seq(Question)]
          /\ stage' \in [Session -> {"idle", "resuming", "prompting"}]
          /\ \A q \in Question : RowInv(q)'
          /\ \A r \in Session : LaneInv(r)'
          /\ Serialized'
      BY <1>2, <1>5, <1>8, <2>1, <2>2, HeadMoves
    <2> QED BY <1>7, <2>2, <2>4 DEF IInv
  <1>9. CASE Begin(s)
    <2>1. CASE Leave(s)
      BY <1>8, <1>9, <2>1 DEF Begin, AtTurn
    <2>2. CASE cont[h] = "ready" /\ stage' = [stage EXCEPT ![s] = "resuming"] /\ UNCHANGED lane
      <3>1. UNCHANGED <<cont, resumed>>
        BY <1>9 DEF Begin
      <3>2. /\ cont' \in [Question -> {"none", "ready", "dispatch_intent"} \cup Ended]
            /\ resumed' \in [Question -> Nat]
        BY <3>1 DEF IInv, TypeOK
      <3>3. /\ lane' \in [Session -> Seq(Question)]
            /\ stage' \in [Session -> {"idle", "resuming", "prompting"}]
            /\ \A q \in Question : RowInv(q)'
            /\ \A r \in Session : LaneInv(r)'
            /\ Serialized'
        BY <1>2, <1>5, <2>2, <3>1, <3>2, HeadMoves
      <3> QED BY <1>7, <3>2, <3>3 DEF IInv
    <2> QED BY <1>9, <2>1, <2>2 DEF Begin
  <1>10. CASE Refuse(s)
    BY <1>8, <1>10 DEF Refuse
  <1>11. ASSUME NEW v \in {"dispatch_intent"} \cup Ended, NEW n \in Nat, cont[h] # "none", n <= 1,
                cont' = [cont EXCEPT ![h] = v], resumed' = [resumed EXCEPT ![h] = n],
                \/ Leave(s) /\ v # "dispatch_intent"
                \/ /\ lane' = lane /\ cont[h] = "ready" /\ v = "dispatch_intent"
                   /\ stage' = [stage EXCEPT ![s] = "prompting"]
         PROVE  IInv'
    <2>1. /\ cont' \in [Question -> {"none", "ready", "dispatch_intent"} \cup Ended]
          /\ resumed' \in [Question -> Nat]
      BY <1>11 DEF IInv, TypeOK
    <2>2. cont'[h] = v /\ resumed'[h] = n
      BY <1>3, <1>11 DEF IInv, TypeOK
    <2>3. \A q \in Question \ {h} : cont'[q] = cont[q] /\ resumed'[q] = resumed[q]
      BY <1>11 DEF IInv, TypeOK
    <2>4. /\ lane' \in [Session -> Seq(Question)]
          /\ stage' \in [Session -> {"idle", "resuming", "prompting"}]
          /\ \A q \in Question : RowInv(q)'
          /\ \A r \in Session : LaneInv(r)'
          /\ Serialized'
      BY <1>2, <1>5, <1>11, <2>1, <2>2, <2>3, HeadMoves
    <2> QED BY <1>7, <2>1, <2>4 DEF IInv
  <1>12. CASE Resume(s)
    <2>1. cont[h] = "ready" /\ resumed[h] = 0
      BY <1>1, <1>4, <1>12 DEF Resume, LaneInv, RowInv
    <2>2. CASE /\ cont' = [cont EXCEPT ![h] = "dispatch_intent"]
               /\ resumed' = [resumed EXCEPT ![h] = @ + 1]
               /\ stage' = [stage EXCEPT ![s] = "prompting"]
               /\ UNCHANGED lane
      <3>1. resumed' = [resumed EXCEPT ![h] = 1]
        BY <2>1, <2>2
      <3>2. "dispatch_intent" \in {"dispatch_intent"} \cup Ended /\ 1 \in Nat /\ 1 <= 1
        OBVIOUS
      <3>3. cont[h] # "none" /\ lane' = lane
        BY <2>1, <2>2
      <3> QED BY <1>11, <2>1, <2>2, <3>1, <3>2, <3>3
    <2>3. CASE cont' = [cont EXCEPT ![h] = "indeterminate"] /\ Leave(s) /\ UNCHANGED resumed
      <3>1. resumed' = [resumed EXCEPT ![h] = 0]
        BY <1>3, <2>1, <2>3 DEF IInv, TypeOK
      <3>2. "indeterminate" \in {"dispatch_intent"} \cup Ended /\ 0 \in Nat /\ 0 <= 1
        BY DEF Ended
      <3> QED BY <1>11, <2>1, <2>3, <3>1, <3>2
    <2> QED BY <1>12, <2>2, <2>3 DEF Resume
  <1>13. CASE Finish(s)
    <2>1. cont[h] # "none" /\ resumed[h] <= 1
      BY <1>1, <1>4, <1>13 DEF Finish, LaneInv, RowInv
    <2>2. PICK v \in {"completed", "indeterminate"} : cont' = [cont EXCEPT ![h] = v]
      BY <1>13 DEF Finish
    <2>3. resumed' = [resumed EXCEPT ![h] = resumed[h]] /\ Leave(s)
      BY <1>3, <1>13 DEF Finish, IInv, TypeOK
    <2>4. v \in Ended /\ v # "dispatch_intent"
      BY DEF Ended
    <2> QED BY <1>4, <1>11, <2>1, <2>2, <2>3, <2>4
  <1> QED BY <1>9, <1>10, <1>12, <1>13

\* The process dies: nobody waits any more, and no lane is left.
LEMMA CrashIInv ==
  ASSUME IInv, Crash
  PROVE  IInv'
  <1>1. TypeOK'
    <2>1. lane' \in [Session -> Seq(Question)]
      BY DEF Crash
    <2>2. attached' \in [Client -> SUBSET Session] /\ crashes' \in 0 .. MaxCrashes
      BY BrokerAssumption DEF BrokerAssumption, Crash, IInv, TypeOK
    <2>3. /\ state' \in [Question -> {"new", "waiting", "deferred", "lost"} \cup Resolved]
          /\ told' \in [Question -> {"none", "waiting", "answered", "deferred", "cancelled", "gone"}]
      BY DEF Crash, IInv, TypeOK
    <2>4. /\ activity' \in [Session -> {"idle", "running", "ending", "settled"}]
          /\ stage' \in [Session -> {"idle", "resuming", "prompting"}]
      BY DEF Crash
    <2> QED BY <2>1, <2>2, <2>3, <2>4 DEF Crash, IInv, TypeOK
  <1>2. ASSUME NEW q \in Question PROVE RowInv(q)'
    BY DEF Crash, IInv, TypeOK, RowInv, Pending
  <1>3. (\A s \in Session : LaneInv(s)') /\ Serialized'
    BY DEF Crash, IInv, LaneInv, Serialized
  <1> QED BY <1>1, <1>2, <1>3 DEF IInv

\* The daemon starts again: no dispatch intent survives recovery.
LEMMA RestartIInv ==
  ASSUME IInv, Restart
  PROVE  IInv'
  <1>1. ASSUME NEW q \in Question
        PROVE  /\ RecoveredCont(q) \in {"none", "ready"} \cup Ended
               /\ RecoveredCont(q) = "none" <=> cont[q] = "none"
               /\ RecoveredCont(q) = "ready" => cont[q] = "ready"
    BY DEF RecoveredCont, IInv, TypeOK, Ended
  <1>2. ASSUME NEW q \in Question
        PROVE  /\ RecoveredState(q) \in {"new", "deferred", "lost"} \cup Resolved
               /\ ~Pending(q) => RecoveredState(q) = state[q]
               /\ Pending(q) => RecoveredState(q) \in {"deferred", "cancelled", "expired"}
    BY DEF RecoveredState, IInv, TypeOK, Resolved, Pending
  <1>3. ASSUME NEW s \in Session
        PROVE  /\ RecoveredLane(s) \in Seq(Question)
               /\ \A i \in 1 .. Len(RecoveredLane(s)) : ScopeOf[RecoveredLane(s)[i]] = s
    <2> DEFINE S == {q \in Question : ScopeOf[q] = s /\ RecoveredCont(q) = "ready"}
    <2>1. S \in SUBSET Question
      OBVIOUS
    <2>2. SetToSeq(S) \in [1 .. Len(SetToSeq(S)) -> S] /\ SetToSeq(S) \in Seq(Question)
      BY <2>1, SeqOfSet
    <2>3. RecoveredLane(s) = SetToSeq(S)
      BY DEF RecoveredLane
    <2>4. \A i \in 1 .. Len(SetToSeq(S)) : SetToSeq(S)[i] \in S
      BY <2>2
    <2> QED BY <2>2, <2>3, <2>4
  <1>4. stage' = stage /\ \A s \in Session : stage[s] = "idle"
    BY DEF Restart, work, IInv, LaneInv, TypeOK
  <1>5. TypeOK'
    <2>1. lane' \in [Session -> Seq(Question)]
      <3>1. CASE lane' = [s \in Session |-> <<>>]
        BY <3>1
      <3>2. CASE lane' = [s \in Session |-> RecoveredLane(s)]
        BY <1>3, <3>2
      <3> QED BY <3>1, <3>2 DEF Restart
    <2>2. state' \in [Question -> {"new", "waiting", "deferred", "lost"} \cup Resolved]
      BY <1>2 DEF Restart
    <2>3. cont' \in [Question -> {"none", "ready", "dispatch_intent"} \cup Ended]
      BY <1>1 DEF Restart
    <2> QED BY <2>1, <2>2, <2>3 DEF Restart, clients, IInv, TypeOK
  <1>6. ASSUME NEW q \in Question PROVE RowInv(q)'
    BY <1>1, <1>2 DEF Restart, IInv, TypeOK, RowInv, Pending, Resolved
  <1>7. ASSUME NEW s \in Session PROVE LaneInv(s)'
    <2>1. stage'[s] = "idle" /\ lane'[s] \in {<<>>, RecoveredLane(s)}
      BY <1>4 DEF Restart
    <2>2. \A q \in Question : cont'[q] # "dispatch_intent"
      BY <1>1 DEF Restart, Ended
    <2> QED BY <1>3, <2>1, <2>2 DEF LaneInv
  <1>8. Serialized'
    BY <1>1 DEF Restart, Serialized, Ended
  <1> QED BY <1>5, <1>6, <1>7, <1>8 DEF IInv
-----------------------------------------------------------------------------
(* The invariant, and what follows from it.                                *)

LEMMA StepIInv == IInv /\ [Next]_vars => IInv'
  <1> SUFFICES ASSUME IInv, [Next]_vars PROVE IInv'
    OBVIOUS
  <1>1. CASE UNCHANGED vars
    BY <1>1 DEF IInv, TypeOK, RowInv, LaneInv, Serialized, vars, clients, work
  <1>2. ASSUME NEW q \in Question,
               Request(q) \/ Abort(q) \/ DeadlinePasses(q) \/ HoldPasses(q)
        PROVE  IInv'
    BY <1>2, QuietIInv, WithdrawIInv
  <1>3. ASSUME NEW q \in Question, NEW by \in Client \cup {Platform},
               Answer(by, q) \/ Dismiss(by, q)
        PROVE  IInv'
    BY <1>3, AnswerIInv, WithdrawIInv
  <1>4. ASSUME NEW c \in Client, Connect(c) \/ Disconnect(c) PROVE IInv'
    BY <1>4, QuietIInv, WithdrawIInv
  <1>5. ASSUME NEW c \in Client, NEW s \in Session, Attach(c, s) \/ Detach(c, s) PROVE IInv'
    BY <1>5, QuietIInv, WithdrawIInv
  <1>6. ASSUME NEW s \in Session,
               \/ Reopen(s) \/ StartRun(s) \/ EndRun(s)
               \/ BeginEnding(s) \/ Settle(s) \/ EndSettled(s)
        PROVE  IInv'
    BY <1>6, QuietIInv, WithdrawIInv
  <1>7. ASSUME NEW s \in Session, Begin(s) \/ Refuse(s) \/ Resume(s) \/ Finish(s) PROVE IInv'
    BY <1>7, ContinuationIInv
  <1>8. CASE Timer \/ Drain \/ Crash \/ Restart
    BY <1>8, WithdrawIInv, CrashIInv, RestartIInv
  <1> QED BY <1>1, <1>2, <1>3, <1>4, <1>5, <1>6, <1>7, <1>8 DEF Next

LEMMA InvariantIInv == Spec => []IInv
  BY InitIInv, StepIInv, PTL DEF Spec

\* The variables keep their types.
THEOREM BrokerTypes == Spec => []TypeOK
  <1>1. IInv => TypeOK
    BY DEF IInv
  <1> QED BY <1>1, InvariantIInv, PTL

\* While the daemon runs somebody waits exactly for the waiting rows, and an
\* asker is told of an answer only if it won (broker.ts observe).
THEOREM AskersAgree == Spec => []AskerAgrees
  <1>1. IInv => AskerAgrees
    BY DEF IInv, RowInv, AskerAgrees
  <1> QED BY <1>1, InvariantIInv, PTL

\* Continuations of one session never overlap (broker.ts startContinuation).
THEOREM ContinuationsSerialized == Spec => []Serialized
  <1>1. IInv => Serialized
    BY DEF IInv
  <1> QED BY <1>1, InvariantIInv, PTL

\* An answer reaches its agent through the promise or one continuation, never
\* both, whatever crashes in between.
THEOREM AnswerDeliveredOnce == Spec => []DeliveredOnce
  <1>1. IInv => DeliveredOnce
    <2> SUFFICES ASSUME IInv, NEW q \in Question
                 PROVE  /\ told[q] = "answered" => cont[q] = "none"
                        /\ resumed[q] <= 1
                        /\ resumed[q] = 1 => state[q] = "answered" /\ cont[q] \notin {"none", "ready"}
      BY DEF DeliveredOnce
    <2> QED BY DEF IInv, RowInv, TypeOK
  <1> QED BY <1>1, InvariantIInv, PTL
-----------------------------------------------------------------------------
(* Who waits could be answered.                                            *)

\* A prompt that needs a presenter has one.
Presented(q) ==
  IF q \in Transient THEN Presentable(q, connected, attached) ELSE Recipient[q] \in connected

WaitInv ==
  \A q \in Question :
    /\ draining => told[q] # "waiting"
    /\ up /\ ~failed /\ state[q] = "waiting" /\ NeedsPresenter(q) => Presented(q)

\* Nobody begins to wait, and who is there stays.
NoNewWait ==
  \A q \in Question :
    /\ state'[q] = "waiting" => state[q] = "waiting"
    /\ told'[q] = "waiting" => told[q] = "waiting"

\* A step that begins no wait while the clients stay keeps the waits presented.
LEMMA WaitsStand ==
  ASSUME WaitInv, NoNewWait, UNCHANGED <<clients, draining>>, up' => up, failed => failed'
  PROVE  WaitInv'
  BY DEF WaitInv, NoNewWait, Presented, Presentable, Eligible, clients

\* Publishing begins no wait for the rows it leaves as they are.
LEMMA PublishEnds ==
  ASSUME NEW S \in SUBSET Question, NEW next, Publish(S, next),
         \A q \in Question : next[q] = "waiting" => state[q] = "waiting"
  PROVE  NoNewWait
  BY DEF Publish, ToldOf, NoNewWait, Outcome

\* A new prompt that needs a presenter is refused or has one.
LEMMA RequestWaits ==
  ASSUME IInv, WaitInv, NEW q \in Question, Request(q)
  PROVE  WaitInv'
<1> SUFFICES ASSUME NEW p \in Question
             PROVE  /\ draining' => told'[p] # "waiting"
                    /\ up' /\ ~failed' /\ state'[p] = "waiting" /\ NeedsPresenter(p) => Presented(p)'
  BY DEF WaitInv, NeedsPresenter
<1>1. Presented(p)' <=> Presented(p)
  BY DEF Request, clients, Presented, Presentable, Eligible
<1>2. ~draining /\ ~draining' /\ up' = up /\ failed' = failed
  BY DEF Request
<1>3. CASE p # q
  BY <1>1, <1>2, <1>3 DEF WaitInv, Request, IInv, TypeOK
<1>4. CASE p = q /\ NeedsPresenter(q) /\ state'[q] = "waiting"
  <2>1. Presentable(q, connected, attached)
    BY <1>4 DEF Request, IInv, TypeOK
  <2> QED BY <1>1, <1>2, <1>4, <2>1 DEF Presented, Presentable, Eligible, NeedsPresenter
<1> QED BY <1>2, <1>3, <1>4

\* A client that goes takes the waits nobody else could answer with it.
LEMMA DepartWaits ==
  ASSUME IInv, WaitInv, NEW online \in SUBSET Client, NEW sessions, Depart(online, sessions), up
  PROVE  WaitInv'
<1> DEFINE gone == IF failed THEN {} ELSE Orphaned(online, sessions)
<1>1. /\ connected' = online /\ attached' = sessions
      /\ Publish(gone, Moved(gone, "cancelled"))
      /\ UNCHANGED <<draining, failed, up>>
  BY DEF Depart
<1>2. gone \in SUBSET Question
  BY DEF Orphaned
<1> HIDE DEF gone
<1>3. \A q \in Question : Moved(gone, "cancelled")[q] = "waiting" => state[q] = "waiting" /\ q \notin gone
  BY DEF Moved
<1>4. NoNewWait
  BY <1>1, <1>2, <1>3, PublishEnds
<1> SUFFICES ASSUME NEW q \in Question
             PROVE  /\ draining' => told'[q] # "waiting"
                    /\ up' /\ ~failed' /\ state'[q] = "waiting" /\ NeedsPresenter(q) => Presented(q)'
  BY DEF WaitInv, NeedsPresenter
<1>5. draining' => told'[q] # "waiting"
  BY <1>1, <1>4 DEF WaitInv, NoNewWait
<1>6. ASSUME ~failed, state'[q] = "waiting", NeedsPresenter(q)
      PROVE  Presented(q)'
  <2>1. state[q] = "waiting" /\ q \notin gone
    BY <1>1, <1>3, <1>6 DEF Publish
  <2>2. told[q] = "waiting"
    BY <2>1 DEF IInv, RowInv
  <2>3. q \notin Orphaned(online, sessions)
    BY <2>1, <1>6 DEF gone
  <2>4. /\ q \in Transient => Presentable(q, online, sessions)
        /\ Recipient[q] # NoClient => Recipient[q] \in online
    BY <2>1, <2>2, <2>3 DEF Orphaned, Pending
  <2> QED BY <1>1, <1>6, <2>4 DEF Presented, NeedsPresenter, Presentable, Eligible
<1> QED BY <1>1, <1>5, <1>6

\* A client that comes takes nobody's presenter away.
LEMMA ArriveWaits ==
  ASSUME IInv, WaitInv, NEW c \in Client,
         Connect(c) \/ \E s \in Session : Attach(c, s)
  PROVE  WaitInv'
<1>1. /\ connected \subseteq connected'
      /\ UNCHANGED <<state, told, draining, failed, up>>
      /\ \A d \in connected : attached[d] \subseteq attached'[d]
  <2>1. CASE Connect(c)
    BY <2>1 DEF Connect, IInv, TypeOK
  <2>2. ASSUME NEW s \in Session, Attach(c, s)
        PROVE  /\ connected \subseteq connected'
               /\ UNCHANGED <<state, told, draining, failed, up>>
               /\ \A d \in connected : attached[d] \subseteq attached'[d]
    BY <2>2 DEF Attach, IInv, TypeOK
  <2> QED BY <2>1, <2>2
<1>2. \A q \in Question : Presented(q) => Presented(q)'
  BY <1>1 DEF Presented, Presentable, Eligible
<1> QED BY <1>1, <1>2 DEF WaitInv, NeedsPresenter

\* A drain leaves nobody waiting.
LEMMA DrainWaits ==
  ASSUME IInv, Drain
  PROVE  WaitInv'
<1> SUFFICES ASSUME NEW q \in Question
             PROVE  told'[q] # "waiting" /\ state'[q] # "waiting"
  BY DEF WaitInv, NeedsPresenter
<1>1. state'[q] # "waiting"
  BY DEF Drain, Publish, DeferOrCancel, DrainedQuestions, Pending
<1>2. told[q] = "waiting" => q \in DrainedQuestions
  BY DEF IInv, RowInv, DrainedQuestions, Pending
<1>3. told'[q] = ToldOf(DrainedQuestions, state')[q]
  BY DEF Drain, Publish
<1>4. ToldOf(DrainedQuestions, state')[q] # "waiting"
  BY <1>1, <1>2 DEF ToldOf, Outcome
<1> QED BY <1>1, <1>3, <1>4

\* A dead daemon has nobody waiting, a new one no row that waits.
LEMMA DeathWaits ==
  ASSUME IInv, WaitInv, Crash \/ Restart
  PROVE  WaitInv'
<1>1. CASE Crash
  BY <1>1 DEF Crash, WaitInv
<1>2. CASE Restart
  <2>1. \A q \in Question : told[q] # "waiting"
    BY <1>2 DEF Restart, IInv, RowInv
  <2>2. \A q \in Question : state'[q] # "waiting"
    BY <1>2 DEF Restart, RecoveredState, Pending
  <2> QED BY <1>2, <2>1, <2>2 DEF Restart, WaitInv
<1> QED BY <1>1, <1>2

\* Every step leaves each wait somebody who could end it.
LEMMA WaitStep == IInv /\ WaitInv /\ [Next]_vars => WaitInv'
<1> SUFFICES ASSUME IInv, WaitInv, [Next]_vars PROVE WaitInv'
  OBVIOUS
<1>1. CASE UNCHANGED vars
  BY <1>1, WaitsStand DEF vars, clients, NoNewWait
<1>2. ASSUME NEW q \in Question, Request(q) PROVE WaitInv'
  BY <1>2, RequestWaits
<1>3. ASSUME NEW q \in Question, DeadlinePasses(q) \/ HoldPasses(q) PROVE WaitInv'
  BY <1>3, WaitsStand DEF DeadlinePasses, HoldPasses, NoNewWait
<1>4. ASSUME NEW S \in SUBSET Question, NEW next, Publish(S, next),
             \A q \in Question : next[q] = "waiting" => state[q] = "waiting",
             UNCHANGED <<clients, draining, up, failed>>
      PROVE  WaitInv'
  <2>1. NoNewWait
    BY <1>4, PublishEnds
  <2> QED BY <1>4, <2>1, WaitsStand
<1>5. ASSUME NEW S \in SUBSET Question, NEW target \in {"cancelled", "answered"}
      PROVE  \A q \in Question : Moved(S, target)[q] = "waiting" => state[q] = "waiting"
  BY DEF Moved
<1>6. ASSUME NEW q \in Question, Abort(q) PROVE WaitInv'
  BY <1>4, <1>5, <1>6 DEF Abort
<1>7. ASSUME NEW q \in Question, NEW by \in Client \cup {Platform},
             Answer(by, q) \/ Dismiss(by, q)
      PROVE  WaitInv'
  BY <1>4, <1>5, <1>7 DEF Answer, Dismiss
<1>8. ASSUME NEW c \in Client, Connect(c) \/ Disconnect(c) PROVE WaitInv'
  BY <1>8, ArriveWaits, DepartWaits DEF Disconnect, IInv, TypeOK
<1>9. ASSUME NEW c \in Client, NEW s \in Session, Attach(c, s) \/ Detach(c, s) PROVE WaitInv'
  BY <1>9, ArriveWaits, DepartWaits DEF Detach, IInv, TypeOK
<1>10. ASSUME NEW s \in Session,
              \/ Reopen(s) \/ StartRun(s) \/ EndRun(s) \/ BeginEnding(s)
              \/ Begin(s) \/ Refuse(s) \/ Resume(s) \/ Finish(s)
       PROVE  WaitInv'
  <2>1. UNCHANGED <<state, told, clients, draining, up>> /\ (failed => failed')
    BY <1>10 DEF Reopen, StartRun, EndRun, BeginEnding, Begin, Refuse, Resume, Finish, IInv, TypeOK
  <2> QED BY <2>1, WaitsStand DEF NoNewWait
<1>11. ASSUME NEW s \in Session, Settle(s) PROVE WaitInv'
  BY <1>4, <1>5, <1>11 DEF Settle, SettledBy
<1>12. ASSUME NEW s \in Session, EndSettled(s) PROVE WaitInv'
  <2>1. CASE UNCHANGED <<state, told, closed>>
    BY <1>12, <2>1, WaitsStand DEF EndSettled, NoNewWait
  <2>2. CASE LET asking == {q \in SettledBy(s) : ~failed /\ told[q] = "waiting"} IN
             closed' = closed \cup {s} /\ Publish(asking, Moved(asking, "cancelled"))
    BY <1>4, <1>5, <1>12, <2>2 DEF EndSettled, SettledBy
  <2> QED BY <1>12, <2>1, <2>2 DEF EndSettled
<1>13. CASE Timer
  <2> DEFINE next == [q \in Question |-> IF q \in Due THEN "expired"
                                         ELSE IF q \in HeldTooLong THEN "deferred" ELSE state[q]]
  <2>1. Due \cup HeldTooLong \in SUBSET Question
    BY DEF Due, HeldTooLong, IInv, TypeOK
  <2>2. \A q \in Question : next[q] = "waiting" => state[q] = "waiting"
    OBVIOUS
  <2>3. Publish(Due \cup HeldTooLong, next) /\ UNCHANGED <<clients, draining, up, failed>>
    BY <1>13 DEF Timer
  <2> QED BY <1>4, <2>1, <2>2, <2>3
<1>14. CASE Drain \/ Crash \/ Restart
  BY <1>14, DrainWaits, DeathWaits
<1> QED
  BY <1>1, <1>2, <1>3, <1>6, <1>7, <1>8, <1>9, <1>10, <1>11, <1>12, <1>13, <1>14 DEF Next

\* Nobody waits for a user who cannot come: a drain leaves nobody waiting, and
\* a prompt that needs a presenter has one (broker.ts drain, cancelUnpresentableOAuth).
THEOREM NobodyWaits == Spec => []NobodyWaitsInVain
<1>1. Init => WaitInv
  BY DEF Init, WaitInv
<1>2. WaitInv => NobodyWaitsInVain
  BY DEF WaitInv, NobodyWaitsInVain, DrainedNobodyWaits, WaitsForSomebody, Presented
<1> QED
  BY <1>1, <1>2, WaitStep, InvariantIInv, PTL DEF Spec
-----------------------------------------------------------------------------
(* What one step can do to one question.                                   *)

Stands(q) ==
  /\ state'[q] = state[q] /\ winner'[q] = winner[q] /\ resumed'[q] = resumed[q]
  /\ told'[q] = "answered" <=> told[q] = "answered"

IsAsked(q) ==
  /\ state[q] = "new" /\ state'[q] = "waiting" /\ resumed'[q] = resumed[q]
  /\ told[q] # "answered" /\ told'[q] # "answered"

IsWithdrawn(q) ==
  /\ Pending(q) /\ state'[q] \in {"deferred", "cancelled", "expired", "lost"}
  /\ resumed'[q] = resumed[q]
  /\ told[q] # "answered" /\ told'[q] # "answered"

IsAnswered(q) ==
  /\ Pending(q) /\ state'[q] = "answered" /\ told[q] # "answered"
  /\ resumed[q] = 0 /\ resumed'[q] = 0

IsResumed(q) ==
  /\ state[q] = "answered" /\ state'[q] = "answered" /\ winner'[q] = winner[q]
  /\ told[q] # "answered" /\ told'[q] # "answered"
  /\ resumed[q] = 0 /\ resumed'[q] = 1

Moves(q) == Stands(q) \/ IsAsked(q) \/ IsWithdrawn(q) \/ IsAnswered(q) \/ IsResumed(q)

LEMMA PublishMoves ==
  ASSUME IInv, NEW S, NEW next,
         \A q \in S : Pending(q) /\ next[q] \in {"deferred", "cancelled", "expired"},
         \A q \in Question \ S : next[q] = state[q],
         Publish(S, next), UNCHANGED <<winner, resumed>>
  PROVE  \A q \in Question : Moves(q)
  <1> SUFFICES ASSUME NEW q \in Question PROVE Moves(q)
    OBVIOUS
  <1>1. RowInv(q)
    BY DEF IInv
  <1>2. CASE q \in S
    <2>1. state'[q] \in {"deferred", "cancelled", "expired"} /\ Pending(q)
      BY <1>2 DEF Publish
    <2>2. told[q] # "answered"
      BY <1>1, <2>1 DEF RowInv, Pending
    <2>3. told'[q] # "answered"
      BY <2>1, <2>2 DEF Publish, ToldOf, Outcome
    <2> QED BY <2>1, <2>2, <2>3 DEF Moves, IsWithdrawn
  <1>3. CASE q \notin S
    BY <1>3 DEF Publish, ToldOf, Moves, Stands
  <1> QED BY <1>2, <1>3

LEMMA WithdrawMoves ==
  ASSUME IInv,
         \/ \E q \in Question : Abort(q) \/ \E by \in Client \cup {Platform} : Dismiss(by, q)
         \/ \E c \in Client : Disconnect(c) \/ \E s \in Session : Detach(c, s)
         \/ Timer \/ Drain
         \/ \E s \in Session : Settle(s) \/ EndSettled(s)
  PROVE  \A q \in Question : Moves(q)
  <1>1. UNCHANGED <<winner, resumed>>
    BY DEF Abort, Dismiss, Disconnect, Detach, Depart, Timer, Drain, Settle, EndSettled
  <1>2. ASSUME NEW S \in SUBSET Question, \A q \in S : Pending(q),
               Publish(S, Moved(S, "cancelled"))
        PROVE  \A q \in Question : Moves(q)
    <2> DEFINE next == Moved(S, "cancelled")
    <2>1. \A q \in S : Pending(q) /\ next[q] \in {"deferred", "cancelled", "expired"}
      BY <1>2 DEF Moved
    <2>2. \A q \in Question \ S : next[q] = state[q]
      BY DEF Moved
    <2>3. Publish(S, next)
      BY <1>2
    <2> HIDE DEF next
    <2> QED BY <1>1, <2>1, <2>2, <2>3, PublishMoves
  <1>3. ASSUME NEW q \in Question, Abort(q) \/ \E by \in Client \cup {Platform} : Dismiss(by, q)
        PROVE  \A p \in Question : Moves(p)
    <2>1. {q} \in SUBSET Question /\ \A p \in {q} : Pending(p)
      BY <1>3 DEF Abort, Dismiss, Answerable
    <2>2. Publish({q}, Moved({q}, "cancelled"))
      BY <1>3 DEF Abort, Dismiss
    <2> QED BY <1>2, <2>1, <2>2
  <1>4. ASSUME NEW online, NEW sessions, Depart(online, sessions)
        PROVE  \A p \in Question : Moves(p)
    <2> DEFINE gone == IF failed THEN {} ELSE Orphaned(online, sessions)
    <2>1. gone \in SUBSET Question /\ \A p \in gone : Pending(p)
      BY DEF Orphaned
    <2>2. Publish(gone, Moved(gone, "cancelled"))
      BY <1>4 DEF Depart
    <2> HIDE DEF gone
    <2> QED BY <1>2, <2>1, <2>2
  <1>5. CASE Timer
    <2> DEFINE next == [q \in Question |-> IF q \in Due THEN "expired"
                                 ELSE IF q \in HeldTooLong THEN "deferred" ELSE state[q]]
    <2>1. /\ \A q \in Due \cup HeldTooLong : Pending(q) /\ next[q] \in {"deferred", "cancelled", "expired"}
          /\ \A q \in Question \ (Due \cup HeldTooLong) : next[q] = state[q]
      <3>1. /\ Due \subseteq Question /\ HeldTooLong \subseteq Question
            /\ \A q \in Due \cup HeldTooLong : Pending(q)
        BY DEF Due, HeldTooLong, Holdable, Pending, IInv, TypeOK
      <3> QED BY <3>1
    <2>2. Publish(Due \cup HeldTooLong, next)
      BY <1>5 DEF Timer
    <2> HIDE DEF next
    <2> QED BY <1>1, <2>1, <2>2, PublishMoves
  <1>6. CASE Drain
    <2> DEFINE next == DeferOrCancel(DrainedQuestions)
    <2>1. /\ \A q \in DrainedQuestions : Pending(q) /\ next[q] \in {"deferred", "cancelled", "expired"}
          /\ \A q \in Question \ DrainedQuestions : next[q] = state[q]
      BY DEF DrainedQuestions, DeferOrCancel
    <2>2. Publish(DrainedQuestions, next)
      BY <1>6 DEF Drain
    <2> HIDE DEF next
    <2> QED BY <1>1, <2>1, <2>2, PublishMoves
  <1>7. ASSUME NEW s \in Session, Settle(s) PROVE \A p \in Question : Moves(p)
    BY <1>2, <1>7 DEF Settle, SettledBy
  <1>8. ASSUME NEW s \in Session, EndSettled(s) PROVE \A p \in Question : Moves(p)
    <2>1. CASE UNCHANGED <<state, told>>
      BY <1>1, <2>1 DEF Moves, Stands
    <2> DEFINE asking == {q \in SettledBy(s) : ~failed /\ told[q] = "waiting"}
    <2>2. CASE Publish(asking, Moved(asking, "cancelled"))
      <3>1. asking \in SUBSET Question /\ \A q \in asking : Pending(q)
        BY DEF SettledBy
      <3> HIDE DEF asking
      <3> QED BY <1>2, <2>2, <3>1
    <2> QED BY <1>8, <2>1, <2>2 DEF EndSettled
  <1> QED BY <1>3, <1>4, <1>5, <1>6, <1>7, <1>8 DEF Disconnect, Detach

LEMMA AnswerMoves ==
  ASSUME IInv, NEW a \in Question, NEW by \in Client \cup {Platform}, Answer(by, a)
  PROVE  \A q \in Question : Moves(q)
  <1> SUFFICES ASSUME NEW q \in Question PROVE Moves(q)
    OBVIOUS
  <1>1. RowInv(q)
    BY DEF IInv
  <1>2. CASE q = a
    <2>1. Pending(q) /\ state'[q] = "answered" /\ resumed'[q] = resumed[q]
      BY <1>2 DEF Answer, Answerable, Publish, Moved
    <2>2. told[q] # "answered" /\ resumed[q] = 0
      BY <1>1, <2>1 DEF RowInv, Pending, IInv, TypeOK
    <2> QED BY <2>1, <2>2 DEF Moves, IsAnswered
  <1>3. CASE q # a
    BY <1>3 DEF Answer, Publish, Moved, ToldOf, IInv, TypeOK, Moves, Stands
  <1> QED BY <1>2, <1>3

LEMMA ContinuationMoves ==
  ASSUME IInv, NEW s \in Session, Begin(s) \/ Refuse(s) \/ Resume(s) \/ Finish(s)
  PROVE  \A q \in Question : Moves(q)
  <1>1. UNCHANGED <<state, winner, told>>
    BY DEF Begin, Refuse, Resume, Finish
  <1>2. CASE UNCHANGED resumed
    BY <1>1, <1>2 DEF Moves, Stands
  <1>3. CASE Resume(s) /\ resumed' = [resumed EXCEPT ![Head(lane[s])] = @ + 1]
    <2> DEFINE h == Head(lane[s])
    <2>1. LaneInv(s) /\ lane[s] \in Seq(Question) /\ stage[s] = "resuming"
      BY <1>3 DEF Resume, IInv, TypeOK
    <2>2. h \in Question /\ cont[h] = "ready"
      BY <2>1 DEF LaneInv
    <2>3. /\ state[h] = "answered" /\ resumed[h] = 0 /\ told[h] # "answered"
      BY <2>2 DEF IInv, RowInv
    <2>4. resumed'[h] = 1 /\ \A q \in Question \ {h} : resumed'[q] = resumed[q]
      BY <1>3, <2>2, <2>3 DEF IInv, TypeOK
    <2>5. Moves(h)
      BY <1>1, <2>3, <2>4 DEF Moves, IsResumed
    <2>6. \A q \in Question \ {h} : Moves(q)
      BY <1>1, <2>4 DEF Moves, Stands
    <2> QED BY <2>5, <2>6
  <1> QED BY <1>2, <1>3 DEF Begin, Refuse, Resume, Finish

\* Every step of the broker moves each question as the contract allows.
LEMMA StepMoves ==
  ASSUME IInv, [Next]_vars, NEW q \in Question
  PROVE  Moves(q)
  <1>1. CASE UNCHANGED <<state, winner, told, resumed>>
    BY <1>1 DEF Moves, Stands
  <1>2. ASSUME NEW a \in Question, Request(a) PROVE Moves(q)
    <2>1. RowInv(q) /\ state[a] = "new" /\ told[a] = "none" /\ resumed' = resumed /\ winner' = winner
      BY <1>2 DEF Request, IInv
    <2>2. CASE q = a
      BY <1>2, <2>1, <2>2 DEF Request, IInv, TypeOK, Moves, IsAsked, Stands
    <2>3. CASE q # a
      BY <1>2, <2>1, <2>3 DEF Request, IInv, TypeOK, Moves, Stands
    <2> QED BY <2>2, <2>3
  <1>3. CASE Crash
    <2>1. RowInv(q)
      BY DEF IInv
    <2>2. /\ state'[q] = IF q \in Transient /\ Pending(q) THEN "lost" ELSE state[q]
          /\ told'[q] = IF told[q] = "waiting" THEN "gone" ELSE told[q]
          /\ resumed' = resumed /\ winner' = winner
      BY <1>3 DEF Crash
    <2> QED BY <2>1, <2>2 DEF RowInv, Pending, Moves, Stands, IsWithdrawn
  <1>4. CASE Restart
    <2>1. RowInv(q)
      BY DEF IInv
    <2>2. state'[q] = RecoveredState(q) /\ told' = told /\ resumed' = resumed /\ winner' = winner
      BY <1>4 DEF Restart
    <2>3. CASE Pending(q)
      BY <2>1, <2>2, <2>3 DEF RecoveredState, RowInv, Pending, Moves, IsWithdrawn
    <2>4. CASE ~Pending(q)
      BY <2>2, <2>4 DEF RecoveredState, Moves, Stands
    <2> QED BY <2>3, <2>4
  <1>5. ASSUME NEW a \in Question, DeadlinePasses(a) \/ HoldPasses(a) PROVE Moves(q)
    BY <1>1, <1>5 DEF DeadlinePasses, HoldPasses
  <1>6. ASSUME NEW c \in Client, Connect(c) \/ \E s \in Session : Attach(c, s) PROVE Moves(q)
    BY <1>1, <1>6 DEF Connect, Attach
  <1>7. ASSUME NEW s \in Session, Reopen(s) \/ StartRun(s) \/ EndRun(s) \/ BeginEnding(s)
        PROVE  Moves(q)
    BY <1>1, <1>7 DEF Reopen, StartRun, EndRun, BeginEnding
  <1>8. ASSUME NEW s \in Session, Begin(s) \/ Refuse(s) \/ Resume(s) \/ Finish(s) PROVE Moves(q)
    BY <1>8, ContinuationMoves
  <1>9. ASSUME NEW a \in Question, NEW by \in Client \cup {Platform}, Answer(by, a) PROVE Moves(q)
    BY <1>9, AnswerMoves
  <1>10. CASE \/ \E a \in Question : Abort(a) \/ \E by \in Client \cup {Platform} : Dismiss(by, a)
              \/ \E c \in Client : Disconnect(c) \/ \E s \in Session : Detach(c, s)
              \/ Timer \/ Drain
              \/ \E s \in Session : Settle(s) \/ EndSettled(s)
    BY <1>10, WithdrawMoves
  <1>11. CASE UNCHANGED vars
    BY <1>1, <1>11 DEF vars
  <1> QED BY <1>2, <1>3, <1>4, <1>5, <1>6, <1>7, <1>8, <1>9, <1>10, <1>11 DEF Next

\* The first valid answer, cancellation or expiry decides, for good, whatever
\* arrives later and whatever crashes (broker.ts dispatch, expire, drain;
\* control-recovery.ts).
THEOREM ResolutionIsFinal == Spec => ResolvedForGood
  <1>1. ASSUME IInv, [Next]_vars, NEW q \in Question, state[q] \in Resolved
        PROVE  state'[q] = state[q] /\ winner'[q] = winner[q]
    <2>1. Moves(q)
      BY <1>1, StepMoves
    <2> QED BY <1>1, <2>1 DEF Moves, Stands, IsAsked, IsWithdrawn, IsAnswered, IsResumed, Pending,
                             Resolved
  <1>2. IInv /\ [Next]_vars =>
          [\A q \in Question :
             state[q] \in Resolved => state'[q] = state[q] /\ winner'[q] = winner[q]]_vars
    BY <1>1
  <1> QED BY <1>2, InvariantIInv, PTL DEF Spec, ResolvedForGood
-----------------------------------------------------------------------------
(* The broker implements Questions.                                        *)

\* What a question looks like to the contract.
StatusOf(q) ==
  IF state[q] = "new" THEN "unasked"
  ELSE IF state[q] \in {"waiting", "deferred"} THEN "open"
  ELSE IF state[q] = "answered" THEN "answered" ELSE "withdrawn"
DeliveriesOf(q) == IF told[q] = "answered" THEN resumed[q] + 1 ELSE resumed[q]

LEMMA ContractInit == Init => Contract!Init
  BY DEF Init, Contract!Init

LEMMA ContractStep ==
  ASSUME IInv, IInv', [Next]_vars
  PROVE  Contract!Next
  <1> SUFFICES ASSUME NEW q \in Question
               PROVE  \/ Contract!Step(q)
                      \/ StatusOf(q)' = StatusOf(q) /\ DeliveriesOf(q)' = DeliveriesOf(q)
    BY DEF Contract!Next, StatusOf, DeliveriesOf
  <1>1. Moves(q)
    BY StepMoves
  <1>2. RowInv(q) /\ RowInv(q)' /\ resumed[q] \in Nat /\ resumed'[q] \in Nat
    BY DEF IInv, TypeOK
  <1>3. CASE Stands(q)
    BY <1>3 DEF Stands, StatusOf, DeliveriesOf
  <1>4. CASE IsAsked(q)
    <2>1. Contract!Ask(q)
      BY <1>4 DEF IsAsked, Contract!Ask
    <2> QED BY <2>1 DEF Contract!Step
  <1>5. CASE IsWithdrawn(q)
    <2>1. CASE state'[q] = "deferred"
      BY <1>5, <2>1 DEF IsWithdrawn, Pending, StatusOf, DeliveriesOf
    <2>2. CASE state'[q] # "deferred"
      <3>1. Contract!Withdraw(q)
        BY <1>5, <2>2 DEF IsWithdrawn, Pending, Contract!Withdraw
      <3> QED BY <3>1 DEF Contract!Step
    <2> QED BY <2>1, <2>2
  <1>6. CASE IsAnswered(q)
    <2>1. Contract!Answer(q)
      BY <1>6 DEF IsAnswered, Pending, Contract!Answer
    <2> QED BY <2>1 DEF Contract!Step
  <1>7. CASE IsResumed(q)
    <2>1. Contract!Deliver(q)
      BY <1>7 DEF IsResumed, Contract!Deliver
    <2> QED BY <2>1 DEF Contract!Step
  <1> QED BY <1>1, <1>3, <1>4, <1>5, <1>6, <1>7 DEF Moves

\* The broker implements Questions: every question is resolved once, and its
\* answer is delivered at most once, to an agent whose question was answered.
THEOREM BrokerImplementsQuestions == Spec => ImplementsQuestions
  <1>1. IInv /\ IInv' /\ [Next]_vars => [Contract!Next]_(Contract!vars)
    BY ContractStep
  <1> QED BY <1>1, ContractInit, InvariantIInv, PTL DEF Spec, ImplementsQuestions, Contract!Spec
=============================================================================
