------------------------------- MODULE Broker -------------------------------
(***************************************************************************)
(* The interaction broker (broker.ts): questions, approvals and host       *)
(* prompts that an agent waits for and that any eligible client, or a      *)
(* platform command, may answer; their durable rows (control-store.ts,     *)
(* control-recovery.ts); the sessions that settle them (registry.ts); and  *)
(* the continuations that resume an agent whose question was answered      *)
(* after it had stopped waiting.                                           *)
(*                                                                         *)
(* Every method of the broker runs without an await except a continuation, *)
(* whose steps are Begin, the preflight of the registry, and Finish.       *)
(***************************************************************************)
EXTENDS Integers, FiniteSets, Sequences, SequencesExt

CONSTANTS
  Question,     \* interactions, each asked once
  Client,       \* attachments of local clients
  Session,
  Host,         \* the scope of a question that belongs to no session
  NoClient,
  Platform,     \* the responder of dispatchRemote
  ScopeOf,      \* [Question -> Session \cup {Host}]
  Entitled,     \* [Question -> SUBSET Client]: kind, authority and principal fit
  Recipient,    \* [Question -> Client \cup {NoClient}]: scope.recipient
  Remote,       \* the questions a platform command may answer
  Deferrable,
  Timed,        \* questions with a timeout of their own
  Transient,    \* OAuth prompts that are never stored
  Holds,        \* interactionHoldSeconds is configured
  HostRecovers, \* a host may call recover() when it starts; the daemon as composed does not
  MaxCrashes    \* bound of the model: how often the daemon dies

ASSUME BrokerAssumption ==
  /\ IsFiniteSet(Question)
  /\ Host \notin Session /\ Platform \notin Client /\ NoClient \notin Client \cup {Platform}
  /\ ScopeOf \in [Question -> Session \cup {Host}]
  /\ Entitled \in [Question -> SUBSET Client]
  /\ Recipient \in [Question -> Client \cup {NoClient}]
  /\ Remote \subseteq {q \in Question : ScopeOf[q] # Host}
  /\ Deferrable \subseteq Question /\ Timed \subseteq Question
  /\ Transient \subseteq {q \in Question : ScopeOf[q] = Host /\ q \notin Deferrable}
  /\ \A q \in Question : Recipient[q] # NoClient => ScopeOf[q] = Host
  /\ Holds \in BOOLEAN /\ HostRecovers \in BOOLEAN
  /\ MaxCrashes \in Nat

VARIABLES
  state,      \* durable: the state of each interaction ("lost": it was transient)
  winner,     \* durable: the responder of an answered interaction
  cont,       \* durable: the phase of an interaction's continuation
  closed,     \* durable: the closed sessions
  overdue,    \* questions whose expiresAt has passed
  held,       \* questions whose hold deadline has passed
  up,         \* the daemon runs
  draining,   \* InteractionBroker.draining
  failed,     \* InteractionBroker.failure is set
  connected,  \* InteractionBroker.clients
  attached,   \* the sessions of each connected client
  told,       \* what the promise of request() is, or was resolved to
  activity,   \* what the registry does with each open session
  lane,       \* scheduled continuations of a session, in order
  stage,      \* where the continuation at the head of the lane is
  resumed,    \* history: how often a continuation was dispatched
  crashes     \* number of process deaths, bounded by MaxCrashes

clients  == <<connected, attached>>
work     == <<activity, lane, stage>>
vars     == <<state, winner, cont, closed, overdue, held, up, draining, failed,
              clients, told, work, resumed, crashes>>

Resolved == {"answered", "cancelled", "expired"}
Ended    == {"completed", "indeterminate", "cancelled"}

TypeOK ==
  /\ state \in [Question -> {"new", "waiting", "deferred", "lost"} \cup Resolved]
  /\ winner \in [Question -> Client \cup {NoClient, Platform}]
  /\ cont \in [Question -> {"none", "ready", "dispatch_intent"} \cup Ended]
  /\ closed \subseteq Session
  /\ overdue \subseteq Question /\ held \subseteq Question
  /\ up \in BOOLEAN /\ draining \in BOOLEAN /\ failed \in BOOLEAN
  /\ connected \subseteq Client
  /\ attached \in [Client -> SUBSET Session]
  /\ told \in [Question -> {"none", "waiting", "answered", "deferred", "cancelled", "gone"}]
  /\ activity \in [Session -> {"idle", "running", "ending", "settled"}]
  /\ lane \in [Session -> Seq(Question)]
  /\ stage \in [Session -> {"idle", "resuming", "prompting"}]
  /\ resumed \in [Question -> Nat]
  /\ crashes \in 0 .. MaxCrashes

Init ==
  /\ state = [q \in Question |-> "new"]
  /\ winner = [q \in Question |-> NoClient]
  /\ cont = [q \in Question |-> "none"]
  /\ closed = {} /\ overdue = {} /\ held = {}
  /\ up = TRUE /\ draining = FALSE /\ failed = FALSE
  /\ connected = {} /\ attached = [c \in Client |-> {}]
  /\ told = [q \in Question |-> "none"]
  /\ activity = [s \in Session |-> "idle"]
  /\ lane = [s \in Session |-> <<>>] /\ stage = [s \in Session |-> "idle"]
  /\ resumed = [q \in Question |-> 0]
  /\ crashes = 0
-----------------------------------------------------------------------------
(* Questions and who may see them.                                         *)

Pending(q) == state[q] \in {"waiting", "deferred"}
Usable     == up /\ ~failed

Eligible(c, q, online, sessions) ==
  /\ c \in online /\ c \in Entitled[q]
  /\ Recipient[q] \in {NoClient, c}
  /\ ScopeOf[q] = Host \/ ScopeOf[q] \in sessions[c]

Presentable(q, online, sessions) == \E c \in Client : Eligible(c, q, online, sessions)

\* observe: the promise of a published interaction that left "waiting" resolves.
Outcome(s) == IF s \in {"answered", "deferred"} THEN s ELSE "cancelled"

ToldOf_DeferredWaits(S, next) ==
  [q \in Question |->
     IF q \in S /\ told[q] = "waiting" /\ next[q] \notin {"waiting", "deferred"}
     THEN Outcome(next[q]) ELSE told[q]]
ToldOf(S, next) ==
  [q \in Question |->
     IF q \in S /\ told[q] = "waiting" /\ next[q] # "waiting"
     THEN Outcome(next[q]) ELSE told[q]]

\* The rows of S take their next states and are published.
Publish(S, next) == state' = next /\ told' = ToldOf(S, next)

Moved(S, target) == [q \in Question |-> IF q \in S THEN target ELSE state[q]]

\* drain, recovery and the registry's shutdown: what can wait longer is kept.
DeferOrCancel(S) ==
  [q \in Question |->
     IF q \notin S THEN state[q] ELSE IF q \in Deferrable THEN "deferred" ELSE "cancelled"]

\* request: a prompt nobody could be shown is refused without a row.
NeedsPresenter(q) == q \in Transient \/ Recipient[q] # NoClient

Request(q) ==
  /\ Usable /\ ~draining
  /\ state[q] = "new" /\ told[q] = "none" /\ ScopeOf[q] \notin closed
  /\ IF NeedsPresenter(q) /\ ~Presentable(q, connected, attached)
     THEN told' = [told EXCEPT ![q] = "cancelled"] /\ UNCHANGED state
     ELSE told' = [told EXCEPT ![q] = "waiting"] /\ state' = [state EXCEPT ![q] = "waiting"]
  /\ UNCHANGED <<winner, cont, closed, overdue, held, up, draining, failed, clients, work,
                 resumed, crashes>>

\* The asker's signal fires; the listener is gone once the promise resolved.
Abort(q) ==
  /\ Usable /\ told[q] = "waiting" /\ Pending(q)
  /\ Publish({q}, Moved({q}, "cancelled"))
  /\ UNCHANGED <<winner, cont, closed, overdue, held, up, draining, failed, clients, work,
                 resumed, crashes>>
-----------------------------------------------------------------------------
(* Clients come and go.                                                    *)

Connect(c) ==
  /\ Usable /\ c \notin connected
  /\ connected' = connected \cup {c}
  /\ attached' = [attached EXCEPT ![c] = {}]
  /\ UNCHANGED <<state, winner, cont, closed, overdue, held, up, draining, failed, told, work,
                 resumed, crashes>>

Attach(c, s) ==
  /\ up /\ c \in connected /\ s \notin attached[c]
  /\ attached' = [attached EXCEPT ![c] = @ \cup {s}]
  /\ UNCHANGED <<state, winner, cont, closed, overdue, held, up, draining, failed, connected,
                 told, work, resumed, crashes>>

\* cancelUnpresentableOAuth, and the waits of a vanished recipient.
Orphaned(online, sessions) ==
  {q \in Question :
     /\ Pending(q)
     /\ \/ q \in Transient /\ ~Presentable(q, online, sessions)
        \/ told[q] = "waiting" /\ Recipient[q] # NoClient /\ Recipient[q] \notin online}

\* An unusable broker forgets the client and cancels nothing.
Depart(online, sessions) ==
  LET gone == IF failed THEN {} ELSE Orphaned(online, sessions) IN
  /\ connected' = online /\ attached' = sessions
  /\ Publish(gone, Moved(gone, "cancelled"))
  /\ UNCHANGED <<winner, cont, closed, overdue, held, up, draining, failed, work, resumed,
                 crashes>>

Detach(c, s) ==
  /\ up /\ c \in connected /\ s \in attached[c]
  /\ Depart(connected, [attached EXCEPT ![c] = @ \ {s}])

Disconnect(c) ==
  /\ up /\ c \in connected
  /\ Depart(connected \ {c}, [attached EXCEPT ![c] = {}])
-----------------------------------------------------------------------------
(* Answers.                                                                *)

MayAnswer(by, q) ==
  IF by = Platform THEN q \in Remote ELSE Eligible(by, q, connected, attached)

\* The interaction is pending and not past its deadline.
Answerable(q) == Pending(q) /\ q \notin overdue

\* Only a question its agent no longer waits for gets a continuation.
Continues(q) == state[q] = "deferred" /\ ScopeOf[q] # Host

\* startContinuation: a ready continuation joins its session's lane.
Enqueued(q) == [lane EXCEPT ![ScopeOf[q]] = Append(@, q)]

Answer(by, q) ==
  /\ Usable /\ MayAnswer(by, q) /\ Answerable(q)
  /\ winner' = [winner EXCEPT ![q] = by]
  /\ Publish({q}, Moved({q}, "answered"))
  /\ IF Continues(q)
     THEN /\ cont' = [cont EXCEPT ![q] = "ready"]
          /\ lane' = IF draining THEN lane ELSE Enqueued(q)
     ELSE UNCHANGED <<cont, lane>>
  /\ UNCHANGED <<closed, overdue, held, up, draining, failed, clients, activity, stage, resumed,
                 crashes>>

\* The user dismisses the question.
Dismiss(by, q) ==
  /\ Usable /\ MayAnswer(by, q) /\ Answerable(q)
  /\ Publish({q}, Moved({q}, "cancelled"))
  /\ UNCHANGED <<winner, cont, closed, overdue, held, up, draining, failed, clients, work,
                 resumed, crashes>>
-----------------------------------------------------------------------------
(* Time, and the drain.                                                    *)

\* Deferral sets a deadline where there was none.
DeadlinePasses(q) ==
  /\ q \notin overdue /\ (state[q] = "deferred" \/ (state[q] = "waiting" /\ q \in Timed))
  /\ overdue' = overdue \cup {q}
  /\ UNCHANGED <<state, winner, cont, closed, held, up, draining, failed, clients, told, work,
                 resumed, crashes>>

Holdable(q) == Holds /\ state[q] = "waiting" /\ q \in Deferrable /\ ScopeOf[q] # Host

HoldPasses(q) ==
  /\ Holdable(q) /\ q \notin held
  /\ held' = held \cup {q}
  /\ UNCHANGED <<state, winner, cont, closed, overdue, up, draining, failed, clients, told, work,
                 resumed, crashes>>

\* The expiry timer: expire, then deferHeldInteractions.
Due_HeldOnly == {q \in overdue \cap held : Pending(q)}
Due == {q \in overdue : Pending(q)}
HeldTooLong == {q \in held : Holdable(q)} \ Due

Timer ==
  /\ Usable /\ ~draining /\ Due \cup HeldTooLong # {}
  /\ Publish(Due \cup HeldTooLong,
             [q \in Question |-> IF q \in Due THEN "expired"
                                 ELSE IF q \in HeldTooLong THEN "deferred" ELSE state[q]])
  /\ UNCHANGED <<winner, cont, closed, overdue, held, up, draining, failed, clients, work,
                 resumed, crashes>>

DrainedQuestions_Deferrable == {q \in Deferrable : Pending(q)}
DrainedQuestions == {q \in Question : Pending(q)}

Drain ==
  /\ Usable /\ ~draining
  /\ draining' = TRUE
  /\ Publish(DrainedQuestions, DeferOrCancel(DrainedQuestions))
  /\ UNCHANGED <<winner, cont, closed, overdue, held, up, failed, clients, work, resumed,
                 crashes>>
-----------------------------------------------------------------------------
(* Sessions run, and are cancelled or closed (registry.ts).                *)

\* cancelling or closing: restore and assertDispatch refuse.
Ending(s) == activity[s] \in {"ending", "settled"}

\* restore: a client opens the closed session again.
Reopen(s) ==
  /\ up /\ s \in closed
  /\ closed' = closed \ {s}
  /\ UNCHANGED <<state, winner, cont, overdue, held, up, draining, failed, clients, told, work,
                 resumed, crashes>>

StartRun(s) ==
  /\ up /\ s \notin closed /\ activity[s] = "idle"
  /\ activity' = [activity EXCEPT ![s] = "running"]
  /\ UNCHANGED <<state, winner, cont, closed, overdue, held, up, draining, failed, clients, told,
                 lane, stage, resumed, crashes>>

EndRun(s) ==
  /\ up /\ activity[s] = "running" /\ stage[s] # "prompting"
  /\ activity' = [activity EXCEPT ![s] = "idle"]
  /\ UNCHANGED <<state, winner, cont, closed, overdue, held, up, draining, failed, clients, told,
                 lane, stage, resumed, crashes>>

BeginEnding(s) ==
  /\ up /\ s \notin closed /\ ~Ending(s)
  /\ activity' = [activity EXCEPT ![s] = "ending"]
  /\ UNCHANGED <<state, winner, cont, closed, overdue, held, up, draining, failed, clients, told,
                 lane, stage, resumed, crashes>>

\* settleInteractions for a cancel or close; the broker observes what is published.
SettledBy(s) == {q \in Question : Pending(q) /\ ScopeOf[q] = s}

Settle(s) ==
  /\ up /\ activity[s] = "ending"
  /\ activity' = [activity EXCEPT ![s] = "settled"]
  /\ Publish(SettledBy(s), Moved(SettledBy(s), "cancelled"))
  /\ UNCHANGED <<winner, cont, closed, overdue, held, up, draining, failed, clients, lane, stage,
                 resumed, crashes>>

\* The writers have joined.  Disposing the runtime aborts what it still asks.
EndSettled(s) ==
  /\ up /\ activity[s] = "settled" /\ stage[s] # "prompting"
  /\ activity' = [activity EXCEPT ![s] = "idle"]
  /\ \/ UNCHANGED <<state, told, closed>>
     \/ LET asking == {q \in SettledBy(s) : ~failed /\ told[q] = "waiting"} IN
        closed' = closed \cup {s} /\ Publish(asking, Moved(asking, "cancelled"))
  /\ UNCHANGED <<winner, cont, overdue, held, up, draining, failed, clients, lane, stage, resumed,
                 crashes>>
-----------------------------------------------------------------------------
(* Continuations: one at a time per session.                               *)

Leave(s) == lane' = [lane EXCEPT ![s] = Tail(@)] /\ stage' = [stage EXCEPT ![s] = "idle"]

\* The previous continuation of the lane has settled.
AtTurn_Anytime(s) == up /\ lane[s] # <<>> /\ stage[s] # "resuming"
AtTurn(s) == up /\ lane[s] # <<>> /\ stage[s] = "idle"

Begin(s) ==
  /\ AtTurn(s)
  /\ IF draining \/ failed \/ cont[Head(lane[s])] # "ready"
     THEN Leave(s)
     ELSE stage' = [stage EXCEPT ![s] = "resuming"] /\ UNCHANGED lane
  /\ UNCHANGED <<state, winner, cont, closed, overdue, held, up, draining, failed, clients, told,
                 activity, resumed, crashes>>

\* resumeInteraction restores the session and refuses to run it.  A run or a reserved
\* session is "busy"; any other refusal disables the broker: a session that ends, one
\* that cannot be opened, one with a pinned copy.
Refuse(s) ==
  /\ up /\ stage[s] = "resuming"
  /\ \/ ~Ending(s) /\ failed' = failed
     \/ failed' = TRUE
  /\ Leave(s)
  /\ UNCHANGED <<state, winner, cont, closed, overdue, held, up, draining, clients, told,
                 activity, resumed, crashes>>

\* The intent is durable, then the agent is prompted; a closed session reopens.
Resume(s) ==
  /\ up /\ stage[s] = "resuming" /\ activity[s] = "idle"
  /\ closed' = closed \ {s}
  /\ \/ /\ cont' = [cont EXCEPT ![Head(lane[s])] = "dispatch_intent"]
        /\ resumed' = [resumed EXCEPT ![Head(lane[s])] = @ + 1]
        /\ activity' = [activity EXCEPT ![s] = "running"]
        /\ stage' = [stage EXCEPT ![s] = "prompting"]
        /\ UNCHANGED <<lane, failed>>
     \/ /\ cont' = [cont EXCEPT ![Head(lane[s])] = "indeterminate"]
        /\ failed' = TRUE /\ Leave(s)
        /\ UNCHANGED <<resumed, activity>>
  /\ UNCHANGED <<state, winner, overdue, held, up, draining, clients, told, crashes>>

\* The prompt returns (an abort counts as a return) or throws.
Finish(s) ==
  /\ up /\ stage[s] = "prompting"
  /\ \E result \in {"completed", "indeterminate"} :
       /\ cont' = [cont EXCEPT ![Head(lane[s])] = result]
       /\ failed' = (failed \/ result = "indeterminate")
  /\ activity' = [activity EXCEPT ![s] = IF @ = "running" THEN "idle" ELSE @]
  /\ Leave(s)
  /\ UNCHANGED <<state, winner, closed, overdue, held, up, draining, clients, told, resumed,
                 crashes>>
-----------------------------------------------------------------------------
(* Process death and restart.                                              *)

Crash ==
  /\ up /\ crashes < MaxCrashes
  /\ crashes' = crashes + 1
  /\ up' = FALSE /\ draining' = FALSE /\ failed' = FALSE
  /\ connected' = {} /\ attached' = [c \in Client |-> {}]
  /\ told' = [q \in Question |-> IF told[q] = "waiting" THEN "gone" ELSE told[q]]
  /\ state' = [q \in Question |-> IF q \in Transient /\ Pending(q) THEN "lost" ELSE state[q]]
  /\ activity' = [s \in Session |-> "idle"]
  /\ lane' = [s \in Session |-> <<>>] /\ stage' = [s \in Session |-> "idle"]
  /\ UNCHANGED <<winner, cont, closed, overdue, held, resumed>>

\* recoverControlState, then the broker's constructor.
RecoveredState(q) ==
  IF ~Pending(q) THEN state[q]
  ELSE IF q \in overdue THEN "expired"
  ELSE IF q \in Deferrable /\ Recipient[q] = NoClient THEN "deferred" ELSE "cancelled"

RecoveredCont_Replays(q) == IF cont[q] = "dispatch_intent" THEN "ready" ELSE cont[q]
RecoveredCont(q) ==
  IF cont[q] = "dispatch_intent" THEN "indeterminate"
  ELSE IF cont[q] = "ready" /\ (q \notin Deferrable \/ ScopeOf[q] \in closed) THEN "cancelled"
  ELSE cont[q]

\* recover() schedules what is ready.
RecoveredLane(s) == SetToSeq({q \in Question : ScopeOf[q] = s /\ RecoveredCont(q) = "ready"})

Restart ==
  /\ ~up
  /\ up' = TRUE
  /\ state' = [q \in Question |-> RecoveredState(q)]
  /\ cont' = [q \in Question |-> RecoveredCont(q)]
  /\ \/ lane' = [s \in Session |-> <<>>]
     \/ HostRecovers /\ lane' = [s \in Session |-> RecoveredLane(s)]
  /\ UNCHANGED <<winner, closed, overdue, held, draining, failed, clients, told, activity, stage,
                 resumed, crashes>>
-----------------------------------------------------------------------------
Next ==
  \/ \E q \in Question : Request(q) \/ Abort(q) \/ DeadlinePasses(q) \/ HoldPasses(q)
  \/ \E q \in Question, by \in Client \cup {Platform} : Answer(by, q) \/ Dismiss(by, q)
  \/ \E c \in Client : Connect(c) \/ Disconnect(c)
  \/ \E c \in Client, s \in Session : Attach(c, s) \/ Detach(c, s)
  \/ \E s \in Session :
       \/ Reopen(s) \/ StartRun(s) \/ EndRun(s)
       \/ BeginEnding(s) \/ Settle(s) \/ EndSettled(s)
       \/ Begin(s) \/ Refuse(s) \/ Resume(s) \/ Finish(s)
  \/ Timer \/ Drain \/ Crash \/ Restart

Spec == Init /\ [][Next]_vars

\* Timers fire, a lane moves, a prompt returns, an ending session settles and a
\* dead daemon is started again.
Fairness ==
  /\ WF_vars(Timer) /\ WF_vars(Restart)
  /\ \A s \in Session :
       /\ WF_vars(Begin(s)) /\ WF_vars(Refuse(s) \/ Resume(s)) /\ WF_vars(Finish(s))
       /\ WF_vars(Settle(s))

FairSpec == Spec /\ Fairness
-----------------------------------------------------------------------------
(* What the broker promises.                                               *)

\* The first valid answer, cancellation or expiry decides: no late answer,
\* timer, drain, closing session or recovery replaces it or its responder.
ResolvedForGood ==
  [][\A q \in Question :
       state[q] \in Resolved => state'[q] = state[q] /\ winner'[q] = winner[q]]_vars

\* The asker's promise and the row agree: while the daemon runs, somebody waits
\* exactly for the waiting rows, and an asker is told of an answer only if it won.
AskerAgrees ==
  \A q \in Question :
    /\ told[q] = "waiting" => up /\ state[q] = "waiting"
    /\ up /\ state[q] = "waiting" => told[q] = "waiting"
    /\ told[q] = "answered" => state[q] = "answered" /\ winner[q] # NoClient
    /\ told[q] = "cancelled" => state[q] \notin {"waiting", "deferred", "answered"}

\* An answer reaches the agent through the promise or the continuation, never
\* both, and a continuation is prompted once whatever crashes in between.
DeliveredOnce ==
  \A q \in Question :
    /\ told[q] = "answered" => cont[q] = "none"
    /\ resumed[q] <= 1
    /\ resumed[q] = 1 => state[q] = "answered" /\ cont[q] \notin {"none", "ready"}

\* Continuations of one session never overlap.
Serialized ==
  \A q, p \in Question :
    cont[q] = "dispatch_intent" /\ cont[p] = "dispatch_intent" /\ ScopeOf[q] = ScopeOf[p] => q = p

\* Once the broker drains nobody waits for a user any more.
DrainedNobodyWaits == draining => \A q \in Question : told[q] # "waiting"

\* An OAuth prompt, or one bound to a recipient, never waits for nobody: losing
\* the last eligible client cancels it.
WaitsForSomebody ==
  \A q \in Question :
    up /\ ~failed /\ state[q] = "waiting" /\ NeedsPresenter(q) =>
      IF q \in Transient THEN Presentable(q, connected, attached)
      ELSE Recipient[q] \in connected

\* Nobody waits for a user who cannot come: the drain has left nobody waiting,
\* and a prompt that needs a presenter has one.
NobodyWaitsInVain == DrainedNobodyWaits /\ WaitsForSomebody

\* A wait whose deadline passed ends, unless the broker is disabled.
TimedWaitEnds ==
  \A q \in Question : q \in overdue /\ state[q] = "waiting" ~> state[q] # "waiting" \/ failed

\* persistence: "The broker resumes ready continuations automatically."  What is ready
\* when the daemon is down is not left so.  It holds of no host that leaves recover() out.
ReadyIsResumed ==
  \A q \in Question : ~up /\ cont[q] = "ready" ~> cont[q] # "ready"

\* broker: "Busy preflight leaves a continuation ready."  resumeInteraction counts
\* a closing session as busy: refusing it leaves the broker usable.
BusyLeavesReady ==
  [][\A s \in Session :
       stage[s] = "resuming" /\ Ending(s) /\ stage'[s] = "idle" /\ up' => failed' = failed]_vars

\* The broker implements the abstract Questions.
Contract == INSTANCE Questions WITH
  status <- [q \in Question |->
               IF state[q] = "new" THEN "unasked"
               ELSE IF state[q] \in {"waiting", "deferred"} THEN "open"
               ELSE IF state[q] = "answered" THEN "answered" ELSE "withdrawn"],
  deliveries <- [q \in Question |->
                   IF told[q] = "answered" THEN resumed[q] + 1 ELSE resumed[q]]

\* Every behaviour of the broker is one of questions that resolve once and
\* deliver an answer at most once.
ImplementsQuestions == Contract!Spec
=============================================================================
