----------------------------- MODULE Admission -----------------------------
(***************************************************************************)
(* Ordered admission of durable commands: OrderedAdmission (admission.ts)  *)
(* over the request rows of the control store (control-store.ts) and their *)
(* recovery after a restart (control-recovery.ts).                         *)
(*                                                                         *)
(* A request ID is admitted once, prepared in the order of its lane (its   *)
(* session), dispatched after its intent is durable, and settled with one  *)
(* outcome that every retry of the ID is given until retention forgets it. *)
(* The daemon is one JavaScript thread: what runs between two awaits is    *)
(* one action.  A process death in the middle of such a section is an      *)
(* action of its own where it leaves something the section's end would not.*)
(***************************************************************************)
EXTENDS Integers, FiniteSets

CONSTANTS
  Request,      \* request IDs
  Client,       \* calls of submit that can be outstanding at once
  Body,         \* principal and payload: what makes two uses of an ID equal
  Lane,         \* sessions, and HostLane for requests without one
  HostLane,
  LaneOf,       \* [Request -> Lane]
  Kind,         \* [Request -> Kinds]: how the request's handler commits its effect
  Safety,       \* the requests whose operation is in safetyOperations
  Size,         \* [Request -> Nat]: bytes of the request and its principal
  MaxPending,   \* AdmissionOptions.maxPending
  MaxBytes,     \* AdmissionOptions.maxBytes
  SafetyBytes,  \* SAFETY_BYTES
  MaxCrashes    \* bound of the model: how often the daemon dies

\* "command": the handler calls AdmittedCommand.dispatch.  "answer": it answers
\* an interaction.  "managed": the registry commits the dispatch of a run, fork,
\* reload or mutation itself, perhaps after the handler returned its promise.
\* "delete": the registry commits the tombstone in the same way.
Kinds == {"command", "answer", "managed", "delete"}

ASSUME AdmissionAssumption ==
  /\ IsFiniteSet(Request) /\ IsFiniteSet(Client)
  /\ HostLane \in Lane
  /\ LaneOf \in [Request -> Lane]
  /\ Kind \in [Request -> Kinds]
  /\ \A r \in Request : Kind[r] = "delete" => LaneOf[r] # HostLane
  /\ Safety \subseteq Request
  /\ Size \in [Request -> Nat]
  /\ MaxPending \in Nat /\ MaxPending >= 2
  /\ MaxBytes \in Nat /\ SafetyBytes \in Nat /\ MaxBytes > SafetyBytes
  /\ MaxCrashes \in Nat

VARIABLES
  phase,       \* durable: "absent" or the phase of the request's row
  body,        \* durable: the identity stored in the row
  outcome,     \* durable: the stored response of a terminal row
  aged,        \* requests whose retainUntil has passed
  session,     \* durable: state of each lane's session
  up,          \* the daemon runs and has recovered its store
  pending,     \* requests with a promise in OrderedAdmission.pending
  pc,          \* where the promise of a pending request is
  ahead,       \* requests of the same lane that were pending at admission
  bytes,       \* OrderedAdmission.bytes
  duplicates,  \* OrderedAdmission.duplicateWaiters
  call,        \* what each caller of submit waits for or was told
  runs,        \* history: executions of the effect since the row's admission
  crashes      \* number of process deaths, bounded by MaxCrashes

store  == <<phase, body, outcome, session>>
memory == <<up, pending, pc, ahead, bytes, duplicates>>
vars   == <<store, aged, memory, call, runs, crashes>>

Phases   == {"absent", "intent", "dispatch_intent", "terminal"}
Outcomes == {"accepted", "rejected", "unavailable", "indeterminate"}
NoBody   == "none"
NoCall   == [status |-> "idle"]
Calls    ==
  {NoCall} \cup
  [status : {"waiting"}, id : Request, body : Body, role : {"owner", "duplicate"}] \cup
  [status : {"answered"}, id : Request, body : Body,
   told : Outcomes \cup {"conflict", "refused"}]

TypeOK ==
  /\ phase \in [Request -> Phases]
  /\ body \in [Request -> Body \cup {NoBody}]
  /\ outcome \in [Request -> Outcomes \cup {"none"}]
  /\ aged \subseteq Request
  /\ session \in [Lane -> {"open", "closed", "deleted"}]
  /\ up \in BOOLEAN
  /\ pending \subseteq Request
  /\ pc \in [Request -> {"idle", "preparing", "settling", "failed"}]
  /\ ahead \in [Request -> SUBSET Request]
  /\ bytes \in Int /\ duplicates \in Int
  /\ call \in [Client -> Calls]
  /\ runs \in [Request -> Nat]
  /\ crashes \in 0 .. MaxCrashes

Init ==
  /\ phase = [r \in Request |-> "absent"]
  /\ body = [r \in Request |-> NoBody]
  /\ outcome = [r \in Request |-> "none"]
  /\ aged = {}
  /\ session = [l \in Lane |-> "open"]
  /\ up = TRUE
  /\ pending = {}
  /\ pc = [r \in Request |-> "idle"]
  /\ ahead = [r \in Request |-> {}]
  /\ bytes = 0 /\ duplicates = 0
  /\ call = [c \in Client |-> NoCall]
  /\ runs = [r \in Request |-> 0]
  /\ crashes = 0
-----------------------------------------------------------------------------
(* Retention: the rows DaemonControlStore.prune drops.                     *)

Prunable == {r \in Request : phase[r] = "terminal" /\ r \in aged}

Without(f, S, default) == [r \in Request |-> IF r \in S THEN default ELSE f[r]]

\* The rows of S are dropped; `runs` counts from the next admission.
Forgotten(S) ==
  /\ aged' = aged \ S
  /\ runs' = Without(runs, S, 0)

Compact ==
  /\ up /\ Prunable # {}
  /\ phase' = Without(phase, Prunable, "absent")
  /\ body' = Without(body, Prunable, NoBody)
  /\ outcome' = Without(outcome, Prunable, "none")
  /\ Forgotten(Prunable)
  /\ UNCHANGED <<session, memory, call, crashes>>

\* The seven days of retention pass; they outlast a pending promise.
Age(r) ==
  /\ phase[r] # "absent" /\ r \notin pending /\ r \notin aged
  /\ aged' = aged \cup {r}
  /\ UNCHANGED <<store, memory, call, runs, crashes>>
-----------------------------------------------------------------------------
(* submit: the caller c asks for request r with identity b.                *)

Idle(c)      == call[c].status # "waiting"
Waits(c, r)  == call[c].status = "waiting" /\ call[c].id = r

\* Callers of submit(r): the one that admitted it and its duplicates.
CallersOf_OwnerOnly(r) == {c \in Client : Waits(c, r) /\ call[c].role = "owner"}
CallersOf(r) == {c \in Client : Waits(c, r)}

DoublesOf(r) == {c \in Client : Waits(c, r) /\ call[c].role = "duplicate"}

\* What the promises of r hold of the byte counter, given back when it settles.
HeldBytes(r) == Size[r] * (1 + Cardinality(DoublesOf(r)))

ByteLimit_NoReserve(r) == MaxBytes
ByteLimit(r) == IF r \in Safety THEN MaxBytes ELSE MaxBytes - SafetyBytes
PendingLimit(r) == IF r \in Safety THEN MaxPending ELSE MaxPending - 1
FitsPending(r) == Cardinality(pending) < PendingLimit(r)
FitsBytes(r) == bytes + Size[r] <= ByteLimit(r)
SessionAdmits(r) == session[LaneOf[r]] # "deleted" \/ Kind[r] = "delete"

\* request_conflict: the ID belongs to another principal or payload.
SameIdentity(r, b) == body[r] = b

Waiting(r, b, role) ==
  [status |-> "waiting", id |-> r, body |-> b, role |-> role]
Answered(r, b, o) ==
  [status |-> "answered", id |-> r, body |-> b, told |-> o]

SubmitNew(c, r, b) ==
  /\ up /\ Idle(c) /\ phase[r] = "absent"
  /\ FitsPending(r) /\ FitsBytes(r) /\ SessionAdmits(r)
  /\ phase' = [Without(phase, Prunable, "absent") EXCEPT ![r] = "intent"]
  /\ body' = [Without(body, Prunable, NoBody) EXCEPT ![r] = b]
  /\ outcome' = Without(outcome, Prunable, "none")
  /\ Forgotten(Prunable)
  /\ pending' = pending \cup {r}
  /\ pc' = [pc EXCEPT ![r] = "preparing"]
  /\ ahead' = [ahead EXCEPT ![r] = {q \in pending : LaneOf[q] = LaneOf[r]}]
  /\ bytes' = bytes + Size[r]
  /\ call' = [call EXCEPT ![c] = Waiting(r, b, "owner")]
  /\ UNCHANGED <<session, up, duplicates, crashes>>

Retained(r) == phase[r] = "terminal" /\ r \notin pending

\* The row exists and nothing is pending: the stored outcome is repeated.
\* Recovery and finish leave no undecided row without a pending promise.
SubmitRetained(c, r, b) ==
  /\ up /\ Idle(c) /\ Retained(r) /\ SameIdentity(r, b)
  /\ call' = [call EXCEPT ![c] = Answered(r, b, outcome[r])]
  /\ UNCHANGED <<store, aged, memory, runs, crashes>>

SubmitDuplicate(c, r, b) ==
  /\ up /\ Idle(c) /\ r \in pending /\ SameIdentity(r, b)
  /\ duplicates < MaxPending /\ FitsBytes(r)
  /\ duplicates' = duplicates + 1
  /\ bytes' = bytes + Size[r]
  /\ call' = [call EXCEPT ![c] = Waiting(r, b, "duplicate")]
  /\ UNCHANGED <<store, aged, up, pending, pc, ahead, runs, crashes>>

\* Every throw of submit: another identity, no capacity, a deleted session.
SubmitRefused(c, r, b) ==
  /\ up /\ Idle(c)
  /\ \/ /\ phase[r] # "absent" /\ ~SameIdentity(r, b)
        /\ call' = [call EXCEPT ![c] = Answered(r, b, "conflict")]
     \/ /\ r \in pending /\ SameIdentity(r, b)
        /\ duplicates >= MaxPending \/ ~FitsBytes(r)
        /\ call' = [call EXCEPT ![c] = Answered(r, b, "refused")]
     \/ /\ phase[r] = "absent"
        /\ ~FitsPending(r) \/ ~FitsBytes(r) \/ ~SessionAdmits(r)
        /\ call' = [call EXCEPT ![c] = Answered(r, b, "refused")]
  /\ UNCHANGED <<store, aged, memory, runs, crashes>>
-----------------------------------------------------------------------------
(* prepare: the handler of the request at the head of its lane.            *)

AtHead(r) == \A q \in ahead[r] : pc[q] # "preparing"
Handling_AnyTime(r) == up /\ r \in pending /\ pc[r] \in {"preparing", "settling"} /\ AtHead(r)
Handling(r) == up /\ r \in pending /\ pc[r] = "preparing" /\ AtHead(r)

\* The registry's promise for r is at work: in the handler or returned by it.
Working(r) == Handling(r) \/ (up /\ r \in pending /\ pc[r] = "settling")

\* markDispatched: an undispatched request of an open session.
MayDispatch(r) == phase[r] = "intent" /\ session[LaneOf[r]] = "open"

\* A command dispatches while its handler runs; the registry's own commit
\* (commitDispatch) is checked by markDispatched alone.
AtDispatch(r) ==
  /\ \/ Kind[r] = "command" /\ Handling(r)
     \/ Kind[r] = "managed" /\ Working(r)
  /\ MayDispatch(r)

\* The intent is durable, then the effect runs.
Dispatch(r) ==
  /\ AtDispatch(r)
  /\ phase' = [phase EXCEPT ![r] = "dispatch_intent"]
  /\ runs' = [runs EXCEPT ![r] = @ + 1]
  /\ UNCHANGED <<body, outcome, session, aged, memory, call, crashes>>

\* What follows the commit throws before the effect: the revision callback, the
\* ownership check, the registry's wait for a run slot or its late closing check.
DispatchFails(r) ==
  /\ AtDispatch(r)
  /\ phase' = [phase EXCEPT ![r] = "dispatch_intent"]
  /\ pc' = [pc EXCEPT ![r] = "failed"]
  /\ UNCHANGED <<body, outcome, session, aged, up, pending, ahead, bytes,
                 duplicates, call, runs, crashes>>

\* answerInteraction: the answer and the accepted response in one commit.
Answer(r) ==
  /\ Handling(r) /\ Kind[r] = "answer" /\ phase[r] = "intent"
  /\ phase' = [phase EXCEPT ![r] = "terminal"]
  /\ outcome' = [outcome EXCEPT ![r] = "accepted"]
  /\ runs' = [runs EXCEPT ![r] = @ + 1]
  /\ UNCHANGED <<body, session, aged, memory, call, crashes>>

\* markSessionDeleted: the tombstone and the dispatch intent in one commit.
Delete(r) ==
  /\ Working(r) /\ Kind[r] = "delete" /\ phase[r] = "intent"
  /\ phase' = [phase EXCEPT ![r] = "dispatch_intent"]
  /\ session' = [session EXCEPT ![LaneOf[r]] = "deleted"]
  /\ runs' = [runs EXCEPT ![r] = @ + 1]
  /\ UNCHANGED <<body, outcome, aged, memory, call, crashes>>

\* The handler returns a response promise or throws; the lane moves on.
HandlerReturns(r) ==
  /\ Handling(r)
  /\ \E next \in {"settling", "failed"} : pc' = [pc EXCEPT ![r] = next]
  /\ UNCHANGED <<store, aged, up, pending, ahead, bytes, duplicates, call,
                 runs, crashes>>

\* What finish stores for the handler's response; "error" is a failure of it.
Reported_IgnoresIntent(r, response) ==
  CASE phase[r] = "terminal" -> outcome[r]
    [] OTHER -> IF response = "error" THEN "unavailable" ELSE response

Reported(r, response) ==
  CASE phase[r] = "terminal" -> outcome[r]
    [] phase[r] = "dispatch_intent" ->
         IF response = "error" THEN "indeterminate" ELSE response
    [] OTHER -> IF response = "rejected" THEN "rejected" ELSE "unavailable"

\* finish, the release of the pending entry, and the answers to its callers.
Finish(r, response) ==
  /\ up /\ r \in pending
  /\ pc[r] = "settling" \/ (pc[r] = "failed" /\ response = "error")
  /\ phase' = [phase EXCEPT ![r] = "terminal"]
  /\ outcome' = [outcome EXCEPT ![r] = Reported(r, response)]
  /\ pending' = pending \ {r}
  /\ pc' = [pc EXCEPT ![r] = "idle"]
  /\ ahead' = [q \in Request |-> IF q = r THEN {} ELSE ahead[q] \ {r}]
  /\ bytes' = bytes - HeldBytes(r)
  /\ duplicates' = duplicates - Cardinality(DoublesOf(r))
  /\ call' = [c \in Client |->
                IF c \in CallersOf(r)
                THEN Answered(r, call[c].body, Reported(r, response)) ELSE call[c]]
  /\ UNCHANGED <<body, session, aged, up, runs, crashes>>
-----------------------------------------------------------------------------
(* Sessions are closed and reopened by other operations.                   *)

SwitchSession(l) ==
  /\ up /\ l # HostLane /\ session[l] # "deleted"
  /\ session' = [session EXCEPT ![l] = IF @ = "open" THEN "closed" ELSE "open"]
  /\ UNCHANGED <<phase, body, outcome, aged, memory, call, runs, crashes>>

(* Process death loses the promises, restart recovers the rows.            *)

MemoryLost ==
  /\ up /\ crashes < MaxCrashes
  /\ crashes' = crashes + 1
  /\ up' = FALSE
  /\ pending' = {}
  /\ pc' = [r \in Request |-> "idle"]
  /\ ahead' = [r \in Request |-> {}]
  /\ bytes' = 0 /\ duplicates' = 0
  /\ call' = [c \in Client |-> IF Idle(c) THEN call[c] ELSE NoCall]

Crash == MemoryLost /\ UNCHANGED <<store, aged, runs>>

\* Death between the commit of the intent and the effect.
CrashInDispatch(r) ==
  /\ AtDispatch(r)
  /\ phase' = [phase EXCEPT ![r] = "dispatch_intent"]
  /\ MemoryLost
  /\ UNCHANGED <<body, outcome, session, aged, runs>>

\* recoverControlState and prune, in one commit.
Recovered_Swapped(r) ==
  CASE phase[r] = "dispatch_intent" -> "unavailable"
    [] phase[r] = "intent" -> "indeterminate"
    [] OTHER -> outcome[r]

Recovered(r) ==
  CASE phase[r] = "dispatch_intent" -> "indeterminate"
    [] phase[r] = "intent" -> "unavailable"
    [] OTHER -> outcome[r]

RecoveredPhase_IntentsOnly(r) ==
  IF phase[r] = "intent" THEN "terminal" ELSE phase[r]
RecoveredPhase(r) == IF phase[r] = "absent" THEN "absent" ELSE "terminal"

Restart ==
  LET dropped == {r \in aged : phase[r] # "absent"} IN
  /\ ~up
  /\ up' = TRUE
  /\ phase' = [r \in Request |-> IF r \in dropped THEN "absent" ELSE RecoveredPhase(r)]
  /\ body' = Without(body, dropped, NoBody)
  /\ outcome' = [r \in Request |-> IF r \in dropped THEN "none" ELSE Recovered(r)]
  /\ Forgotten(dropped)
  /\ UNCHANGED <<session, pending, pc, ahead, bytes, duplicates, call, crashes>>
-----------------------------------------------------------------------------
Submit(c, r, b) ==
  \/ SubmitNew(c, r, b)
  \/ SubmitRetained(c, r, b)
  \/ SubmitDuplicate(c, r, b)
  \/ SubmitRefused(c, r, b)

Effect(r) == Dispatch(r) \/ Answer(r) \/ Delete(r)

Settle(r) == \E response \in {"accepted", "rejected", "error"} : Finish(r, response)

Next ==
  \/ \E c \in Client, r \in Request, b \in Body : Submit(c, r, b)
  \/ \E r \in Request :
       \/ Effect(r)
       \/ DispatchFails(r)
       \/ HandlerReturns(r)
       \/ Settle(r)
       \/ CrashInDispatch(r)
       \/ Age(r)
  \/ \E l \in Lane : SwitchSession(l)
  \/ Compact
  \/ Crash
  \/ Restart

Spec == Init /\ [][Next]_vars

\* Handlers return, their responses settle, and the daemon is started again.
Fairness ==
  /\ \A r \in Request : WF_vars(HandlerReturns(r)) /\ WF_vars(Settle(r))
  /\ WF_vars(Restart)

FairSpec == Spec /\ Fairness
-----------------------------------------------------------------------------
(* What admission promises.                                                *)

\* While its row is retained a request is executed at most once, whatever
\* its retries, its handler's second call of dispatch and the crashes do.
ExecutedAtMostOnce == \A r \in Request : runs[r] <= 1

\* The stored outcome tells the truth about the effect: accepted means it
\* ran, the daemon's own "unavailable" (retained, failedResponse, recovery)
\* means it did not, and no effect ran before its intent was durable.
OutcomeIsEvidence ==
  \A r \in Request :
    /\ outcome[r] = "accepted" => runs[r] = 1
    /\ outcome[r] = "unavailable" => runs[r] = 0
    /\ runs[r] > 0 => phase[r] \in {"dispatch_intent", "terminal"}

\* A terminal row keeps its outcome and its identity until it is forgotten,
\* across late handlers, retries and recovery.
OutcomeIsFinal ==
  [][\A r \in Request :
       phase[r] = "terminal" =>
         \/ phase'[r] = "absent"
         \/ phase'[r] = "terminal" /\ outcome'[r] = outcome[r] /\ body'[r] = body[r]
    ]_vars

\* A caller is told the stored outcome of the very identity it submitted:
\* duplicates, retries after a crash and conflicting reuse of an ID included.
ToldTheRecord ==
  [][\A c \in Client :
       LET now == call'[c] IN
       now # call[c] /\ now.status = "answered" /\ now.told \in Outcomes =>
         /\ phase'[now.id] = "terminal"
         /\ outcome'[now.id] = now.told
         /\ body'[now.id] = now.body
    ]_vars

\* The dispatched commands and answers of one session start in the order of
\* admission, although preparation awaits and responses settle out of order:
\* such an effect runs only while everything admitted after it in its lane is
\* undispatched.  Work the registry commits itself is not ordered by the lane.
LaneOrder ==
  [][\A r \in Request :
       Kind[r] \in {"command", "answer"} /\ runs'[r] > runs[r] =>
         \A q \in Request : r \in ahead[q] => phase[q] = "intent" /\ pc[q] = "preparing"
    ]_vars

\* The callers that wait as duplicates, and what each of them is counted for.
Doubling == {c \in Client : call[c].status = "waiting" /\ call[c].role = "duplicate"}
Doubled == [c \in Doubling |-> Size[call[c].id]]

\* The sum of f over S, as the number of units that the members of S have.
Units(S, f) == UNION {{x} \X (1 .. f[x]) : x \in S}
Weight(S, f) == Cardinality(Units(S, f))

\* The byte and waiter counters are exactly what the outstanding promises
\* hold: a path that forgot to give back would shrink capacity for good.
Accounting ==
  /\ duplicates = Cardinality(Doubling)
  /\ bytes = Weight(pending, Size) + Weight(Doubling, Doubled)

\* Ordinary traffic, its duplicates included, never fills the headroom kept
\* for cancellation and answers: one safety request always fits, and the
\* counters that decide it are those of what is outstanding.
SafetyHeadroom ==
  /\ Accounting
  /\ LET inflight == pending \cup
           {call[c].id : c \in {d \in Client : call[d].status = "waiting"}} IN
     inflight \cap Safety = {} =>
       Cardinality(pending) < MaxPending /\ bytes + SafetyBytes <= MaxBytes

\* An admitted request is settled, by its handler or by recovery, and its
\* caller is answered or cut off, whatever waits ahead of it in its lane.
AdmittedSettles ==
  \A r \in Request :
    phase[r] \in {"intent", "dispatch_intent"} ~> phase[r] \in {"terminal", "absent"}

CallersAnswered ==
  \A c \in Client : call[c].status = "waiting" ~> call[c].status # "waiting"

\* Admission implements the abstract Commands: a command is taken when its
\* row is committed, executed when its effect runs, settled with its row.
Contract == INSTANCE Commands WITH
  state <- [r \in Request |-> IF phase[r] = "absent" THEN "new"
                              ELSE IF phase[r] = "terminal" THEN "settled" ELSE "taken"],
  executions <- runs,
  verdict <- outcome

\* Every behaviour of admission, crashes and retention included, is one of
\* independent commands that execute at most once and settle truthfully.
ImplementsCommands == Contract!Spec
=============================================================================
