--------------------------- MODULE RemoteCommands ---------------------------
(***************************************************************************)
(* Commands that the web sends to this host: the claim loop of the         *)
(* connector (connector.ts), the executor and its journal                  *)
(* (remote/commands.ts, command-journal.ts) and the admission of the       *)
(* requests they become (server.ts receiveRemote, admission.ts).           *)
(*                                                                         *)
(* A command is one request, or two: the creation of a session and its     *)
(* first prompt, under an ID derived from the command's.  Both the journal *)
(* and the request rows are in the control store, which a crash leaves and *)
(* a rebuild loses; request rows are also forgotten after their retention. *)
(*                                                                         *)
(* The platform gives a row it has handed out again until it is completed. *)
(* Calls and their responses are lost, and arrive after the caller stopped *)
(* waiting.                                                                *)
(***************************************************************************)
EXTENDS Naturals, FiniteSets

CONSTANTS
  Command,     \* commands of the web
  Creates,     \* those that create a session with a first prompt
  Capacity,    \* RemoteCommandJournal.capacity
  MaxLost,     \* bound: connections lost, outcomes the platform does not take
  MaxDeaths    \* bound: deaths of the daemon

ASSUME RemoteCommandsAssumption ==
  /\ IsFiniteSet(Command) /\ Creates \subseteq Command
  /\ Capacity \in Nat \ {0}
  /\ MaxLost \in Nat /\ MaxDeaths \in Nat

VARIABLES
  row,        \* platform: "absent", "pending", "claimed" or "done"
  answer,     \* platform: the outcome of a row that is done
  past,       \* commands whose expiry has passed
  journal,    \* durable: the entry of each command
  request,    \* durable: the rows of its requests
  rebuilt,    \* durable: the store was lost once
  drained,    \* durable: the command_recovery marker
  up,         \* the daemon runs
  connected,  \* the platform is connected
  at,         \* the claim loop: what it waits for,
  batch,      \*   the rows it was given and has not done with, each with
              \*   what was known of it when they came,
  cur,        \*   the row it is at,
  part,       \*   the part of it that is submitted,
  result,     \*   what came of it,
  live,       \*   and whether the platform of this pass is current
  lateClaim,  \* a claim that was given up may still arrive
  lateTold,   \* outcomes that were given up and may still arrive
  runs,       \* history: how often the effect of each request ran
  substituted,\* history: outcomes the platform would not take
  lost, deaths

platform == <<row, answer, past>>
store == <<journal, request, rebuilt, drained>>
loop == <<at, batch, cur, part, result, live>>
late == <<lateClaim, lateTold>>
faults == <<lost, deaths>>
vars == <<platform, store, up, connected, loop, late, runs, substituted, faults>>

-----------------------------------------------------------------------------
Outcomes == {"accepted", "rejected", "unavailable", "indeterminate", "expired", "full"}
Parts == 1..2
Last(c) == IF c \in Creates THEN 2 ELSE 1

NoEntry == [state |-> "none", part |-> 1, outcome |-> "none"]
Dispatching(p) == [state |-> "dispatching", part |-> p, outcome |-> "none"]
Completed(o) == [state |-> "completed", part |-> 1, outcome |-> o]

NoRequest == [phase |-> "absent", outcome |-> "none"]
InPhase(phase) == [phase |-> phase, outcome |-> "none"]
Terminal(o) == [phase |-> "terminal", outcome |-> o]

Entries == Cardinality({c \in Command : journal[c] # NoEntry})
Unrecorded(c) == journal[c] = NoEntry
HasRoom(c) == ~Unrecorded(c) \/ Entries < Capacity

Init ==
  /\ row = [c \in Command |-> "absent"] /\ answer = [c \in Command |-> "none"]
  /\ past = {}
  /\ journal = [c \in Command |-> NoEntry]
  /\ request = [c \in Command |-> [p \in Parts |-> NoRequest]]
  /\ rebuilt = FALSE /\ drained = FALSE
  /\ up = TRUE /\ connected = FALSE
  /\ at = "idle" /\ batch = {} /\ cur = "none" /\ part = 1 /\ result = "none" /\ live = FALSE
  /\ lateClaim = FALSE /\ lateTold = {}
  /\ runs = [c \in Command |-> [p \in Parts |-> 0]]
  /\ substituted = {} /\ lost = 0 /\ deaths = 0

-----------------------------------------------------------------------------
(* The platform and its clock *)

Issue(c) ==
  /\ row[c] = "absent"
  /\ row' = [row EXCEPT ![c] = "pending"]
  /\ UNCHANGED <<answer, past, store, up, connected, loop, late, runs, substituted, faults>>

\* A row that nobody claimed before its expiry is gone.
Expire(c) ==
  /\ row[c] \in {"pending", "claimed"} /\ c \notin past
  /\ past' = past \cup {c}
  /\ row' = IF row[c] = "pending" THEN [row EXCEPT ![c] = "done"] ELSE row
  /\ answer' = IF row[c] = "pending" THEN [answer EXCEPT ![c] = "expired"] ELSE answer
  /\ UNCHANGED <<store, up, connected, loop, late, runs, substituted, faults>>

\* claim_session_commands: pending rows become this host's, and every row it
\* has not completed is returned.
Claimed == {c \in Command : row[c] \in {"pending", "claimed"}}
HandOut == row' = [c \in Command |-> IF c \in Claimed THEN "claimed" ELSE row[c]]

\* complete_session_command: of a row that is not claimed, a conflict.
Settled(c, o) ==
  IF row[c] = "claimed"
    THEN /\ row' = [row EXCEPT ![c] = "done"]
         /\ answer' = [answer EXCEPT ![c] = o]
    ELSE UNCHANGED <<row, answer>>

-----------------------------------------------------------------------------
(* The claim loop: wakeClaims *)

\* Nothing is being executed or completed.
Clear == cur' = "none" /\ part' = 1 /\ result' = "none"
PassEnds == at' = "idle" /\ batch' = {} /\ Clear /\ live' = FALSE

Connect ==
  /\ up /\ ~connected /\ connected' = TRUE
  /\ UNCHANGED <<platform, store, up, loop, late, runs, substituted, faults>>

\* On a subscription, a notification or a heartbeat.
Ask ==
  /\ connected /\ at = "idle"
  /\ at' = "asking" /\ live' = TRUE
  /\ UNCHANGED <<batch, cur, part, result, platform, store, up, connected, late, runs, substituted, faults>>

Claim ==
  /\ at = "asking" /\ live
  /\ HandOut
  /\ at' = "claimed"
  /\ batch' = {[id |-> c, fresh |-> row[c] = "pending", stale |-> FALSE] : c \in Claimed}
  /\ UNCHANGED <<cur, part, result, live, answer, past, store, up, connected, late, runs, substituted, faults>>

\* What is stale is looked at when the batch comes.
Timed ==
  /\ at' = "next"
  /\ batch' = {[id |-> b.id, fresh |-> b.fresh, stale |-> ~b.fresh /\ b.id \in past] : b \in batch}
  /\ UNCHANGED <<cur, part, result, live>>

Receive_AnyBatch ==
  /\ at = "claimed"
  /\ drained' = (drained \/ rebuilt)
  /\ IF batch = {} THEN PassEnds ELSE Timed
  /\ UNCHANGED <<platform, journal, request, rebuilt, up, connected, late, runs, substituted, faults>>

\* The batch is timed when it comes.  An empty one proves that no command of
\* the time before the rebuild is left.
Receive ==
  /\ at = "claimed"
  /\ drained' = (drained \/ (rebuilt /\ batch = {}))
  /\ IF batch = {} THEN PassEnds ELSE Timed
  /\ UNCHANGED <<platform, journal, request, rebuilt, up, connected, late, runs, substituted, faults>>

\* The end of an execution: the outcome is sent, unless the platform changed.
Send(c, o) ==
  IF live THEN at' = "completing" /\ cur' = c /\ result' = o /\ UNCHANGED <<batch, part, live>>
          ELSE PassEnds

\* The next row of the pass, or its end.
Done(c) ==
  LET rest == {b \in batch : b.id # c}
  IN IF rest = {} THEN PassEnds
                  ELSE at' = "next" /\ batch' = rest /\ Clear /\ UNCHANGED live

\* complete: the outcome is recorded first.  A journal that is full refuses an
\* entry that is new: the command is rejected then, without a record.
Complete(c, o) ==
  IF HasRoom(c)
    THEN /\ journal' = [journal EXCEPT ![c] = Completed(o)]
         /\ Send(c, o)
    ELSE /\ Send(c, "full")
         /\ UNCHANGED journal

-----------------------------------------------------------------------------
(* The executor: run, up to its first wait *)

Unknown == rebuilt /\ ~drained

Submitting(c, p) ==
  at' = "submitting" /\ cur' = c /\ part' = p /\ UNCHANGED <<batch, result, live>>

\* A command without a record, of a store that forgot.
RunForgotten(c) ==
  /\ Unrecorded(c) /\ Unknown /\ HasRoom(c)
  /\ Complete(c, "indeterminate")

RunCompleted_Skips(c) ==
  /\ journal[c].state = "completed"
  /\ Done(c)
  /\ UNCHANGED journal

RunCompleted(c) ==
  /\ journal[c].state = "completed"
  /\ Send(c, journal[c].outcome)
  /\ UNCHANGED journal

RunExpired(b) ==
  /\ Unrecorded(b.id) /\ ~Unknown /\ b.stale
  /\ Complete(b.id, "expired")

RunRefused_Replays(b) ==
  LET c == b.id
  IN \/ /\ Unrecorded(c) /\ ~Unknown /\ ~b.stale
        /\ Complete(c, "rejected")
     \/ /\ journal[c].state = "dispatching"
        /\ Complete(c, "rejected")

\* Refused here: not advertised, not the owner's, not shared, no such project.
RunRefused(b) ==
  LET c == b.id
  IN \/ /\ Unrecorded(c) /\ ~Unknown /\ ~b.stale
        /\ Complete(c, "rejected")
     \/ /\ journal[c].state = "dispatching"
        /\ Complete(c, "indeterminate")

\* The intent is recorded before the request is submitted.
RunNew(b) ==
  LET c == b.id
  IN /\ Unrecorded(c) /\ ~Unknown /\ ~b.stale
     /\ IF HasRoom(c)
          THEN journal' = [journal EXCEPT ![c] = Dispatching(1)] /\ Submitting(c, 1)
          ELSE Send(c, "full") /\ UNCHANGED journal

RunReplay_Anew(c) ==
  /\ journal[c].state = "dispatching"
  /\ Submitting(c, journal[c].part) /\ UNCHANGED journal

\* A record without an outcome: only a request that is retained may answer.
RunReplay(c) ==
  /\ journal[c].state = "dispatching"
  /\ IF request[c][journal[c].part] = NoRequest
       THEN Complete(c, "indeterminate")
       ELSE Submitting(c, journal[c].part) /\ UNCHANGED journal

\* The record that cannot be written ends the pass and the connection.
RunFails(c) ==
  /\ Unrecorded(c) /\ Unknown /\ ~HasRoom(c)
  /\ connected' = FALSE /\ PassEnds
  /\ UNCHANGED journal

Run(b) ==
  /\ at = "next" /\ live /\ b \in batch
  /\ \/ /\ \/ RunForgotten(b.id) \/ RunCompleted(b.id) \/ RunExpired(b)
           \/ RunRefused(b) \/ RunNew(b) \/ RunReplay(b.id)
        /\ UNCHANGED connected
     \/ RunFails(b.id)
  /\ UNCHANGED <<platform, request, rebuilt, drained, up, late, runs, substituted, faults>>

-----------------------------------------------------------------------------
(* Admission of the request *)

Current == request[cur][part]
Becomes(value) == request' = [request EXCEPT ![cur][part] = value]
Goto(step) == at' = step /\ UNCHANGED <<batch, cur, part, result, live>>
Answered(o) == at' = "answered" /\ result' = o /\ UNCHANGED <<batch, cur, part, live>>

\* receiveRemote: what is retained answers, and is never admitted anew.
Submit ==
  /\ at = "submitting"
  /\ \/ /\ Current.phase = "terminal"
        /\ Answered(Current.outcome) /\ UNCHANGED request
     \/ /\ Current.phase = "intent"
        /\ Becomes(Terminal("unavailable")) /\ Answered("unavailable")
     \/ /\ Current.phase = "dispatch_intent"
        /\ Becomes(Terminal("indeterminate")) /\ Answered("indeterminate")
     \/ /\ Current = NoRequest
        /\ \/ Answered("rejected") /\ UNCHANGED request
           \/ Becomes(InPhase("intent")) /\ Goto("admitted")
  /\ UNCHANGED <<platform, journal, rebuilt, drained, up, connected, late, runs, substituted, faults>>

Prepare ==
  /\ at = "admitted"
  /\ \/ Becomes(Terminal("rejected")) /\ Answered("rejected")
     \/ Becomes(InPhase("dispatch_intent")) /\ Goto("dispatched")
  /\ UNCHANGED <<platform, journal, rebuilt, drained, up, connected, late, runs, substituted, faults>>

Execute ==
  /\ at = "dispatched"
  /\ runs' = [runs EXCEPT ![cur][part] = @ + 1]
  /\ Goto("executed")
  /\ UNCHANGED <<platform, store, up, connected, late, substituted, faults>>

Finish ==
  /\ at = "executed"
  /\ \E o \in {"accepted", "indeterminate"} : Becomes(Terminal(o)) /\ Answered(o)
  /\ UNCHANGED <<platform, journal, rebuilt, drained, up, connected, late, runs, substituted, faults>>

\* The executor after its submission: a session that was created is recorded
\* together with the prompt that follows.
Respond ==
  /\ at = "answered"
  /\ IF result = "accepted" /\ part < Last(cur)
       THEN /\ journal' = [journal EXCEPT ![cur] = Dispatching(2)]
            /\ Submitting(cur, 2)
       ELSE Complete(cur, result)
  /\ UNCHANGED <<platform, request, rebuilt, drained, up, connected, late, runs, substituted, faults>>

-----------------------------------------------------------------------------
(* Completion *)

Lost ==
  /\ lost < MaxLost
  /\ lost' = lost + 1 /\ UNCHANGED deaths

Tell ==
  /\ at = "completing" /\ live
  /\ Settled(cur, result)
  /\ Goto("told")
  /\ UNCHANGED <<past, store, up, connected, late, runs, substituted, faults>>

\* A payload the platform will not take is replaced by a rejection.
TellInvalid ==
  /\ at = "completing" /\ live /\ result # "full" /\ Lost
  /\ Settled(cur, "rejected")
  /\ substituted' = substituted \cup {cur}
  /\ Goto("told")
  /\ UNCHANGED <<past, store, up, connected, late, runs>>

\* The platform takes neither the outcome nor the rejection: the record and
\* the row stay for the next claim.
TellNothing ==
  /\ at = "completing" /\ live /\ Lost
  /\ Done(cur)
  /\ UNCHANGED <<platform, store, up, connected, late, runs, substituted>>

\* The platform has the outcome: the record goes.
Forget ==
  /\ at = "told"
  /\ journal' = [journal EXCEPT ![cur] = NoEntry]
  /\ Done(cur)
  /\ UNCHANGED <<platform, request, rebuilt, drained, up, connected, late, runs, substituted, faults>>

-----------------------------------------------------------------------------
(* Faults *)

Waiting == {"asking", "claimed", "completing", "told"}
Executing == {"submitting", "admitted", "dispatched", "executed", "answered"}

\* What is on its way when its caller stops waiting.
Stray ==
  /\ lateClaim' = (lateClaim \/ at = "asking")
  /\ lateTold' = lateTold \cup (IF at = "completing" THEN {<<cur, result>>} ELSE {})

\* failed: the pass ends; an execution goes on without it.
Drop ==
  /\ connected /\ connected' = FALSE
  /\ Lost
  /\ IF at \in Executing THEN live' = FALSE /\ UNCHANGED <<at, batch, cur, part, result>>
                        ELSE PassEnds
  /\ Stray
  /\ UNCHANGED <<platform, store, up, runs, substituted>>

ClaimLate ==
  /\ lateClaim /\ lateClaim' = FALSE
  /\ HandOut
  /\ UNCHANGED <<answer, past, store, up, connected, loop, lateTold, runs, substituted, faults>>

TellLate(c, o) ==
  /\ <<c, o>> \in lateTold /\ lateTold' = lateTold \ {<<c, o>>}
  /\ Settled(c, o)
  /\ UNCHANGED <<past, store, up, connected, loop, lateClaim, runs, substituted, faults>>

Crash ==
  /\ up /\ up' = FALSE
  /\ deaths < MaxDeaths
  /\ deaths' = deaths + 1 /\ UNCHANGED lost
  /\ connected' = FALSE /\ PassEnds
  /\ Stray
  /\ UNCHANGED <<platform, store, runs, substituted>>

Restart ==
  /\ ~up /\ up' = TRUE
  /\ UNCHANGED <<platform, store, connected, loop, late, runs, substituted, faults>>

\* The control store is corrupt: it is set aside and its loss remembered.
RestartRebuilt ==
  /\ ~up /\ up' = TRUE
  /\ journal' = [c \in Command |-> NoEntry]
  /\ request' = [c \in Command |-> [p \in Parts |-> NoRequest]]
  /\ rebuilt' = TRUE /\ drained' = FALSE
  /\ UNCHANGED <<platform, connected, loop, late, runs, substituted, faults>>

\* Retention: the row of a request that ended is dropped after seven days.
Retire(c, p) ==
  /\ up /\ request[c][p].phase = "terminal" /\ cur # c
  /\ request' = [request EXCEPT ![c][p] = NoRequest]
  /\ UNCHANGED <<platform, journal, rebuilt, drained, up, connected, loop, late, runs,
                 substituted, faults>>

-----------------------------------------------------------------------------
Next ==
  \/ \E c \in Command : Issue(c) \/ Expire(c)
  \/ Connect \/ Ask \/ Claim \/ Receive
  \/ \E b \in batch : Run(b)
  \/ Submit \/ Prepare \/ Execute \/ Finish \/ Respond
  \/ Tell \/ TellInvalid \/ TellNothing \/ Forget
  \/ Drop \/ ClaimLate \/ \E c \in Command, o \in Outcomes : TellLate(c, o)
  \/ Crash \/ Restart \/ RestartRebuilt
  \/ \E c \in Command, p \in Parts : Retire(c, p)

\* The supervisor restarts the daemon, the connector reconnects and claims at
\* every heartbeat; calls are answered or given up; handlers return.
Fairness ==
  /\ WF_vars(Restart \/ RestartRebuilt) /\ WF_vars(Connect) /\ WF_vars(Ask) /\ WF_vars(Claim)
  /\ WF_vars(Receive) /\ WF_vars(\E b \in batch : Run(b))
  /\ WF_vars(Submit) /\ WF_vars(Prepare) /\ WF_vars(Execute) /\ WF_vars(Finish)
  /\ WF_vars(Respond) /\ WF_vars(Tell) /\ WF_vars(Forget)

Spec == Init /\ [][Next]_vars /\ Fairness

-----------------------------------------------------------------------------
(* Properties *)

TypeOK ==
  /\ row \in [Command -> {"absent", "pending", "claimed", "done"}]
  /\ answer \in [Command -> Outcomes \cup {"none"}]
  /\ past \subseteq Command /\ substituted \subseteq Command
  /\ \A c \in Command :
       /\ journal[c].state \in {"none", "dispatching", "completed"}
       /\ journal[c].outcome \in Outcomes \cup {"none"}
       /\ \A p \in Parts : request[c][p].phase \in {"absent", "intent", "dispatch_intent", "terminal"}
  /\ connected => up
  /\ at \in {"idle", "next"} \cup Waiting \cup Executing
  /\ Entries <= Capacity

\* A command runs at most once, and its prompt only after its session was
\* created, whatever is claimed again: after a lost answer, a crash, the
\* retirement of its request, the loss of the store.
RunsOnce ==
  /\ TypeOK
  /\ \A c \in Command : runs[c][1] <= 1 /\ runs[c][2] <= runs[c][1]

\* The web is told the truth: accepted means that all of it ran; rejected or
\* expired that the last of it did not, unless the platform would not take
\* the outcome.  The rejection for a full journal is not recorded, so that one
\* that arrives late may follow a later run.
Truthful ==
  \A c \in Command :
    /\ answer[c] = "accepted" => runs[c][Last(c)] = 1
    /\ (answer[c] \in {"rejected", "unavailable", "expired"} /\ c \notin substituted)
         => runs[c][Last(c)] = 0

\* A command is, for the web, what a request is for a client of the daemon.
\* The rejection for a full journal is no outcome: nothing remembers it.
Contract == INSTANCE Commands WITH
  Request <- Command,
  state <- [c \in Command |-> IF row[c] = "absent" THEN "new"
                              ELSE IF row[c] = "done" /\ answer[c] # "full" THEN "settled"
                              ELSE "taken"],
  executions <- [c \in Command |-> runs[c][Last(c)]],
  verdict <- [c \in Command |-> CASE answer[c] = "expired" -> "rejected"
                                  [] answer[c] = "full" -> "none"
                                  [] OTHER -> answer[c]]

ImplementsCommands == Contract!Spec

\* Every command that was claimed is answered, whatever was lost meanwhile,
\* unless a store that forgot has a journal that stays full: then the refusal
\* cannot be recorded either, and every pass ends the connection.
Exhausted == Unknown /\ Entries = Capacity
ClaimedIsAnswered ==
  []<>~Exhausted => \A c \in Command : row[c] = "claimed" ~> row[c] = "done"
=============================================================================
