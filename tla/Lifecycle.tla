----------------------------- MODULE Lifecycle -----------------------------
(***************************************************************************)
(* Stopping the host: the lifecycle of a stop or restart request           *)
(* (lifecycle.ts), the settlement and the release it runs (service.ts),    *)
(* and the teardown of the registry that settlement is made of             *)
(* (registry.ts), with one session, its run and its services.              *)
(*                                                                         *)
(* A request that was dispatched begins the drain at once; its settlement  *)
(* begins only after the outcome was committed and sent.  A request that   *)
(* supersedes another aborts the settlement of that one but does not join  *)
(* it, and a deadline aborts a settlement without joining it either: the   *)
(* job of every accepted request is a process of its own here, and several *)
(* tear the same session down at once.                                     *)
(***************************************************************************)
EXTENDS Naturals, FiniteSets

CONSTANTS
  Request,      \* host.stop and host.restart requests
  Action,       \* the action of each: "stop" or "restart"
  Mode,         \* the mode of each: "drain" or "force"
  MaxFaults     \* bound: steps that fail and ownership losses

ASSUME LifecycleAssumption ==
  /\ IsFiniteSet(Request)
  /\ Action \in [Request -> {"stop", "restart"}]
  /\ Mode \in [Request -> {"drain", "force"}]
  /\ MaxFaults \in Nat
  /\ "none" \notin Request

VARIABLES
  host,        \* HostLifecycle.current
  recoverable, \* blockedRecord.recoverable
  generation,  \* HostLifecycle.generation
  pending,     \* the request of HostLifecycle.pending; its generation is the host's
  asked,       \* pending.id: its response was not sent yet
  completing,  \* HostLifecycle.completing
  reply,       \* the outcome of each request and whether it was sent
  at,          \* the step of the settlement and release of each request,
  of,          \*   the generation it was started with,
  aborted,     \*   whether its signal is aborted
  raced,       \*   and whether the deadline has left it behind
  draining, stopping, fenced,  \* flags of the registry
  drained,     \* InteractionBroker.draining
  run,         \* the session's run is live
  row,         \* the stored state of that run
  marked,      \* the run is in shutdownInterruptions
  resident, services,   \* the session is open, its services live
  disposing, evicting,  \* it is being disposed of, for an eviction
  receiving,   \* a command is being received
  spoiled,     \* SessionServer.receiveFailure: one of them failed
  sealed,      \* SessionServer.sealed
  store,       \* the control store is open
  owner,       \* the locks: "held", "lost" or "released"
  cut,         \* history: a forced shutdown aborted a live run
  faults

machine == <<host, recoverable, generation, pending, asked, completing>>
job == <<at, of, aborted, raced>>
registry == <<draining, stopping, fenced>>
session == <<resident, services, disposing, evicting>>
work == <<registry, drained, run, row, marked, session, cut>>
ends == <<receiving, spoiled, sealed, store, owner>>
vars == <<machine, reply, job, work, ends, faults>>

-----------------------------------------------------------------------------
None == "none"

Steps == {"none", "wait", "cancel", "services", "disposing", "record", "commands",
          "providers", "settled", "sealing", "closing", "releasing", "over"}

\* Steps of options.settle, which the deadline races.
Settling == {"wait", "cancel", "services", "disposing", "record", "commands", "providers"}

\* Owner and store are current: assertCurrent of both.
Current == owner = "held" /\ store

\* SessionRegistry.assertAdmission
Admits == Current /\ ~fenced /\ ~stopping

\* canRetry of the service
CanRetry == Current /\ ~fenced

Spend == faults < MaxFaults /\ faults' = faults + 1

\* The signal of the pending request's job is aborted.
Aborted ==
  [r \in Request |-> aborted[r] \/ (pending # None /\ of[r] = generation)]

-----------------------------------------------------------------------------
(* HostLifecycle *)

\* block: nothing is pending any more, and what was is aborted.
Block(retryable) ==
  /\ host' = "blocked" /\ recoverable' = (retryable /\ CanRetry)
  /\ generation' = generation + 1 /\ pending' = None /\ asked' = FALSE

Refused_AnyForce(r) ==
  \/ host = "stopped"
  \/ host = "blocked" /\ Mode[r] # "force"
  \/ completing
  \/ /\ host = "draining" /\ pending # None
     /\ Action[pending] # Action[r] \/ (Mode[pending] = "force" /\ Mode[r] # "force")

\* A request is refused: wrong mode for a blocked host, a release under way, a
\* different request pending.
Refused(r) ==
  \/ host = "stopped"
  \/ host = "blocked" /\ (Mode[r] # "force" \/ ~recoverable \/ ~CanRetry)
  \/ completing
  \/ /\ host = "draining" /\ pending # None
     /\ Action[pending] # Action[r] \/ (Mode[pending] = "force" /\ Mode[r] # "force")

Merges(r) == host = "draining" /\ Action[pending] = Action[r] /\ Mode[pending] = Mode[r]

\* SessionRegistry.beginDrain is repeatable once shutdown has begun.
MayDrain == Admits \/ (draining /\ stopping /\ ~fenced /\ Current)

\* The request supersedes what is pending.
Supersede(r) ==
  /\ host' = "draining" /\ recoverable' = FALSE
  /\ generation' = generation + 1
  /\ pending' = r /\ asked' = TRUE
  /\ aborted' = Aborted /\ UNCHANGED <<at, of, raced>>

PrepareRefused(r) ==
  /\ reply[r] = "new" /\ Refused(r) /\ store
  /\ reply' = [reply EXCEPT ![r] = "rejected"]
  /\ recoverable' = (recoverable /\ (Mode[r] = "force" => CanRetry))
  /\ UNCHANGED <<host, generation, pending, asked, completing, job, work, ends, faults>>

PrepareFails(r) ==
  /\ reply[r] = "new" /\ ~Refused(r) /\ ~MayDrain
  /\ reply' = [reply EXCEPT ![r] = "rejected"]
  /\ Block(FALSE) /\ aborted' = Aborted /\ UNCHANGED <<at, of, raced>>
  /\ UNCHANGED <<completing, work, ends, faults>>

Prepare(r) ==
  /\ reply[r] = "new" /\ ~Refused(r) /\ MayDrain
  /\ reply' = [reply EXCEPT ![r] = "dispatched"]
  /\ draining' = TRUE /\ UNCHANGED <<stopping, fenced>>
  /\ IF Merges(r) THEN UNCHANGED <<machine, job>> ELSE Supersede(r) /\ UNCHANGED completing
  /\ UNCHANGED <<drained, run, row, marked, session, cut, ends, faults>>

\* The outcome of a dispatched request is committed, or the commit fails: on a
\* control connection the response then says so, elsewhere the request throws.
Commit(r) ==
  /\ reply[r] = "dispatched" /\ Current
  /\ reply' = [reply EXCEPT ![r] = "accepted"]
  /\ UNCHANGED <<machine, job, work, ends, faults>>

CommitFails(r) ==
  /\ reply[r] = "dispatched"
  /\ \/ Current /\ Spend
     \/ ~Current /\ UNCHANGED faults
  /\ reply' = [reply EXCEPT ![r] = "uncommitted"]
  /\ UNCHANGED <<machine, job, work, ends>>

-----------------------------------------------------------------------------
(* Settlement *)

Stop_Unmarked(r, mode) ==
  /\ stopping' = TRUE /\ UNCHANGED <<draining, fenced>>
  /\ UNCHANGED marked

\* shutdown marks the run that it interrupts before it aborts anything.
Stop(r, mode) ==
  /\ stopping' = TRUE /\ UNCHANGED <<draining, fenced>>
  /\ marked' = (marked \/ (mode = "force" /\ row = "running"))

\* settleDaemonWork: the broker drains; a forced one shuts down at once.
Start(r) ==
  /\ drained' = TRUE
  /\ IF Mode[r] = "force"
     THEN Stop(r, "force") ELSE UNCHANGED <<registry, marked>>
  /\ UNCHANGED <<run, row, session, cut>>

Started(r) ==
  /\ at' = [at EXCEPT ![r] = IF Mode[r] = "force" THEN "cancel" ELSE "wait"]
  /\ of' = [of EXCEPT ![r] = generation]
  /\ UNCHANGED <<aborted, raced>>

\* The drain is abandoned and admission opens again.
Resume ==
  /\ draining' = FALSE /\ UNCHANGED <<stopping, fenced>>
  /\ host' = "ready" /\ recoverable' = FALSE
  /\ generation' = generation + 1 /\ pending' = None /\ asked' = FALSE
  /\ UNCHANGED <<drained, run, row, marked, session, cut>>

\* afterResponse: settlement begins, or the drain is abandoned.  A response to
\* a request that is not the pending one changes nothing.
SendAccepted(r) ==
  /\ reply[r] = "accepted"
  /\ reply' = [reply EXCEPT ![r] = "told"]
  /\ IF host = "draining" /\ pending = r /\ asked
     THEN /\ asked' = FALSE
          /\ Started(r)
          /\ Start(r)
     ELSE UNCHANGED <<asked, job, work>>
  /\ UNCHANGED <<host, recoverable, generation, pending, completing, ends, faults>>

SendUncommitted_Keeps(r) ==
  /\ reply[r] = "uncommitted"
  /\ reply' = [reply EXCEPT ![r] = "rejected"]
  /\ UNCHANGED <<machine, job, work, ends, faults>>

SendUncommitted(r) ==
  /\ reply[r] = "uncommitted"
  /\ reply' = [reply EXCEPT ![r] = "rejected"]
  /\ IF host = "draining" /\ pending = r /\ asked
     THEN /\ aborted' = Aborted /\ UNCHANGED <<at, of, raced>>
          /\ IF Admits THEN Resume ELSE Block(FALSE) /\ UNCHANGED work
     ELSE UNCHANGED <<host, recoverable, generation, pending, asked, job, work>>
  /\ UNCHANGED <<completing, ends, faults>>

\* Off the control connection the failed commit throws past afterResponse.
Throw(r) ==
  /\ reply[r] = "uncommitted"
  /\ reply' = [reply EXCEPT ![r] = "thrown"]
  /\ UNCHANGED <<machine, job, work, ends, faults>>

\* finish catches what the settlement or the release threw: the host blocks,
\* unless the job is stale or the deadline has caught it already.
Stale(r) == of[r] # generation \/ raced[r]

Caught(r, retryable) ==
  /\ at' = [at EXCEPT ![r] = "over"] /\ UNCHANGED <<of, raced>>
  /\ IF Stale(r)
     THEN UNCHANGED <<machine, aborted>>
     ELSE aborted' = Aborted /\ completing' = FALSE /\ Block(retryable)

At(r, step) == at[r] = step
Goto(r, step) ==
  at' = [at EXCEPT ![r] = step] /\ UNCHANGED <<of, aborted, raced, machine>>

\* waitForDrain: no work is left; shutdown follows in the same turn.
Waited(r) ==
  /\ At(r, "wait") /\ ~aborted[r] /\ Admits /\ ~run
  /\ Stop(r, "drain") /\ Goto(r, "cancel")
  /\ UNCHANGED <<reply, drained, run, row, session, cut, ends, faults>>

\* It looks at its signal and at the registry in every round.
WaitEnds(r) ==
  /\ At(r, "wait") /\ (aborted[r] \/ ~Admits)
  /\ Caught(r, TRUE)
  /\ UNCHANGED <<reply, work, ends, faults>>

\* shutdown of a fenced registry only waits for the fence to settle.
Fenced(r) ==
  /\ At(r, "cancel") /\ fenced
  /\ Caught(r, TRUE)
  /\ UNCHANGED <<reply, work, ends, faults>>

\* Views and interactions are cancelled; force aborts the run and joins it.
Cancel(r) ==
  /\ At(r, "cancel") /\ ~fenced
  /\ IF Mode[r] = "force" /\ run
     THEN run' = FALSE /\ row' = "idle" /\ cut' = TRUE
     ELSE UNCHANGED <<run, row, cut>>
  /\ Goto(r, IF resident THEN "services" ELSE "record")
  /\ UNCHANGED <<reply, registry, drained, marked, session, ends, faults>>

\* The services are settled and disposed, and the entry is disposed of, which
\* joins a disposal under way but throws once the entry is gone.
Services(r) ==
  /\ At(r, "services") /\ resident
  /\ services' = FALSE /\ disposing' = TRUE /\ UNCHANGED <<resident, evicting>>
  /\ Goto(r, "disposing")
  /\ UNCHANGED <<reply, registry, drained, run, row, marked, cut, ends, faults>>

NotResident(r) ==
  /\ At(r, "services") /\ ~resident
  /\ Caught(r, TRUE)
  /\ UNCHANGED <<reply, work, ends, faults>>

\* disposeEntry ends for everybody who joined it.
Disposed ==
  /\ disposing /\ Current
  /\ resident' = FALSE /\ disposing' = FALSE /\ evicting' = FALSE /\ services' = FALSE
  /\ at' = [r \in Request |-> IF At(r, "disposing") THEN "record" ELSE at[r]]
  /\ UNCHANGED <<machine, of, aborted, raced, reply, registry, drained, run, row, marked, cut, ends, faults>>

\* Its failure fences the registry; an eviction reports it to the lifecycle,
\* a job falls with it.
DisposeFails ==
  /\ disposing
  /\ \/ Current /\ Spend
     \/ ~Current /\ UNCHANGED faults
  /\ fenced' = TRUE /\ UNCHANGED <<draining, stopping>>
  /\ disposing' = FALSE /\ evicting' = FALSE /\ UNCHANGED <<resident, services>>
  /\ at' = [r \in Request |-> IF At(r, "disposing") THEN "over" ELSE at[r]]
  /\ aborted' = [r \in Request |-> IF evicting \/ At(r, "disposing") THEN Aborted[r] ELSE aborted[r]]
  /\ IF evicting \/ \E r \in Request : At(r, "disposing") /\ ~Stale(r)
     THEN Block(FALSE) ELSE UNCHANGED <<host, recoverable, generation, pending, asked>>
  /\ UNCHANGED <<of, raced, completing, reply, drained, run, row, marked, cut, ends>>

\* The runs that shutdown marked are stored as interrupted; the settlement
\* looks at its signal before it goes on.
Record(r) ==
  /\ At(r, "record") /\ Current
  /\ row' = IF marked THEN "interrupted" ELSE row
  /\ marked' = FALSE
  /\ IF aborted[r] THEN Caught(r, TRUE) ELSE Goto(r, "commands")
  /\ UNCHANGED <<reply, registry, drained, run, session, cut, ends, faults>>

\* settleCommands waits until no command is being received; it throws for good
\* once one of them has failed.
Commands(r) ==
  /\ At(r, "commands") /\ ~receiving
  /\ IF spoiled THEN Caught(r, TRUE) ELSE Goto(r, "providers")
  /\ UNCHANGED <<reply, work, ends, faults>>

\* The providers settle, and the signal is looked at once more.
Providers(r) ==
  /\ At(r, "providers")
  /\ IF aborted[r] THEN Caught(r, TRUE) ELSE Goto(r, "settled")
  /\ UNCHANGED <<reply, work, ends, faults>>

\* A step of the settlement throws.
SettleFails(r) ==
  /\ at[r] \in {"wait", "cancel", "services", "providers"}
  /\ Spend /\ Caught(r, TRUE)
  /\ UNCHANGED <<reply, work, ends>>

LosesOwner(r) ==
  /\ At(r, "record") /\ ~Current
  /\ Caught(r, TRUE)
  /\ UNCHANGED <<reply, work, ends, faults>>

\* settle: the deadline passes.  The settlement it raced is not joined.
Deadline(r) ==
  /\ at[r] \in Settling /\ ~raced[r]
  /\ IF of[r] = generation
     THEN Block(FALSE) /\ UNCHANGED completing ELSE UNCHANGED machine
  /\ aborted' = [aborted EXCEPT ![r] = TRUE]
  /\ raced' = [raced EXCEPT ![r] = TRUE]
  /\ UNCHANGED <<at, of>>
  /\ UNCHANGED <<reply, work, ends, faults>>

-----------------------------------------------------------------------------
(* Release *)

Release_Superseded(r) ==
  /\ At(r, "settled")
  /\ IF host # "draining" \/ raced[r]
     THEN Goto(r, "over")
     ELSE /\ completing' = TRUE
          /\ at' = [at EXCEPT ![r] = "sealing"]
          /\ UNCHANGED <<of, aborted, raced, host, recoverable, generation, pending, asked>>
  /\ UNCHANGED <<reply, work, ends, faults>>

\* finish, after settlement: only the current job of a draining host releases.
Release(r) ==
  /\ At(r, "settled")
  /\ IF of[r] # generation \/ host # "draining" \/ raced[r]
     THEN Goto(r, "over")
     ELSE /\ completing' = TRUE
          /\ at' = [at EXCEPT ![r] = "sealing"]
          /\ UNCHANGED <<of, aborted, raced, host, recoverable, generation, pending, asked>>
  /\ UNCHANGED <<reply, work, ends, faults>>

\* complete: the server takes no more commands, and those it took have settled.
Seal(r) ==
  /\ At(r, "sealing") /\ ~sealed
  /\ sealed' = TRUE
  /\ UNCHANGED <<machine, reply, job, work, receiving, spoiled, store, owner, faults>>

Sealed(r) ==
  /\ At(r, "sealing") /\ sealed /\ ~receiving
  /\ IF spoiled THEN Caught(r, FALSE) ELSE Goto(r, "closing")
  /\ UNCHANGED <<reply, work, ends, faults>>

\* Logs, sessions and providers are disposed of; then the store is closed.
Close(r) ==
  /\ At(r, "closing")
  /\ store' = FALSE
  /\ Goto(r, "releasing")
  /\ UNCHANGED <<reply, work, receiving, spoiled, sealed, owner, faults>>

ReleaseOwner(r) ==
  /\ At(r, "releasing")
  /\ owner' = "released"
  /\ host' = "stopped" /\ recoverable' = FALSE
  /\ at' = [at EXCEPT ![r] = "over"]
  /\ UNCHANGED <<of, aborted, raced, generation, pending, asked, completing, reply, work, receiving, spoiled, sealed, store, faults>>

ReleaseFails(r) ==
  /\ At(r, "closing") /\ Spend
  /\ Caught(r, FALSE)
  /\ UNCHANGED <<reply, work, ends>>

\* The ledger cannot be written: the locks are closed all the same.
LedgerFails(r) ==
  /\ At(r, "releasing") /\ Spend
  /\ owner' = "released"
  /\ Caught(r, FALSE)
  /\ UNCHANGED <<reply, work, receiving, spoiled, sealed, store>>

-----------------------------------------------------------------------------
(* The host at work *)

\* A run starts: draining refuses it.
RunStart ==
  /\ ~run /\ resident /\ ~disposing
  /\ Admits /\ ~draining
  /\ run' = TRUE /\ row' = "running"
  /\ UNCHANGED <<machine, reply, job, registry, drained, marked, session, cut, ends, faults>>

\* It ends by itself; a fenced registry does not store that any more.
RunEnd ==
  /\ run /\ run' = FALSE
  /\ row' = IF fenced \/ ~Current THEN row ELSE "idle"
  /\ UNCHANGED <<machine, reply, job, registry, drained, marked, session, cut, ends, faults>>

Open ==
  /\ ~resident /\ Admits /\ ~draining
  /\ resident' = TRUE /\ services' = TRUE /\ UNCHANGED <<disposing, evicting>>
  /\ UNCHANGED <<machine, reply, job, registry, drained, run, row, marked, cut, ends, faults>>

\* evictIdle begins to dispose of an idle session.
EvictIdle ==
  /\ host = "ready" /\ Admits
  /\ resident /\ ~disposing /\ ~run
  /\ disposing' = TRUE /\ evicting' = TRUE /\ UNCHANGED <<resident, services>>
  /\ UNCHANGED <<machine, reply, job, registry, drained, run, row, marked, cut, ends, faults>>

Receive ==
  /\ ~receiving /\ store /\ (~sealed \/ host = "blocked")
  /\ receiving' = TRUE
  /\ UNCHANGED <<machine, reply, job, work, spoiled, sealed, store, owner, faults>>

Received ==
  /\ receiving /\ receiving' = FALSE
  /\ \/ UNCHANGED <<spoiled, faults>>
     \/ spoiled' = TRUE /\ Spend
  /\ UNCHANGED <<machine, reply, job, work, sealed, store, owner>>

\* The locks are lost: the registry is fenced and the host blocks.  The release
\* has stopped listening.
OwnerLost ==
  /\ owner = "held" /\ ~completing /\ Spend
  /\ owner' = "lost"
  /\ fenced' = TRUE /\ UNCHANGED <<draining, stopping>>
  /\ Block(FALSE) /\ aborted' = Aborted /\ UNCHANGED <<at, of, raced>>
  /\ UNCHANGED <<completing, reply, drained, run, row, marked, session, cut, receiving, spoiled, sealed, store>>

-----------------------------------------------------------------------------
Init ==
  /\ host = "ready" /\ recoverable = FALSE /\ generation = 0 /\ pending = None /\ asked = FALSE
  /\ completing = FALSE
  /\ reply = [r \in Request |-> "new"]
  /\ at = [r \in Request |-> "none"] /\ of = [r \in Request |-> 0]
  /\ aborted = [r \in Request |-> FALSE] /\ raced = [r \in Request |-> FALSE]
  /\ draining = FALSE /\ stopping = FALSE /\ fenced = FALSE
  /\ drained = FALSE
  /\ run = FALSE /\ row = "idle" /\ marked = FALSE /\ cut = FALSE
  /\ resident = TRUE /\ services = TRUE /\ disposing = FALSE /\ evicting = FALSE
  /\ receiving = FALSE /\ spoiled = FALSE /\ sealed = FALSE /\ store = TRUE /\ owner = "held"
  /\ faults = 0

Asked(r) ==
  \/ PrepareRefused(r) \/ PrepareFails(r) \/ Prepare(r)
  \/ Commit(r) \/ CommitFails(r)
  \/ SendAccepted(r) \/ SendUncommitted(r) \/ Throw(r)

Settle(r) ==
  \/ Waited(r) \/ WaitEnds(r) \/ Fenced(r) \/ Cancel(r)
  \/ Services(r) \/ NotResident(r) \/ Record(r) \/ LosesOwner(r)
  \/ Commands(r) \/ Providers(r) \/ SettleFails(r) \/ Deadline(r)

Complete(r) ==
  \/ Release(r) \/ Seal(r) \/ Sealed(r) \/ Close(r)
  \/ ReleaseOwner(r) \/ ReleaseFails(r) \/ LedgerFails(r)

AtWork ==
  \/ Disposed \/ DisposeFails \/ RunStart \/ RunEnd \/ Open \/ EvictIdle
  \/ Receive \/ Received \/ OwnerLost

Next == AtWork \/ \E r \in Request : Asked(r) \/ Settle(r) \/ Complete(r)

\* The outcome of what was dispatched is committed and sent, the timer of a
\* settlement fires, and a release goes on: nothing else is assumed to end, not
\* even a run or a service that settles.
Fairness ==
  /\ \A r \in Request :
       /\ WF_vars(Commit(r) \/ CommitFails(r))
       /\ WF_vars(SendAccepted(r) \/ SendUncommitted(r) \/ Throw(r))
       /\ WF_vars(Deadline(r)) /\ WF_vars(Complete(r))
  /\ WF_vars(Received)

Spec == Init /\ [][Next]_vars /\ Fairness

-----------------------------------------------------------------------------
(* Properties *)

TypeOK ==
  /\ host \in {"ready", "draining", "blocked", "stopped"} /\ recoverable \in BOOLEAN
  /\ generation \in Nat /\ completing \in BOOLEAN
  /\ pending \in Request \cup {None} /\ asked \in BOOLEAN
  /\ reply \in [Request -> {"new", "dispatched", "accepted", "uncommitted", "told", "rejected", "thrown"}]
  /\ at \in [Request -> Steps] /\ of \in [Request -> 0..generation]
  /\ aborted \in [Request -> BOOLEAN] /\ raced \in [Request -> BOOLEAN]
  /\ draining \in BOOLEAN /\ stopping \in BOOLEAN /\ fenced \in BOOLEAN
  /\ drained \in BOOLEAN /\ run \in BOOLEAN /\ marked \in BOOLEAN /\ cut \in BOOLEAN
  /\ receiving \in BOOLEAN /\ spoiled \in BOOLEAN /\ sealed \in BOOLEAN /\ store \in BOOLEAN
  /\ row \in {"idle", "running", "interrupted"} /\ owner \in {"held", "lost", "released"}
  /\ resident \in BOOLEAN /\ services \in BOOLEAN
  /\ disposing \in BOOLEAN /\ evicting \in BOOLEAN
  /\ faults \in 0..MaxFaults

\* Ownership is released, and the store closed before it, only when nothing of
\* the daemon is left at work: the session and its services are disposed of, no
\* run is live or stored as running, a run that the stop cut is stored as
\* interrupted, and no command is being received (service.ts complete).
ReleaseIsClean ==
  ~store \/ owner = "released" =>
    /\ ~resident /\ ~services /\ ~run /\ ~receiving
    /\ row # "running" /\ ~marked
    /\ cut => row = "interrupted"

\* The host stops for a request that was told so: no caller whose outcome was
\* not committed, and no settlement that another request superseded, stops it
\* (lifecycle.ts finish).
StopsForTheAsked ==
  /\ TypeOK
  /\ host = "stopped" => /\ pending \in Request /\ reply[pending] = "told"
                         /\ of[pending] = generation

\* What blocked a host and cannot be retried keeps it blocked, and a settlement
\* that the host did not wait for neither opens it nor goes on to release it
\* (lifecycle.ts block; ADR 0041).
BlockedStays ==
  [][host = "blocked" /\ ~recoverable => host' = "blocked" /\ ~recoverable' /\ (owner' = "released" => owner = "released")]_vars

\* A stop comes to an end, whatever hangs: the host stops, blocks or, when the
\* outcome was not committed, is ready again.  The exception is a failed commit
\* that threw past afterResponse: nothing resumes or settles then.
Orphaned == \E r \in Request : reply[r] = "thrown" /\ pending = r /\ asked
StopEnds == host = "draining" ~> (host # "draining" \/ Orphaned)

\* A host that is ready again serves as before: neither the registry nor the
\* broker refuses work.
ReadyServes == host = "ready" => ~draining /\ ~stopping /\ ~drained
=============================================================================
