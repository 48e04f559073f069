# Verification of the Felan session daemon

Felan is a coding-agent platform in TypeScript. Its core is a daemon
(`src/apps/daemon/src/daemon/`) that owns the sessions of one user: agents with
transcripts, running turns, questions to users, child agents and connected
clients. The daemon is one JavaScript thread over one durable control store. The
hard part is what happens between two `await`s of different callers,
what a process death leaves in the store, and what
clients and agents are told about it. This directory models that core in TLA+,
checks it with TLC on small instances, and proves the durable parts with TLAPS
for every instance.

Contents: [1 the system](#1-the-system), [2 the modules](#2-the-modules),
[3 ordered admission](#3-ordered-admission), [4 the interaction broker](#4-the-interaction-broker),
[5 child executions](#5-child-executions), [6 the live feed](#6-the-live-feed),
[7 sharing](#7-sharing-with-the-web), [8 publication](#8-publication-to-the-web),
[9 remote commands](#9-commands-from-the-web), [10 the host lifecycle](#10-the-host-lifecycle),
[11 runs](#11-runs), [12 proofs](#12-proofs), [13 findings](#13-findings-and-divergences),
[14 not modelled](#14-what-is-not-modelled), [15 plan](#15-plan).

To run: `tlc -config AdmissionLanes.cfg MCAdmission`, `tlapm AdmissionProofs.tla`.

## 1 The system

The daemon's parts, with the state each keeps, its operations, whom it works
with, what is hard about it and what makes it correct. Paths are relative to
`src/apps/daemon/src/daemon/` where no other is given.

| Component | State | Operations | Works with | Hard | Correct when |
|---|---|---|---|---|---|
| **Ordered admission** `admission.ts` | pending requests, one promise tail per session (lane), byte and duplicate counters; request rows | submit, duplicate, dispatch, finish | server and platform commands call it; handlers are the registry, broker, processes | the row is read before and after awaits; a lane moves on before a response settles; death around the dispatch intent | an ID is executed at most once, its stored outcome is true, every caller is told that outcome |
| **Interaction broker** `broker.ts` | rows, waiting promises, clients, one timer, continuation lanes | request, answer, dismiss, attach, disconnect, drain, settle, recover | extensions ask; clients answer; the registry settles and prompts continuations | several responders and one timer race; a deferred answer outlives its asker | first resolution wins; an answer reaches its agent at most once; nobody waits for nothing |
| **Child executions** `executions.ts` | execution rows, jobs, retry timers, the promise `control`, the scan microtask | spawn, steer, cancel, acknowledge, deliver, shutdown, settle | parent agents call it through the execution port; the registry opens, closes, evicts | jobs answer late; holds stop the queue; spawn, close and eviction wait on each other | slots are real; an end stands; a parent is told once; closes end |
| **Live feed** `fanout.ts`, `projection.ts`, client `reducer.ts` | listeners, cutover modes, outboxes, the client's view | publish, attach, flush, drain, close | projection publishes through the registry; server attaches | publications nest; deltas merge by offset; a snapshot crosses events | a view is a state of the session; a slow client harms only itself |
| **Session registry** `registry.ts` | resident sessions, reservations, closing set, policy, processes | open, attach, run, mutate, reload, copy, cancel, close, evict, delete | everything above | reservations against callbacks; partial failure of an opening | one runtime per session; nothing runs in a closed one |
| **Control store** `control-store.ts`, `persistence.ts` | all durable rows, revisions | transactions, transient revisions, pruning | all daemon components | a failed write fences the process | a row is written whole or not at all |
| **Control recovery** `control-recovery.ts` | - | recover after a death | store | which phase proves what | every row left open is settled by what is known |
| **Command operations** `operations.ts` and handlers | - | one handler per operation | admission calls them | partial failure | - |
| **Session projection** `projection.ts` | revision, stream offset, run state | publish, refresh, snapshot | registry, fan-out | content lags behind the runtime until a refresh | revisions are consecutive |
| **Session server** `server.ts` | connections, attachments | hello, attach, detach, submit | fan-out, admission, registry | policy is tightened before an attach is recorded | no frame after close; every attach detaches |
| **Client** `src/apps/felan/src/client/` | requests in flight, view, buffered updates | connect, submit, attach, recover | server | reconnection with requests in flight | a request is not lost or sent under a second ID |
| **Ownership** `src/apps/daemon/src/lock.ts` | lock directories, heartbeats | acquire, reclaim stale, renew, release | processes | two reclaimers; a paused owner | one owner |
| **Processes** | process trees, PTYs, scopes | spawn, seal, revoke, settle | registry | children outlive scopes | nothing runs after settlement |
| **Host lifecycle** `lifecycle.ts`, `service.ts` | drain state, generation, pending request, deadline | drain, stop, restart, settle, release, resume | admission dispatches it; registry, broker, server, ownership | requests supersede each other; the deadline races the settlement, which nobody joins | the locks go only when nothing is at work; a stop settles or reports blocked |
| **Sharing** `src/apps/daemon/src/remote/sharing.ts`, `connector.ts` | a record per session, the default, what the web was told | share, unshare, reconcile, delete, publish a row, terminate | registry tells of changes; the platform stores rows | lost and late responses; a family changed in several transactions; a row read before an await | what is not shared is owed to the web and told |
| **Publication** `src/apps/daemon/src/remote/outbox.ts`, `connector.ts` | outbox rows, cursor, early changes, gaps | record, backfill, publish, acknowledge, recover | sharing; the platform appends | changes during the backfill; a full outbox; sequence gaps; power loss | no sequence for two contents; nothing due is skipped; the web shows what was shared, in order, once |
| **Remote commands** `src/apps/daemon/src/remote/commands.ts`, `command-journal.ts` | journal, claim loop | claim, run, complete, forget | the platform queues; admission executes | lost completions, a rebuilt store, a full journal, expiry | a command runs once; the web is told the truth and always answered |

Outside the daemon: the terminal UI and ACP server (`apps/felan`), the agent core
(`packages/agent-core`), the protocol schemas (`packages/session-protocol`), and
the extensions (`packages/ext-*`: memory, background jobs, tasks and subagents,
MCP and others). `PROJECT.json` lists every component with its status, and every
hazard with its line.

**How the core interacts.** A client's command goes server → admission → handler.
A handler that runs an agent commits its dispatch in the registry. The agent
asks a question through the broker, which reaches the clients as revisions of the
projection through the fan-out; the answer is again a command. The agent spawns
children through the execution port; each child is a session of the registry,
and its completion comes back as a message in the parent's transcript. When the
user shares a session with the web, the connector records its changes and publishes
them; commands of the web come back through the same admission as those of
local clients. A stop of the host is an admitted command too, whose effect tears all of this down.

**What the interleavings are.** All of it is one thread, so a section
between two awaits is atomic; an action here is such a section, with every
call it makes. Callbacks that re-enter (a socket that closes inside a
publication) are modelled as such, by a stack. The process may die between any two
durable writes. A write that fails fences the process (`persistence.ts`),
which is the same as dying.

## 2 The modules

| Module | Models | Lines |
|---|---|---|
| `Commands.tla` | abstract: what a request ID is promised | 52 |
| `Admission.tla` | ordered admission and its recovery; implements `Commands` | 467 |
| `AdmissionProofs.tla` | theorems about it | 1048 |
| `Questions.tla` | abstract: what a question is promised | 44 |
| `Broker.tla` | broker, its recovery, session settlement; implements `Questions` | 500 |
| `BrokerProofs.tla` | theorems about it | 1248 |
| `Tasks.tla` | abstract: what a spawned task is promised | 60 |
| `Executions.tla` | executions with the session tree and the parent port; implements `Tasks` | 679 |
| `ExecutionsProofs.tla` | theorems about it | 7176 |
| `Feed.tla` | abstract: what an attached viewer is promised | 36 |
| `Fanout.tla` | projection, fan-out, connection and client of one session; implements `Feed` | 441 |
| `FanoutProofs.tla` | theorems about it | 8511 |
| `Sharing.tla` | which sessions of a family are shared and what the web was told | 666 |
| `SharingProofs.tla` | theorems about it | 3234 |
| `Channel.tla` | abstract: what publication promises about one session | 48 |
| `Publication.tla` | recording, outbox and publication of one session; implements `Channel` | 594 |
| `PublicationProofs.tla` | theorems about it | 4908 |
| `RemoteCommands.tla` | claim loop, executor, journal, admission of remote commands; implements `Commands` | 471 |
| `RemoteCommandsProofs.tla` | theorems about it | 1660 |
| `Lifecycle.tla` | stop and restart of the host: requests, settlement, release | 543 |
| `LifecycleProofs.tla` | theorems about it | 1218 |
| `MC*.tla`, `*.cfg` | instances for TLC | |

Each component module composes a component with the parts of its neighbours that
can disturb it: the registry's claims and the store in `Admission`, sessions that end in
`Broker`, the registry's tree operations and the port in `Executions`, server,
registry and client in `Fanout`, the platform in the three remote modules,
the service, the registry's teardown and the locks in `Lifecycle`. Where a neighbour is only known by what it may
do, its outcome is a choice.

Definitions whose name has an underscore and a second part (`Reported_Overwrites`,
`Stop_Unmarked`) are not part of a specification. Each is the body that the definition
of the first name would have after a plausible mistake; replacing it makes a run report
the property that guards it.

Variables are grouped in comments as *durable* (they survive `Crash`), volatile,
and *history* (they exist for properties only and guard nothing). Counters such as
`crashes`, `troubles`, `tries`, `faults` and `choices` bound the model.

## 3 Ordered admission

`Admission.tla` over `admission.ts`, the request rows of `control-store.ts`,
`registry.ts` where it commits dispatches, and `control-recovery.ts`.

*State.* `phase`, `body`, `outcome`: the row of a request, absent → `intent` →
`dispatch_intent` → `terminal`. `pending`, `pc`, `ahead`: the promise of a request
and those it waits behind in its lane; `preparing` is the part that runs in the lane,
`settling` the part that goes on after the lane is released, `failed` a rejected promise. `bytes`, `duplicates`:
the counters. `call`: what each caller waits for or was told. `session`: the
session of a lane. `runs`: how often the effect ran since the row's admission.

| Action | Code |
|---|---|
| `SubmitNew`, `SubmitRetained`, `SubmitDuplicate`, `SubmitRefused` | the branches of `submit`: prune, look up the row, compare identities, join a pending promise, check the session and the limits, store the intent |
| `Dispatch`, `DispatchFails`, `CrashInDispatch` | `AdmittedCommand.dispatch`: commit the dispatch intent, then run the effect; its commit may fail; the process may die between the two |
| `Answer`, `Delete` | effects whose commit settles or removes rows in the same transaction |
| `HandlerReturns` | the handler's promise is handed over and the lane moves |
| `Finish` | the response: store the outcome if the row is still open, tell owner and duplicates, return the bytes |
| `SwitchSession`, `Age` | a session closes or reopens; `retainUntil` passes |
| `Crash`, `Restart` | death loses the memory; recovery settles the rows left |

*Kinds of request.* `command` dispatches in its handler; `answer` answers an
interaction; `managed` (run, fork, reload, mutation) is committed by the
registry, perhaps after the lane moved on; `delete` commits a tombstone.

*Properties.*

- `ExecutedAtMostOnce` (proved): under one admission an effect runs once at most, whatever
  is retried, settled late or recovered.
- `OutcomeIsEvidence`: `accepted` is stored only if the effect ran, `unavailable`
  only if it did not; `rejected` and `indeterminate` promise neither.
- `OutcomeIsFinal` (proved): a terminal row keeps outcome and identity until it is forgotten.
- `ToldTheRecord` (proved): a caller hears what the row says for the identity it submitted.
- `LaneOrder`: effects of one lane that is still preparing start in the order of admission.
- `SafetyHeadroom`: the counters are what callers hold (`Accounting`, one of its conjuncts,
  with the types); ordinary requests leave room for a cancel or an answer.
- `AdmittedSettles`, `CallersAnswered`: liveness, if handlers and responses come to an end
  and a dead daemon is started again.
- `ImplementsCommands`: all of it refines `Commands`.

A request ID that is used again after retention has forgotten it is admitted as
a new one. The code does so, and `session-daemon-persistence.md` documents it.
Therefore "at most once" counts from the admission of a row.

## 4 The interaction broker

`Broker.tla` over `broker.ts`, the interaction rows, `registry.ts`
(`settleInteractions`, `resumeInteraction`) and `control-recovery.ts`.

*State.* `state`, `winner`, `cont`: the row (waiting → deferred → answered, cancelled or
expired), its responder and its continuation (`ready` → `dispatch_intent` →
completed, indeterminate or cancelled). `told`: what the promise of
`request()` is or became. `overdue`, `held`: deadlines that have passed and that the timer
has not served. `activity`: a session is idle, runs, ends or has settled. `lane`,
`stage`: continuations of a session and where the first one is.
A `Transient` question (OAuth) is never stored: a death makes it `lost`.

| Action | Code |
|---|---|
| `Request`, `Abort` | `request`: refused while draining, without a presenter, or stored and shown; the asker's signal |
| `Connect`, `Attach`, `Detach`, `Disconnect` | clients; the last eligible one that leaves cancels what only it could answer |
| `Answer`, `Dismiss` | `answer` by a client or a platform command; the promise is resolved, or a continuation is stored and scheduled |
| `DeadlinePasses`, `HoldPasses`, `Timer` | the one timer: expire what is overdue, defer what was held too long |
| `Drain` | defer or cancel all |
| `BeginEnding`, `Settle`, `EndSettled`, `Reopen`, `StartRun`, `EndRun` | the registry cancels, closes, reopens and runs a session; settling cancels its questions |
| `Begin`, `Refuse`, `Resume`, `Finish` | a continuation's turn: preflight by the registry, busy or failing for any other reason (a session that ends, one that cannot be opened, a pinned copy), committed and prompted, completed or indeterminate |
| `Crash`, `Restart` | recovery by state and kind; with `HostRecovers` a host may also call `recover()` when it starts, the composed daemon never does |

*Properties.* `AskerAgrees` (an asker waits exactly while its row does and learns the
outcome that won), `DeliveredOnce` (by promise or by continuation, never both, never twice),
`Serialized` (continuations of a session never overlap), `ResolvedForGood` (a resolved row stays),
`NobodyWaitsInVain` (`DrainedNobodyWaits`: after a drain nobody waits; `WaitsForSomebody`: an OAuth or
recipient-bound prompt waits only while somebody could answer), `TimedWaitEnds`, `ImplementsQuestions`.
`DeliveredOnce` and `ResolvedForGood` are proved, the others checked or both (section 12). `BusyLeavesReady` and `ReadyIsResumed` are what the
documentation says and the code does not do; `BrokerBusy.cfg` and `BrokerResume.cfg` show it (section 13), and no run has either.

`BeginEnding` may also cancel an idle session: the registry's early return there depends on
state of other components, and the larger set of behaviours includes the code's. A prompt
that is aborted while it waits for a run slot counts as completed, as in the code.

## 5 Child executions

`Executions.tla` over the whole of `RegistryExecutions` (`executions.ts`),
`registry.ts` (open, close, evict, restore, reload, copy, cancel, drain of one
tree), `control-recovery.ts` and the port in
`src/apps/felan/src/providers/execution-binding.ts`.

*State.* `row`: state, parent, end, completion pending and turn of each child.
`job`, `aborted`: running jobs, their controllers, and those that only wait for the delivery of their end (`leaving`).
`scan`, `missed`: a microtask that will look at the queue; whether the last one met a copy, a drain or a root without a runtime,
or a reload failed since. `control`: the spawn or steer that holds
the promise all others wait for, and its step. `retry`: completions that will be offered
again. `resident`, `host`, `closing`: runtimes, the step their host's shutdown has reached, and the registry's closing set;
`closed`: sessions stored as closed, which a close of their parent passes over and a client or a steer may open again.
`held`: a cancel, reload, copy or drain in progress. `waiting`, `sent`, `told`: a
notice in the port, in the parent's queue, and in its transcript. *History*: `silenced`, notices that were read or superseded before the
session was given them; `unheard`, executions that were ended while a job of theirs was leaving.

| Action | Code |
|---|---|
| `SpawnBegins`, `SessionStarts`, `SpawnEnds`, `SpawnFails` | `spawn` and `registry.open` with deferred activation; interrupted or failing at each await |
| `SteerBegins`, `SteerEnds`, `SteerFails` | `steer` of an ended child: restore it, queue another turn |
| `Scan`, `RunStarts`, `RunEnds`, `JobLeaves` | the microtask starts what fits; a job prompts; its row ends and its parent is told; the delivery has been awaited and the slot is free |
| `RetryFires`, `Send`, `Persist`, `DropSent`, `SendFails`, `Acknowledge` | `deliver`, the port's flush, the parent's transcript, a parent that clears its queue, a send that fails and puts its notices back whatever was read since, a result that was read |
| `Cancel` | `cancel` of an execution and all below |
| `BeginClose`, `Shutdown`, `CancelAll`, `HostShut`, `CloseChildren`, `Dispose` | close of a session, step by step with its awaits |
| `Evict`, `Restore` | idle eviction, reopening |
| `HoldBegins`, `HoldEnds`, `ReloadFails` | lifecycle operations that make a tree refuse work; a reload whose new runtime cannot be opened leaves the tree without a root |
| `Crash` | death and recovery of the rows |

The end `completed` stands for the ends that a steer may continue
(`completed`, `model_request_failed`, `turn_limit_reached`); timeouts are the
code's own cancels.

*Properties.* `SlotsAreReal` (`SlotsFit`: the jobs fit the limit and a row that says running has a live job, one that nobody aborted and that is not
leaving; `LiveJobsRun`: a live job works for a row that says running), `SilencedStaysUntold` (a completion that was read, or whose child
was continued, before the parent's session was given it never reaches that session),
`ClosedIsQuiet` (nothing is left running at or below a session, the root included, whose close is over), `QueuedStarts`, `NoticeArrives`,
`CloseSettles`, `ImplementsTasks` (among others: a late answer does not replace an end).

*What the code does not promise.* A send that fails puts its notices back into the port without asking whether they were read or superseded
since they were handed over (`execution-binding.ts:83`). So the port may hold, and tell, a completion the parent has read, against
`agents-tasks-and-prewalk.md:81`: `NothingStaleWaits` says that it does not and `ExecutionsStale.cfg` shows it violated. What was silenced *before*
it was handed over stays silent, which is `SilencedStaysUntold`. And an aborted job may outlive its row into another turn (*Depth* below).

*Two switches* keep the large run apart from two findings. With `Interrupts` a
spawn may be cancelled, or its activation may fail, between its session's start and its
end, and a child may be steered while it is evicted; these reach a circular wait
(`executions_close`). With `CloseUntold` a session may be closed or evicted
while its own notice awaits a retry and its parent stays
(`ExecutionsNotice.cfg`). `executions_tree` has both off, and so says what holds
in all other cases.

`QueuedStarts` says that no execution stays queued for ever *unless* the last scan met a
copy, a drain or a root without a runtime, or a reload failed: nothing looks at the queue when these end, until some other
event of the tree does. The exception is visible in the formula as `missed`. `NoticeArrives` excepts an execution that was ended while a
job of an earlier turn was leaving (`unheard`): cancels and shutdowns leave telling to the jobs they find (`executions.ts:262`), and this one tells nothing more.

*The order behind `control`.* Calls queue behind the promise `control`. `CancelAll` waits until it is free: what was queued
when the shutdown began went before it, and what is queued since comes after it.

*Depth.* `executions_tree` nests two executions; three, the code's default, take a state space of another order, and were run by hand for
`SlotsAreReal` alone (`ExecutionsDeep.cfg`, which passes). `SlotsAreReal`, `SilencedStaysUntold` and the refinement are proved
for every depth, `ClosedIsQuiet` up to three (section 12); the liveness properties are checked at depth two only.
At three `JobsAnswer` fails, which says that an aborted job too has left its row behind for good (`ExecutionsSteer.cfg`): when a
session is closed its `CancelAll` ends the row of a grandchild whose aborted job has not ended; the parent between is not closing
yet and may steer that grandchild, since `steer` asks for the end of the row (`executions.ts:175`) and not for the job. The row is queued for another turn, and the
old job's end, which only looks at `completedAt` (`executions.ts:258`), ends that turn before it has run. The slots stay right all the same, which is what
`SlotsAreReal` says. At four `ClosedIsQuiet` fails in the model: while a session
closes whose child is stored as closed, a client opens the grandchild again (`restore` asks only for the parent that is closing), which
steers a child of its own; the close passes over the closed child (`registry.ts:929`) and ends while that row is queued. `maxDepth` is 3 unless it is configured.

*Restrictions.* Children are restored under an open root and not under a closing
parent; a root is not closed while it reloads; restore and attach outside `control` are
atomic; a forced shutdown is a crash; steering a queued or running row
changes its text only; steering a closing child fails at once and is left out. A reloaded root that opens but cannot be
activated is not modelled; one that cannot be opened is (`ReloadFails`).

## 6 The live feed

`Fanout.tla` over `fanout.ts`, `projection.ts`, `server.ts` (attach, detach,
close), `registry.ts` (subscribe, publish, the ACP policy) and the client's
`reducer.ts`. One session, one attachment at a time per connection.

*State.* A state of the session is `[rev, done, off, lost]`: its revision, how many messages are
complete, how long the one being streamed is, and whether its stream was lost. Text
deltas move `off` without a revision. `log`: all states so far.
`stack`: publications in progress, innermost first, with the listeners each has
reached. `order`: the Set of listeners in its order. `mode`, `at`, `out`: closed,
open, held, captured or live; the subscription's revision; the outbox. `wire`,
`client`: frames under way, and the client's view, status and buffered updates.

| Action | Code |
|---|---|
| `Delta`, `Change`, `Invalidate`, `Relax` | the projection publishes text, a revision, one without a recorded event, or a policy change |
| `Deliver`, `Delivered` | one listener of the innermost publication is called; the publication ends |
| `Ask`, `Subscribe`, `Capture`, `Settle`, `Abandon` | attach: tighten the policy, subscribe and hold, take the snapshot, cut over, or give up |
| `Detach`, `Hang` | the client leaves; the socket stalls |
| `Flush`, `Written`, `Drain` | the outbox: merge, write, count, wait for a drain |
| `Read` | the client folds a frame, or recovers from a gap |

*Properties.* `PipelineIsCurrent`: when nothing is being published, what the client shows plus
what is under way to it is the session's state, and the byte counter is what the outbox holds (`Accounting`, a conjunct). `ImplementsFeed`: a view is always a
state the session went through, and moves forward. `CatchesUp`: with fair writes and reads an attached client catches up or is closed, again and again.
`OverflowIsPrivate`: a connection that meets a revision it did not expect, and is closed for it, meets it in one of two ways only: the close of another connection
relaxed the policy inside a change it had yet to be told (`Overtaken`), or it held the two in that order for its cutover (`Crossed`). In these two
the code does close a bystander, against `session-daemon-server.md:117`: `NobodyElseCloses` says that it closes none, and `FanoutBystander.cfg` shows it
violated. Both need an ACP client, whose departure changes the policy; without one there is no bystander at all.

Production of events is allowed between all steps of an attach, since
`snapshot()` refreshes the projection and encoding may re-enter. A client reads only
between turns of the daemon, which commutes with them. `ImplementsFeed` is checked
without ACP clients: a nested policy event may overtake a delta for an instant. `CatchesUp` is checked with one terminal only.
Not modelled: a change of branch in the middle of a message, which clears the client's streams (`reducer.ts:120`), and the await between the
tightened policy and the subscription (`server.ts:467`), in which transport steps and other attaches may fall.

## 7 Sharing with the web

`Sharing.tla` over `connector.ts`, `sharing.ts` and `state.ts` of
`src/apps/daemon/src/remote/`: a root session and its children, who of them is
shared, and what the web was told.

*State.* `record`: the stored record of each session (`shared`, `explicit`, `web`,
`backfilled`, the two pending flags, the hosts it was attempted and indexed on, `terminal`).
`share`, `applied`: the default in force and the one the records were last reconciled with.
`alive`: sessions the registry has. `configured`, `stopped` (the platform revoked the login), `connected`, `host`, `indexed`,
`blocked`: the memory of the connector. `waiting`: sessions with events in the outbox.
`flight`, `late`: the publication awaited, and those given up that may still arrive. `web`: the platform.
*History*: `kept` (history put into the outbox), `forgotten`, `overtaken`.

| Action | Code |
|---|---|
| `ShareOn`, `ShareOff`, `CrashInOff` | `setShared`: the choice is stored with the root, then the members one transaction each |
| `ShareDefault`, `MarkWebCreated` | a new default and `applySharing`; a session that a web command created |
| `Backfill`, `CrashInBackfill`, `Change` | history into the outbox, then the mark; recording |
| `Delete`, `CrashInDelete` | `deleteAdmitted` of the family and the observer that tells the connector |
| `Login`, `Logout`, `Connect`, `Disconnect`, `Drop`, `Stop` | pairing, reconciliation at start, a host that changed (`fenceRepairedSessions`); a revoked host or credential, after which nothing is retried until the next login or start |
| `Discover`, `Publish`, `Arrive`, `Acknowledge`, `Terminate`, `Ignore`, `TimeOut`, `Refuse`, `ArriveLate` | `publishSessionNow` before and after its await, and the platform |
| `DeleteOnWeb`, `Crash` | the web deletes a session; the daemon dies |

*Properties.* `OffIsOwed`: a session shown as shared that is not shared has a record that owes the
web a `shared: false`, across lost responses, deaths, logins and deletion; `/remote off` is held to it for every session it finds shared. `SentIsRemembered`: nothing is sent
before the record says that something may have been. `OnIsAnnounced`: a session shared
again is announced again. `OffIsTold`: while the user stays logged in and the platform does not revoke the login, what is owed is sent and
acknowledged.

*What `OffIsOwed` excepts.* `forgotten` holds the sessions of which the code keeps no debt, each computed from the state *before* the step: the sessions `/remote off` withdraws while logged
out, if their record did not owe a row already (`Unnoticed`, `Untold`: `setShared` asks which sessions are shared, and logged out none is); the children it had not reached when the daemon died between its transactions; the
sessions whose record ends (fenced because a new pairing gave another host, where their rows are not, or the root's record became terminal, which hides the children's debts); and those deleted just before a death,
whose observer was not called. `SharingOff.cfg` drops the exception and is violated. `overtaken` holds those a request arrived for after it was given up; the platform orders rows by arrival.

*What `OnIsAnnounced` excepts.* A web command that is executed again marks its session as created from the web (`connector.ts:140`), whatever its record says. If the user had turned it off here, it
is shared again without a flag, and the web goes on showing it as unshared: `WebIsAnnounced` says that it does not, and `SharingWeb.cfg` shows it violated (section 13).

*Bounds.* One root, one child, two hosts (a logout and a new pairing with another host, before a
deletion or a share), `MaxChoices` 2 (an off after an on, or a choice and a deletion), `MaxFaults` 1.
`FirstHost` names the host of the first pairing, so that runs that differ in the hosts' names count once.

*Fairness.* The credential is read, connections are made unless the login was revoked, a request is answered or given up, and
the round over the sessions visits each again and again although a refusal or a lost connection
interrupts it: strong fairness, since `publish` walks all sessions in every round.

## 8 Publication to the web

`Publication.tla` over `outbox.ts` and the parts of `connector.ts` that fill and empty the
outbox of one session that is on or off. A change is its revision and its kind: a
message, or the run and metadata of the session (`state`, one value), of which the last counts. `Unfit` are the changes that
`publicationChange` cannot encode (invalid or too large): they are left out without a number.

*State.* `disk`: the committed record, cursor and outbox rows, and whether `skippedChanges` counts anything (`skipped`); `checkpoint`: what of it a power loss
leaves (SQLite, `synchronous = NORMAL`). `unflushed`: appended, committed at the end of the tick. `early`:
changes held until the backfill. `stopped` (recording blocked), `quarantined`, `gap`, `flight`,
`late`, `web`. *History*: `due`, `secret`, `lost`, `offered`.

| Action | Code |
|---|---|
| `Change` | `observe`: hold before the backfill, record after it, skip what cannot be encoded, overlook while logged out, stop when full |
| `Flush` | `flushSession` |
| `Backfill` | `backfill`, `performBackfill`, `finishBackfill`: the history and what was held behind it, without what cannot be encoded; a torn backfill is not repeated |
| `On`, `Off` | share; pause, or discard what was never attempted |
| `Login`, `Logout`, `Connect`, `Drop` | `recordStates` at login; the connection |
| `Publish`, `Arrive`, `Acknowledge`, `Recover`, `Settle`, `Refuse`, `ArriveLate` | a page by sequence number; the web's answer; a gap and its one fast-forward; quarantine |
| `Crash`, `CrashInBackfill`, `Checkpoint`, `PowerLoss` | what each of them leaves |

*Properties.* `Agreement`: the outbox never runs ahead of the web, and what the web has beyond
the cursor is what the outbox holds at the same numbers. `NothingSkipped`: a message or state
that was due is recorded, unless one of the five reasons below took it.
`WebShowsTheSession`: what was made while not shared stays at home, and messages arrive in order, once.
`PromiseKept` refines `Channel`. `Drains`: what is pending arrives while shared, logged in and not quarantined,
also after a power loss.

*What `NothingSkipped` excepts*, each in a history of its own (`lost`): the tick of a process that died (`crash`); an outbox that was full (`full`); and, before the second half of a torn
backfill, which reads no history, a buffer of early changes that overflowed, or a change larger than it (`early`), and changes held when the user stopped sharing, which `markUnshared` drops (`held`). A change that
cannot be encoded is excepted only if the record says so, as `remote-connector.md:177` promises: a skip that is not counted violates the property.

*Two gaps of the code.* `recordState` marks the state as recorded durably before
the entry is flushed (`connector.ts:627`), so a death in that tick loses the state until the next change. A state
that changes while logged out, between a torn backfill and the next, stays unrecorded if an earlier
share had recorded one (`markUnshared` keeps the flag).

*Bounds.* Pages of 2, an outbox of 2, 1 early change, 3 changes of which the second cannot be encoded, one change of mind, one fault, one power loss. Outboxes of 2 and 3, pages of 1 and 2, and no change,
the first, the third, or the first two that cannot be encoded were run by hand without a violation. The
branch of `Recover` that quarantines is not reached with one fault; `GapsAreHealed` (section 12) proves that only a second fast-forward in one
recovery, after a power loss, can reach it.

*Fairness.* Ticks end, reconnection is retried, rounds publish, a request is answered or given up.

## 9 Commands from the web

`RemoteCommands.tla` over `remote/commands.ts`, `command-journal.ts`, the claim loop of
`connector.ts`, `receiveRemote` of `server.ts` and the rows of `Admission`.

*State.* `row`, `answer`, `past`: the platform's rows, outcomes and expiries. `journal`: the entry of each
command; `request`: the rows of the one or two requests it becomes (a creation and its first prompt).
`rebuilt`, `drained`: the store was lost once, and the recovery marker that says old rows are through.
The claim loop waits at `at`, with its `batch`, the row `cur` it is at, the `part` of it that is submitted and the `result`;
`live` says that the platform of this pass is still current. `lateClaim` and `lateTold` are calls that were given up and may still arrive.
`runs` counts effects.

| Action | Code |
|---|---|
| `Issue`, `Expire`, `Claim`, `ClaimLate`, `TellLate` | the platform |
| `Connect`, `Ask`, `Receive`, `Tell`, `TellInvalid`, `TellNothing`, `Forget`, `Drop` | the claim loop: one batch at a time, completion, an outcome the platform will not take |
| `RunForgotten`, `RunCompleted`, `RunExpired`, `RunRefused`, `RunNew`, `RunReplay`, `RunFails` | `run` of the executor, by what the journal knows and whether the store was rebuilt |
| `Submit`, `Prepare`, `Execute`, `Finish`, `Respond` | admission of each part, and the next part or the completion |
| `Crash`, `Restart`, `RestartRebuilt`, `Retire` | death, recovery, an unreadable store, the retention of request rows |

*Properties.* `RunsOnce`: each part of a command runs at most once, the prompt only after the creation.
`Truthful`: what the web hears is what happened. `ImplementsCommands`: for the web a command is what a request is for a
local client, by the same abstract module. `ClaimedIsAnswered`: what was claimed is answered, unless a rebuilt store has a journal that stays
full; then `run` throws in every pass and the connection ends each time.

*Bounds.* One prompt and one creation, a journal of one entry, one lost call, one death. *Fairness*: every step of the daemon, and the platform hands out
what is asked for; no lost call is assumed away.

## 10 The host lifecycle

`Lifecycle.tla` over `lifecycle.ts`, `service.ts` (`startDaemon`, `settleDaemonWork`), `registry.ts` (`shutdown`,
`beginDrain`, `waitForDrain`, `disposeEntry`, `evictIdle`), `server.ts` and `ownership.ts`.

*State.* `host`, `recoverable`, `generation`, `pending`, `asked`, `completing`: the fields of `HostLifecycle`
(`asked` is `pending.id`: its response has not been sent). `reply`: the outcome of each request and whether it was sent.
`at`, `of`, `aborted`, `raced`: the settlement and release of each request: its step, the generation it was
started with, whether its signal is aborted and whether the deadline has left it behind; nobody joins a settlement that was superseded or
ran past its deadline, so several run at once. `draining`, `stopping`, `fenced`: flags of the registry; `drained`: the broker's.
`run`, `row`, `marked`: a run, its stored state and whether `shutdown` has noted it as interrupted. `resident`, `services`, `disposing`, `evicting`: the session.
`receiving`, `sealed`, `spoiled`, `store`, `owner`: the server (`spoiled`: a received command failed; `receiveFailure` keeps the error, and every later `settleCommands` throws it), the store and the locks. *History*: `cut`.

| Action | Code |
|---|---|
| `PrepareRefused`, `PrepareFails`, `Prepare` | `prepare`: refuse, block, merge into the pending request or supersede it, begin the drain |
| `Commit`, `CommitFails`, `SendAccepted`, `SendUncommitted`, `Throw` | the outcome is committed and sent: only then settlement begins; else `resume` |
| `Waited`, `WaitEnds`, `Fenced`, `Cancel`, `Services`, `NotResident`, `Disposed`, `DisposeFails`, `Record`, `LosesOwner`, `Commands`, `Providers`, `SettleFails` | the settlement, await by await |
| `Deadline` | `settle` gives up waiting; the settlement goes on |
| `Release`, `Seal`, `Sealed`, `Close`, `ReleaseOwner`, `ReleaseFails`, `LedgerFails` | `finish` and the release |
| `RunStart`, `RunEnd`, `Open`, `EvictIdle`, `Receive`, `Received`, `OwnerLost` | the host at work |

*Properties.* `ReleaseIsClean`: store and locks are given up only when session, services, run and received commands are gone and a run that was cut is
stored as interrupted. `StopsForTheAsked`: the host stops only for a request whose outcome was committed and sent, and that nothing superseded.
`BlockedStays`: a host blocked for good stays blocked, and no unjoined settlement releases it. `StopEnds`: a drain stops, blocks or resumes, whatever hangs;
the exception is a commit that fails off the control connection, which throws past `afterResponse` (`server.ts:212`) and leaves the host draining.

*Noted while modelling.* When the ledger cannot be written the locks are closed all the same (`ownership.ts:240`), though the host
reports blocked. Two settlements, or one and an eviction, may dispose of one session: the later finds it gone and the host blocks without any fault.

*Bounds.* Two drains, of which one is a restart, and two forced stops: enough to merge, to supersede, to be refused for another action, and to retry a blocked host; two failures or losses of the locks. *Fairness*: outcomes are
committed and sent, the deadline fires, a release goes on, a received command is settled. Nothing else is assumed to end, neither a run nor a service.

## 11 Runs

| Run | Instance | Shows |
|---|---|---|
| `admission_commands` | a command and the deletion of its session, two identities, two callers (symmetric), one death | lane order, `Commands` |
| `admission_lanes` | an answer (safety operation) and managed work in one lane, `MaxBytes` 2, one death | evidence, counters and headroom, liveness |
| `broker_session` | two deferrable questions of a session, one timed, one remote, a hold; two deaths | who is told what; serialization; timed waits; `Questions` |
| `broker_prompts` | a tool approval, an OAuth prompt, a recipient-bound prompt; two clients | no wait without somebody who could answer; drains |
| `executions_tree` | two executions, flat or nested, one slot, two turns, every hold, one disturbance | all properties of section 5 |
| `executions_close` | `Interrupts`: a spawn is cancelled or fails half-way | finding: circular wait (expects a violation) |
| `fanout_stream` | one client, two attaches, frames 3, bytes 4, three events, text up to 2 | the pipeline, counters, overflows, `Feed` |
| `fanout_acp` | a terminal and an ACP client, frames 3, bytes 4, four events, no text | nested publications; who is closed when another client leaves |
| `sharing_family` | a root and a child, two hosts, two choices, one fault | what is owed and told |
| `publication` | pages and outbox of 2, three changes, one that cannot be encoded, one fault, one power loss | recording and publication, `Channel` |
| `remote_commands` | a prompt and a creation, a journal of one, one lost call, one death | at most once, true answers, `Commands` |
| `lifecycle_stop` | two drains (one a restart), two forced stops, two failures | clean release, what is stopped for, blocking, that stops end |

**Why the bounds are enough.** Two requests are the smallest number with a
lane order, a duplicate and a deletion; two callers the smallest with an owner and a
duplicate; the limits of `admission_lanes` are set so that a second request or a duplicate is refused. One death is
enough for each phase to be found by recovery; two deaths in the broker let a
recovered continuation die again. Two questions make one wait in the lane
behind the other. Two executions make a tree of depth two, siblings at a limit of one, and a
parent whose child waits; two turns make a notice stale. One disturbance reaches each
pair of it with any point of normal work; pairs of disturbances are not covered.
Three events let a delta merge, a message complete and a revision follow. Two attaches
make a client meet the frames of its earlier attachment.
With four events and a frame limit of 3 both ways of closing a bystander occur in `fanout_acp`: `OverflowIsPrivate` without either of them is violated.
One fault in `sharing_family` and `publication` is a lost, delayed or refused request, a lost connection or a death, at any
point; two choices turn a session off after it was on, or off and on again. Three changes, or two and the entry that opens a history, overfill an outbox of 2; two held changes overflow the
early buffer of 1; a history of two entries and a change behind it take two pages of 2. A journal of one entry is full at once. Pairs of faults are covered in `lifecycle_stop` only.

**Bounds of the models**: `MaxCrashes`; `MaxTurns`, `MaxTroubles`, `Continued`;
`Kinds`, `MaxEvents`, `MaxText`, `MaxAttach`; `MaxChoices`, `MaxFaults`, `MaxChanges`, `MaxPowerLosses`; `MaxLost`, `MaxDeaths`.
All other constants are settings of the code (`PageSize`, `Capacity` and `EarlySize` stand for its page, row and buffer limits) or choose the instance.

**Deadlock** is checked in `Admission` and `Broker`. The other modules stop when
their bounds are used up, and `Lifecycle` when the host has stopped, so their configurations turn it off; their liveness properties
find a system that stops too early.

**Fairness**, weak but for the rounds of `Sharing`:

- Admission: handlers return, responses settle, a dead daemon is started again.
- Broker: the timer fires, lanes move, prompts return, ending sessions settle, a dead daemon
  is started. Nobody is assumed to answer.
- Executions: openings settle, microtasks and timers run, jobs end, parents take what their port
  sends, closes go on, a cancel, reload and copy end. A drain need not end, a parent need
  not acknowledge, a client need not open anything. Weak fairness suffices because `MaxTroubles` bounds
  failing openings.
- Sharing, publication, remote commands, lifecycle: sections 7 to 10.
- Feed: turns run to their end, `setImmediate` fires, a socket that does not hang reports writes
  and drains, clients read.

Each property of a passing run has a mutant in `PROJECT.json`: a plausible mistake in a modelled
definition under which TLC reports that property.

## 12 Proofs

`AdmissionProofs`, `BrokerProofs`, `ExecutionsProofs`, `SharingProofs`, `PublicationProofs`, `RemoteCommandsProofs`, `LifecycleProofs` and `FanoutProofs` hold for all values of the constants that satisfy
the assumption of the module (`AdmissionAssumption` and so on: any number of requests, callers, lanes,
questions, clients, executions, sessions, hosts, changes, choices, commands, deaths, stops, failures). Two assume more, and are false without: `ClosedQuiet`, `MaxDepth <= 3`; `Promised`, `Acp = {}`
(no ACP client, whose departure changes the policy of the session in the middle of a publication).

| Theorem | States |
|---|---|
| `TypeCorrect`, `BrokerTypes` | `Spec => []TypeOK` |
| `AtMostOnce` | `Spec => []ExecutedAtMostOnce` |
| `Evidence` | `Spec => []OutcomeIsEvidence` |
| `Final` | `Spec => OutcomeIsFinal` |
| `Told` | `Spec => ToldTheRecord` |
| `Ordered` | `Spec => LaneOrder` |
| `Headroom` | `Spec => []SafetyHeadroom`, with `Accounting` |
| `NeverStuck` | `NothingIsStuck`: no cycle of waiting in a lane, the safety that `AdmittedSettles` and `CallersAnswered` rest on |
| `Refinement` | `Spec => ImplementsCommands` |
| `AskersAgree`, `AnswerDeliveredOnce`, `ContinuationsSerialized` | `AskerAgrees`, `DeliveredOnce`, `Serialized` |
| `ResolutionIsFinal` | `ResolvedForGood` |
| `NobodyWaits` | `Spec => []NobodyWaitsInVain` |
| `BrokerImplementsQuestions` | `ImplementsQuestions` |
| `ExecutionsTypes` | `Spec => []TypeOK` |
| `SlotsAreFit`, `SlotsReal` | `SlotsFit` and all of `SlotsAreReal`, for every depth |
| `SilencedStaysSilent` | `SilencedStaysUntold` |
| `QueuedNotForgotten` | `QueuedIsOwed`: somebody will see to each execution that waits, the safety that `QueuedStarts` rests on |
| `ExecutionsRefinement` | `ImplementsTasks` |
| `ClosedQuiet` | `ClosedIsQuiet`, for `MaxDepth <= 3` |
| `ClosedNear` | `ClosedNearIsQuiet`: for every depth, nothing is left at the session, its children and theirs, and of a root nothing at all |
| `SharingTypes` | `Spec => []TypeOK` |
| `SentRemembered`, `DebtsKept`, `Announced` | `SentIsRemembered`, `OffIsOwed`, `OnIsAnnounced` |
| `ForgottenIsUnshared` | no session excepted from `OffIsOwed` is one the user has shared |
| `PublicationTypes` | `Spec => []TypeOK` |
| `Agreed`, `NothingIsSkipped`, `WebShowsIt` | `Agreement`, `NothingSkipped`, `WebShowsTheSession` |
| `PublicationRefinement` | `PromiseKept` |
| `GapsAreHealed` | `GapsHeal`: without a power loss every sequence gap is recovered from and nothing is renumbered |
| `Accounted`, `Current` | `Spec => [](TypeOK /\ Accounting)`, `Spec => []PipelineIsCurrent` |
| `OthersStay` | `OverflowIsPrivate`, with any ACP clients |
| `Promised` | `ImplementsFeed`, for `Acp = {}` |
| `LifecycleTypes` | `Spec => []TypeOK` |
| `CleanRelease`, `StopsAsked`, `BlockedForGood` | `ReleaseIsClean`, `StopsForTheAsked`, `BlockedStays` |
| `StopNotForgotten` | `StopIsOwed`: a drain has a response to send or a job at work, the safety that `StopEnds` rests on |
| `RemoteCommandsTypes` | `Spec => []TypeOK` |
| `CommandsRunOnce`, `CommandsTruthful`, `CommandsRefinement` | `RunsOnce`, `Truthful`, `ImplementsCommands` |

*Admission.* `IInv` is `TypeOK`, "a dead daemon has nothing pending", `RowInv` and `CallInv`.
`ExecutedAtMostOnce` alone is not inductive: that a row in `intent` has not run its
effect has to be known for `Dispatch` to keep it, which is the first conjunct of `RowInv`;
it also says what the outcome of a terminal row proves. `CallInv` relates a waiting caller
to the row and the pending promise it waits for; without it a caller could be told the outcome of another
identity. `LaneInv`, for `Ordered`, says that while a request waits behind another that is still
preparing it is preparing itself, and its row is still an intent. Each action has a lemma that it preserves the invariant; a lemma says how a
step moves one request, and from it follow finality and the refinement, in which every
step of `Admission` is a `Commands` step of each request or leaves it alone.
`Headroom` is about sums over the callers of a request: `Accounting` writes a sum as the cardinality of a set of units, one for each
request of weight one and two for a doubled one, which the library's theorems on finite sets can count. `SafetyHeadroom` is not inductive, since a
safety request that settles must leave its headroom to the next; `ReserveInv` adds that what may not use the headroom (pending requests
that are not for safety, and the duplicates waiting for them) fits without it.
`NeverStuck`: `TurnInv` says that what is ahead of a request ahead of mine is ahead of mine too, so among the promises of a lane that prepare the one with the
smallest such set (the library's well-founded order on finite sets gives it) has no other to wait for, and its handler is at work.

*Broker.* `IInv` is `TypeOK`, `RowInv`, `LaneInv` and `Serialized`. `RowInv` ties the
row, the promise, the continuation and the number of resumptions of one question. `LaneInv`
says that a lane holds continuations of its own session, that only the one at its head is past `ready`,
and that every dispatched continuation of a running daemon is that head; `Serialized` needs the last
part, and `DeliveredOnce` needs `cont` and `resumed` to agree, since a continuation that was dispatched before a
death must not be found `ready` after it. `NobodyWaits` needs `WaitInv` besides: after a drain nobody waits, a question that needs a presenter
and has a waiting asker has one, and a presenter that departs takes its orphans along because `AskerAgrees` ties row and promise.

*Executions.* `IInv` is `TypeOK`, `RowInv`, `PortInv`, `ControlInv` and `SlotsFit`, and holds with both switches on. `RowInv`: a row counts its turns once it is
there and owes a notice only when it is done. `PortInv`: a notice in the port or on
its way to the transcript is of an end that happened, is in one of the two places and is not told already; the refinement needs it for "told at most
once". `ControlInv`: what a spawn or steer has established before it gave way still holds when it goes on,
so that a spawn never starts a second row and a steer never queues a running one. `SlotsFit` is inductive by itself,
since every step that aborts a job ends its row at once. The lemmas are grouped by the part they keep (rows and port, `control`, slots, types), so that an action cites one of each; ends of many rows at
once, in a cancel, a shutdown or a crash, share one lemma. For these `Below` may be any set of executions.
`ClosedIsQuiet` needs to know what is below a session and has an invariant of its own, `CloseInv` (`ClosesBehind`). `KnownInv`: the rows are one tree. `Below` is
defined as the least set closed under children, so that facts about it need no induction: what is closed contains it. `DepthInv`: the tree is no deeper than `MaxDepth`; a row
that appears is one deeper than its parent and moves nobody else (`SproutBelow`, `SproutDepth`). `OwnInv`: a row without a runtime, or with one that is shut, neither
runs nor waits. `CallInv`: while a child is being opened its parent is not shut down and does not become closed, so that nothing appears below
what was closed. `ReloadInv`: the same for a root that reloads. `RootInv`: what the root's shutdown has joined stays at rest. `ClosedInv`, the heart: a session stored as closed has no runtime, and its
children are at rest. So when a session is disposed its children are closed and at rest, and theirs are at rest too (`CloseLeaves`); in a tree
three deep there is nothing else (`NearIsAll`), and `RootInv` speaks for the root.
`SilencedStaysUntold` speaks of the transcript; `SilentInv` adds that a silenced notice is nowhere on the way there and that nobody is owed it (`Mute`: its turn is superseded, or is over and not pending), so that no retry, restart or
restored port brings it back. A later end does not either: it is of a later turn (`KeepsMute`).
`LiveJobsRun`, the last part of `SlotsAreReal`, says that a live job works for a row that says running. It needs `JobsInv`: a spawn that nothing interrupts comes to its end under a parent that works
(`SpawnInv`), so no row ends while its job is left alive. A spawn that *is* interrupted after a scan has started its row ends that row over a job nobody aborts (`executions.ts:138`), which the formula excepts (`Interrupts`). Of an
*aborted* job it says nothing, for in a tree three deep that may outlive its row (`JobsAnswer`, section 5).
`QueuedIsOwed` is the safety in `QueuedStarts`, which only TLC checks: while an execution waits there is a scan to come, a job whose end brings one, the spawn it belongs to, a
reload or a cancel, or a close or an eviction of the execution, its parent or the root; else `missed`: the last scan met a copy, a drain or a root without a runtime, or a reload failed since. It holds for every depth and with both switches on (`QueueInv`).
The scan is the step that could forget: it clears the flag, and a row it passes over must have a reason that lasts. `EligibleOrOwed` shows that without one the row is eligible, which takes `OwnInv`
(what waits has a runtime) and three parts more. `HomeInv`: so has the root, or it reloads, could not be (`missed`), or was shut down. `RestInv`: so has the parent, and it has not cancelled its children, unless the spawn still holds the row, which is
then scheduled or ended in the same step (`BornInv` says whose child it is). `StopsInv`: only what has a runtime is shut down, apart from the child of a spawn that failed. The other hard step is the end of a close, which takes a reason away:
what it disposes of is nothing a row waits for (`WaitedFor`).

*Sharing.* `OffIsOwed` speaks of a state in which nothing is on its way and the records follow the default; the invariant has to
follow a debt through the states between. `OwedInv` says it of every session that nothing may overtake: what the web shows, *or a request on its way would
make it show*, is not ended and is chosen under the default the records *were reconciled with*, or its record owes a row. `AnswerInv` says what an answer
proves (a row with `shared: false` that was acknowledged in order is what the web shows), so that `Acknowledge` may clear a debt.
`SentInv` says that what was sent has a record with a host; without it `Withdrawn` would discard the outbox instead of noting the debt. `FamilyInv` (a child's record holds no choice) and
`ConnectionInv` (a login has reconciled) reduce what is chosen to the root's record, so that a step either changes nobody's choice (`Steady`), turns
off, shares, or ends sessions; there is a lemma for what each kind does to records, to choices, and to `forgotten`. `TurnOffOwes` is the one for `/remote off`: of what it withdraws, all that was sent owes a row afterwards or was among the exceptions
before; `ForgottenInv` (what is forgotten is not shared under either default) keeps the exceptions few: sharing a session again makes it accountable again.
`Announced` adds three parts. `AnnounceInv` says of a session that was told off, *shown so or on its way to be*, and is chosen again under the default
the records were reconciled with, that its flag or events of it are left; when the answer comes the flag may be cleared only because of `ShownInv`: a
request that was answered in order and shared is what the web shows. `RootInv` says that a child is told off only once the root
has a record; without it the record a web command creates (`MarkWebCreated`) would choose the child without a flag. All three leave out a root from the web (`FromWeb`).

*Publication.* `IInv` is `TypeInv`, `AnswerInv` and, unless power was lost (`Broken`), `WholeInv`. `AnswerInv`: what is acknowledged is on the web, also after a power loss, and an answer on its way tells of
no more than the web has. `WholeInv` says of cursor, outbox and web that they are pieces of one
sequence, `Recorded`: what the outbox holds continues the web or repeats its end with the same contents, and every request, one that arrives late too, carries
what `Recorded` has at its numbers (`Agrees`; `Agreement` is a part of it and not inductive without the requests). What
was due is in `Recorded` or held behind the backfill, unless it is `Spent`: in a history of losses, or a change that cannot be encoded and is counted (`MessagesInv`); and a state not older than the last one due is there, or one not
older was spent (`StateInv`, `Excused`). Order and secrecy of messages
(`WebShowsTheSession`) are stated of `Recorded` and `early` rather than of the web, since what is recorded will be shown. One lemma
(`WholeStep`) gathers every step but a power loss. A power loss takes rows the web may already have, and the numbers are used again
for other contents; the properties except what follows it.
`GapsHeal` rests on `GapInv`: a recovery leaves the cursor at the number the platform named, and what is published from there on is answered with a
higher one. So the same gap is never answered twice (a late request can only raise the number), and as long as the web has no more than
the outbox has numbered, which is so until a power loss, no fast-forward is needed.

*Lifecycle.* `IInv` is `TypeOK`, `Serial`, `Gone` and `Work`. `Serial` says that a job belongs to a request that was told so, and that the
job with the generation of the host, if there is one, is that of the pending request; one that releases is that job. It alone gives `StopsForTheAsked`
and `BlockedStays`. `ReleaseIsClean` needs what jobs that nobody joins leave behind: `Gone`, that the session which the *current* job
disposed of is not opened again, and `Work`, that a run which *any* job has cancelled is neither live nor stored as running afterwards, and that what shutdown
marked is stored before the job goes on. The types are proved in parts, since a step of one part of the daemon leaves most flags alone.
`StopIsOwed` is what `StopEnds` needs besides fairness: a draining host has either a response of its pending request to send, or that request was told so and
its own job is at a step of its settlement or release. Nothing supersedes, aborts or leaves behind that job without taking the host out of `draining` or
putting another request in its place (the generation goes up with each of these); that a job which did not begin is neither aborted nor raced (`Fresh`) is what it rests on.

*Remote commands.* `IInv` has a part for each thing that outlives the others: `RowInv` (what ran was claimed), `JournalInv` (what a record
proves: an open one, which part has run; a completed one, that its outcome is the truth; none at all, that nothing ran
or that the platform has the answer), `RequestInv` (the same for request rows), `LoopInv` (record, row and effect of the command
the loop is at) and `ToldInv`. `Truthful` rests on the last: a command that was answered, or whose outcome is still on its way, is `Over`, and
`OverStep` and `RunsStep` show that what is over stays over and runs no more. The one step that could end it is an empty
batch that clears the doubt about a store that forgot; `LoopInv` says that nothing which ran is unanswered then. The lemma of each part has a step
for every action that touches it; one more step covers the actions that leave its variables alone. The refinement follows
from where an answer can come from (`AnswerStep`).

*Feed.* The model folds sequences, and a fold of the library is a `CHOOSE` of a function that solves an equation. `FanoutProofs` first shows that
the equation has a solution and that the fold is the end of a *run*, a function on the positions of the sequence whose every value is made from
the one before (`DigestFold`, `UpdateFold`, `TotalFold`, `CutOverFold`); what holds along a run is then proved by the least position at
which it would fail (`NatSet`), which needs no induction theorem. `TypeInv`: outboxes are in order (`OutboxOk`: the counter, the limits), the events held or being published
are not ahead of the session, listeners are installed once. It is preserved by every step of the cutover, even one that ends in a close.

`PipelineIsCurrent` is about the moments between turns only, and says nothing of the way there. `FeedInv` says where every connection is at
all times. Its central notion is a *path* (`Path`): frames that lead, state by state, from one state of the session to another. For every client, what is
on the wire and in the queue is a path from the state it has reached (`Viewed`: what it shows is that or an earlier one, the updates it keeps for the snapshot are
in it) to the state its listener has been told of, and what is left of the publications in progress leads from there to
the session (`Lead`; at most two publications nest, `StackIs`). In a cutover the path ends in the snapshot, and what was held since is first what the
snapshot has, then a path that goes on (`HeldOver`). The steps of a publication and of a client follow from how paths are joined, split and merged (`PathJoin`,
`PathSplit`, `PathJoined`), and the cutover is an induction over the held events. The states of a path are those of the log without ACP clients; with one, a nested policy event overtakes
the delta it interrupts, and what a client passes through is only *some* state (`Tracks`), which is why `Current` holds for every `Acp` and
`Promised` does not. `OthersStay` asks why a connection would meet a revision it does not expect. `Late` answers for the cutover: of the revisions since the snapshot an attaching connection holds every one,
or it is still to be told it by a publication in progress (`Complete`), so a revision that is missing among the held ones is only late, behind another in what is held (`Crossed`). A live listener expects the revision it is told
unless the publication around it has yet to reach it (`Overtaken`), for publications are told in order (`ToldInOrder`). Both hold for any ACP clients. For `Promised` the log climbs (`Climbs`): no state comes back, so a later place in the
path is a later place in the log.

*Only model-checked*: the liveness properties, for the prover has no rule for fairness. Of `QueuedStarts`,
`StopEnds`, `AdmittedSettles` and `CallersAnswered` the safety part is a theorem (`QueuedIsOwed`, `StopIsOwed`, `NothingIsStuck`). Every
invariant and action property of the runs is a theorem.

## 13 Findings and divergences

The run `executions_close` ends with a counterexample, and the following configurations, which are not among the runs, do so when
they are run by hand. Each property is what a document or a comment of the repository says.

| Configuration and property | The text | The code |
|---|---|---|
| `executions_close`, `CloseSettles` | closing a session ends its children | When the opening of a registered child fails, its cleanup awaits the host's shutdown, which awaits `control`, the promise of the spawn that awaits the opening. |
| `BrokerResume.cfg`, `ReadyIsResumed` | `session-daemon-persistence.md:253`: ready continuations are resumed automatically | No code of the daemon calls `recover()`: an answer stored as a ready continuation before a death never reaches its agent. |
| `ExecutionsStale.cfg`, `NothingStaleWaits` | `agents-tasks-and-prewalk.md:76`, `81`: an acknowledged notice is suppressed, a continuation supersedes the undelivered one | A send that fails puts its notices back into the port (`execution-binding.ts:83`) without asking whether they were read or superseded since, and the next flush tells them. |
| `BrokerBusy.cfg`, `BusyLeavesReady` | `session-daemon-broker.md:24`: busy preflight leaves a continuation ready | A session that is being closed or cancelled makes an earlier check throw an error without that code; the broker (`broker.ts:366`) latches a failure that stops all later questions. |
| `ExecutionsNotice.cfg`, `NoticeArrives` | `agents-tasks-and-prewalk.md:85`: a completion is delivered | The retry belongs to the child (`executions.ts:340`) and is cleared when the child is evicted, although its parent stays. |
| `FanoutBystander.cfg`, `NobodyElseCloses` | `session-daemon-server.md:117`: an overflow closes that client | An overflowing ACP connection relaxes the policy inside the publish loop (`registry.ts:443`); listeners after it see two revisions in the wrong order and are closed. |
| `SharingCopy.cfg`, `BackfilledIsReal` | `remote-connector.md:126` | A session whose record says that its history was put into the outbox may have had none put there. |
| `SharingOff.cfg`, `OffReachesEverySession` | `remote-connector.md:133` | After `/remote off` while logged out nothing is owed to the web. |
| `SharingWeb.cfg`, `WebIsAnnounced` | `remote-connector.md:148`: web-created sessions are always shared | A command that is replayed after its session was turned off here marks it as web-created (`connector.ts:140`) without a flag: the web goes on showing it as unshared. |
| `PublicationOverflow.cfg`, `StateSurvivesOverflow` | the comment at `connector.ts:606` | A full outbox (`connector.ts:566`) loses a state that nothing records again. |
| `LifecycleReady.cfg`, `ReadyServes` | `session-daemon-service.md:44` to 46: a cancelled drain reopens admission | A drain that had begun to settle is superseded by a request whose outcome is not committed: the host is ready, the broker still refuses every question (`broker.ts:167`, `276`). |

`PROJECT.json` quotes both sides of the first; the hazards name the lines of the others. `ExecutionsSteer.cfg` (`JobsAnswer`, violated) and `ExecutionsDeep.cfg` (`SlotsAreReal`, passes) show what depth three changes and what it does not.

## 14 What is not modelled

- Content: transcripts, models, tools, formatting, parsing, authentication. An agent turn is
  a choice of outcomes.
- In admission: a write that fails other than by ending the process; a power loss
  that loses the last rows (accepted by a decision record).
- In the broker: questions of copied sessions, pruning, deletion of sessions, the settlement in
  a registry shutdown.
- In executions: views, paging, subscriptions, the checks of requests and settings; a reloaded root whose activation fails after it opened; a spawn that ends a row a cancel has
  ended already (listed as a hazard without a property).
- In the feed: frames other than state and text, failing encoders, the client's size limits and its
  bound on recoveries, several sessions on a connection, a change of branch (`reducer.ts:120`), what may fall into the await at `server.ts:467`. The gap between tightening the policy
  and recording the attachment is reached in the model but no property is kept for it.
- In the remote connector: redaction and content limits, run and metadata as two values (that one of them is lost and the other is not), tokens and pairing dialogues, the realtime socket, the limit over all
  sessions of the outbox, presence.
- In the lifecycle: start-up and its cleanup, the supervisor that replaces a host, more than one session, processes and providers beyond
  the step in which they settle.
- The components marked `not_modelled` in `PROJECT.json`, with the reason for each. Those with
  state machines of their own are in the plan; the rest is presentation, parsing and I/O.

## 15 Plan

What a next stage would take up, in this order:

1. `Ownership`: locks over a file system with rename, two processes that reclaim, a paused owner (`lock.ts`).
2. `Registry`: reservations, drafts and deletion of sessions; with `Processes`: seal, revoke, settle.
3. The client's reconnection with requests in flight, composed with `Admission`.
4. Lease and coordinator of memory, job store of background jobs, task graph as operators, MCP manager.
