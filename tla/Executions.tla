----------------------------- MODULE Executions -----------------------------
(***************************************************************************)
(* The executions of one session tree: RegistryExecutions (executions.ts)  *)
(* with what the registry (registry.ts) does to the sessions of the tree   *)
(* and the port through which a parent is told of a completion             *)
(* (execution-binding.ts).                                                 *)
(*                                                                         *)
(* An execution is a child session with a row in the control store.  It is *)
(* spawned, waits in the queue, runs as a job under the concurrency limit, *)
(* ends, is told to its parent, and may be continued with another turn.    *)
(* What runs between two awaits is one action; the microtask that starts   *)
(* queued rows is an action of its own.                                    *)
(***************************************************************************)
EXTENDS Integers, FiniteSets

CONSTANTS
  Execution,     \* executions that can be spawned: IDs of child sessions
  Root,          \* the session at the root of the tree
  Concurrency,   \* ExecutionSettings.concurrency
  MaxDepth,      \* ExecutionSettings.maxDepth
  Notify,        \* executions whose request has notifyOnCompletion
  Holds,         \* what the tree meets: a subset of HoldKinds
  CloseUntold,   \* a session is closed while its own completion awaits a retry
  Interrupts,    \* a spawn is interrupted between its session's start and its end
  Continued,     \* bound of the model: executions that are continued
  MaxTurns,      \* bound of the model: turns of one execution
  MaxTroubles    \* bound of the model: holds, closes, evictions, crashes,
                 \* drops, openings that fail

\* Lifecycle operations that make a tree refuse work for a while: a cancel, a
\* reload or a copy of the root, and a drain of the daemon.
HoldKinds == {"cancel", "reload", "copy", "drain"}

ASSUME ExecutionsAssumption ==
  /\ IsFiniteSet(Execution) /\ Root \notin Execution
  /\ Concurrency \in Nat \ {0} /\ MaxDepth \in Nat \ {0}
  /\ Notify \subseteq Execution /\ Continued \subseteq Execution
  /\ Holds \subseteq HoldKinds
  /\ CloseUntold \in BOOLEAN /\ Interrupts \in BOOLEAN
  /\ MaxTurns \in Nat \ {0} /\ MaxTroubles \in Nat

Session == Execution \cup {Root}
Turn    == 1 .. MaxTurns
Notice  == Execution \X Turn     \* deliveryId: one for every turn

VARIABLES
  row,       \* durable: ExecutionMetadata of each child session
  told,      \* durable: completions in the parent's transcript, by notice
  job,       \* RegistryExecutions.active: "none", "scheduled", "prompting", or
             \* "leaving": the end is told, the slot still taken
  aborted,   \* jobs whose controller is aborted
  scan,      \* RegistryExecutions.draining: a microtask will start queued rows
  missed,    \* history: the last scan met a copy, a drain or a root without a runtime,
             \* or a reload failed since
  unheard,   \* history: executions that were ended while a job of theirs was leaving
  control,   \* the spawn or the continuation that holds `control`
  retry,     \* executions `deliver` will be called for: RegistryExecutions.retries
             \* and the microtask of attachParent
  resident,  \* sessions with a runtime, hence with a parent port
  host,      \* where ExecutionHost.shutdown of each session is
  closing,   \* SessionRegistry.closing
  closed,    \* durable: sessions whose stored state is closed, not open
  held,      \* lifecycle operations in progress
  waiting,   \* notices pending in a parent port
  sent,      \* notices handed to the parent's session, not yet persisted
  silenced,  \* history: notices read or superseded before the session was given them
  troubles   \* number of disturbances, bounded by MaxTroubles

store == <<row, told>>
queue == <<job, aborted, scan, missed, unheard>>
tree  == <<resident, host, closing, closed, held>>
port  == <<waiting, sent, silenced>>
vars  == <<store, queue, control, retry, tree, port, troubles>>

Ends == {"none", "completed", "failed", "cancelled", "host_shutdown"}
NoRow == [state |-> "absent", parent |-> Root, end |-> "none", pending |-> FALSE, turn |-> 0]
Free  == [op |-> "none", child |-> Root, parent |-> Root, step |-> "idle"]

TypeOK ==
  /\ row \in [Execution -> [state : {"absent", "queued", "running", "done"},
                            parent : Session, end : Ends, pending : BOOLEAN,
                            turn : 0 .. MaxTurns]]
  /\ told \in [Notice -> Nat]
  /\ job \in [Execution -> {"none", "scheduled", "prompting", "leaving"}]
  /\ aborted \subseteq {e \in Execution : job[e] # "none"}
  /\ scan \in BOOLEAN /\ missed \in BOOLEAN /\ unheard \subseteq Execution
  /\ control \in {Free} \cup
       [op : {"spawn", "steer"}, child : Execution, parent : Session,
        step : {"opening", "activating", "failing"}]
  /\ retry \subseteq Execution
  /\ resident \subseteq Session
  /\ host \in [Session -> {"active", "shutting", "cancelling", "joining", "shut"}]
  /\ closing \subseteq Session /\ closed \subseteq Session
  /\ held \subseteq Holds
  /\ waiting \subseteq Notice /\ sent \subseteq Notice /\ silenced \subseteq Notice
  /\ troubles \in 0 .. MaxTroubles

Init ==
  /\ row = [e \in Execution |-> NoRow]
  /\ told = [n \in Notice |-> 0]
  /\ job = [e \in Execution |-> "none"]
  /\ aborted = {} /\ scan = FALSE /\ missed = FALSE /\ unheard = {}
  /\ control = Free /\ retry = {}
  /\ resident = {Root}
  /\ host = [s \in Session |-> "active"]
  /\ closing = {} /\ closed = {} /\ held = {}
  /\ waiting = {} /\ sent = {} /\ silenced = {}
  /\ troubles = 0

Trouble == troubles < MaxTroubles /\ troubles' = troubles + 1

\* A failure by chance counts, one that a close brings about does not.
Failure(chance) == IF chance THEN Trouble ELSE UNCHANGED troubles
-----------------------------------------------------------------------------
(* The tree and what may run in it.                                        *)

Known      == {e \in Execution : row[e].state # "absent"}
Unfinished == {e \in Execution : row[e].state \in {"queued", "running"}}
Queued     == {e \in Execution : row[e].state = "queued"}
Jobs       == {e \in Execution : job[e] # "none"}
ChildrenOf(s) == {e \in Known : row[e].parent = s}

\* descendants: the least set that has s and, with a session, its children.
Below(s) ==
  {d \in Session : \A S \in SUBSET Session :
     s \in S /\ (\A e \in Known : row[e].parent \in S => e \in S) => d \in S}

Depth(s) == Cardinality({a \in Session : s \in Below(a)}) - 1

\* assertDispatch: the session is neither closing nor being disposed, its root
\* is not closing, and no lifecycle operation has reserved it.  It asks for no
\* runtime; the root is the one session that may lack it while others work for it.
Dispatchable(s) ==
  /\ s \in resident \/ s \in {Root} \ closed
  /\ host[s] = "active"
  /\ {s, Root} \cap closing = {}
  /\ s = Root => held \subseteq {"drain"}

\* checkParent: the daemon does not drain either, and the hosts are not closed.
MayWork(s) ==
  /\ "drain" \notin held
  /\ Dispatchable(s) /\ host[Root] = "active"

\* hasPendingWork and hasActiveJobs: what keeps a session from being evicted.
Busy(s) ==
  \/ Below(s) \cap (Unfinished \cup Jobs) # {}
  \/ \E e \in ChildrenOf(s) : row[e].pending

\* drain(): a microtask is queued unless the root's host is closed.
Rescan == scan' = (scan \/ host[Root] = "active")
-----------------------------------------------------------------------------
(* The end of a turn, and telling the parent.                              *)

NoticeOf(r, e) == <<e, r[e].turn>>

\* finish: the rows of S end, and their notices are due.
Ended(r, S, end) ==
  [e \in Execution |->
     IF e \in S THEN [r[e] EXCEPT !.state = "done", !.end = end, !.pending = e \in Notify]
     ELSE r[e]]

\* The port knows what the parent's transcript holds.
Delivered_Unread(n) == FALSE
Delivered(n) == told[n] > 0

\* deliver, for the rows r and each execution of S: a notice the transcript
\* holds is settled, another is left with the port and offered again by a timer
\* until the transcript holds it.
Deliver(r, S) ==
  LET due  == IF host[Root] = "active"
              THEN {e \in S : r[e].pending /\ r[e].parent \in resident} ELSE {}
      open == {e \in due : Dispatchable(r[e].parent)}
      done == {e \in open : Delivered(NoticeOf(r, e))}
  IN /\ row' = [e \in Execution |-> IF e \in done THEN [r[e] EXCEPT !.pending = FALSE] ELSE r[e]]
     /\ waiting' = waiting \cup ({NoticeOf(r, e) : e \in open \ done} \ sent)
     /\ retry' = (retry \ S) \cup (due \ done)

\* attachParent, when s becomes resident: a microtask delivers what its children
\* have to tell.
Attached_Never(s) == {}
Attached(s) == IF s \in resident THEN {} ELSE {e \in ChildrenOf(s) : row[e].pending}

\* The retry timer of an execution, or the microtask after a port was attached.
RetryFires(e) ==
  /\ e \in retry
  /\ Deliver(row, {e})
  /\ UNCHANGED <<told, queue, control, tree, sent, silenced, troubles>>

\* flushPending: at the end of a turn of the parent or when it is idle.
Send(n) ==
  /\ n \in waiting
  /\ waiting' = waiting \ {n}
  /\ sent' = sent \cup {n}
  /\ UNCHANGED <<store, queue, control, retry, tree, silenced, troubles>>

\* The completion message is in the parent's transcript.
Persist(n) ==
  /\ n \in sent
  /\ told' = [told EXCEPT ![n] = @ + 1]
  /\ sent' = sent \ {n}
  /\ UNCHANGED <<row, queue, control, retry, tree, waiting, silenced, troubles>>

\* clearQueue of the parent's session: the message is gone, and the retry timer
\* offers its notice again.
DropSent(n) ==
  /\ n \in sent /\ Trouble
  /\ sent' = sent \ {n}
  /\ UNCHANGED <<store, queue, control, retry, tree, waiting, silenced>>

\* The send failed: the notice is pending again, whatever was read or continued
\* since it was sent.
SendFails(n) ==
  /\ n \in sent /\ Trouble
  /\ sent' = sent \ {n}
  /\ waiting' = waiting \cup {n}
  /\ UNCHANGED <<store, queue, control, retry, tree, silenced>>

\* result with `acknowledge`: the parent needs no notice of this end.
Suppressed_Keeps(e) == waiting
Suppressed(e) == waiting \ {NoticeOf(row, e)}

\* The session was not given the notice: nothing of it should come any more.
Silenced(e) == silenced \cup ({NoticeOf(row, e)} \ {n \in Notice : n \in sent \/ Delivered(n)})

Acknowledge(e) ==
  /\ row[e].pending /\ row[e].parent \in resident
  /\ waiting' = Suppressed(e)
  /\ silenced' = Silenced(e)
  /\ row' = [row EXCEPT ![e].pending = FALSE]
  /\ UNCHANGED <<told, queue, control, retry, tree, sent, troubles>>
-----------------------------------------------------------------------------
(* spawn and steer: one at a time, in the order of `control`.              *)

\* The end of a spawn or a continuation wakes the shutdowns that waited for it.
Woken_Never(h) == h
Woken(h) == [s \in Session |-> IF h[s] = "shutting" THEN "cancelling" ELSE h[s]]

Starting(e, step) == control.op = "spawn" /\ control.child = e /\ control.step = step
Continuing(e)     == control.op = "steer" /\ control.child = e

\* A session at or below s spawns: its run does not end before its tool returns.
\* Without Interrupts it is not cancelled meanwhile, nor closed once the child's
\* session is registered.
Calls(s) == control # Free /\ control.parent \in Below(s)
Spawning(s) == control.op = "spawn" /\ Calls(s)
Undisturbed(s) == Interrupts \/ ~Spawning(s)

SpawnBegins(p, e) ==
  /\ control = Free /\ row[e].state = "absent"
  /\ p \in resident /\ MayWork(p)
  /\ p = Root \/ p \in Unfinished
  /\ Depth(p) < MaxDepth
  /\ control' = [op |-> "spawn", child |-> e, parent |-> p, step |-> "opening"]
  /\ UNCHANGED <<store, queue, retry, tree, port, troubles>>

\* open: the session and its row exist and its host is active; its extensions
\* still have to be activated.
SessionStarts(e) ==
  /\ Starting(e, "opening") /\ {control.parent, Root} \cap closing = {}
  /\ row' = [row EXCEPT ![e] = [NoRow EXCEPT !.state = "queued", !.parent = control.parent, !.turn = 1]]
  /\ resident' = resident \cup {e}
  /\ host' = [host EXCEPT ![e] = "active"]
  /\ control' = [control EXCEPT !.step = "activating"]
  /\ UNCHANGED <<told, queue, retry, closing, closed, held, port, troubles>>

\* open throws.  Before the session is registered the spawn is over.  After it,
\* when the activation fails or something is being closed, the catch of open first
\* shuts the host of the new session down.
Cancelled(e) == {e, control.parent} \cap closing # {}

SpawnFails(e) ==
  LET unborn  == Starting(e, "opening")
      cleaned == unborn \/ (Starting(e, "failing") /\ host[e] = "shut")
      chance  == \/ unborn /\ {control.parent, Root} \cap closing = {}
                 \/ Starting(e, "activating") /\ ~Cancelled(e)
  IN /\ cleaned \/ (Starting(e, "activating") /\ Interrupts)
     /\ Failure(chance)
     /\ control' = IF cleaned THEN Free ELSE [control EXCEPT !.step = "failing"]
     /\ host' = IF cleaned THEN Woken(host) ELSE [host EXCEPT ![e] = "shutting"]
     /\ resident' = IF cleaned THEN resident \ {e} ELSE resident
     /\ closing' = IF cleaned THEN closing \ {e} ELSE closing \cup {e}
     /\ UNCHANGED <<store, queue, retry, closed, held, port>>

\* The child is scheduled, or its row ends when the spawn was given up, also one
\* that had an end: its notice is due again.
SpawnEnds(e) ==
  /\ Starting(e, "activating") /\ ~Cancelled(e)
  /\ \E aborts \in {FALSE, Interrupts} :
       LET p == control.parent
           given == aborts \/ {host[Root], host[p]} # {"active"} \/ (p # Root /\ p \notin Unfinished)
       IN IF given
          THEN /\ row' = Ended(row, {e}, "host_shutdown") /\ UNCHANGED scan
               /\ silenced' = silenced \ {NoticeOf(row, e)}
          ELSE Rescan /\ UNCHANGED <<row, silenced>>
  /\ control' = Free /\ host' = Woken(host)
  /\ UNCHANGED <<told, job, aborted, missed, unheard, retry, resident, closing, closed, held, waiting, sent, troubles>>

\* disposeEntry of a session nobody closes.
Evicting(s) == s \in resident /\ host[s] # "active" /\ s \notin closing

\* A continuation: "completed" stands for every end that may be continued and no
\* shutdown brought about, the turn limit and a failed model request included.
\* With its child closing it would fail at once.
Steerable(e) == row[e].state = "done" /\ row[e].end \in {"completed", "host_shutdown"}

SteerBegins(e) ==
  /\ control = Free /\ MayWork(row[e].parent) /\ row[e].parent \in resident
  /\ Steerable(e)
  /\ e \in Continued /\ row[e].turn < MaxTurns
  /\ e \notin closing
  /\ Interrupts \/ ~Evicting(e)
  /\ control' = [op |-> "steer", child |-> e, parent |-> row[e].parent, step |-> "opening"]
  /\ UNCHANGED <<store, queue, retry, tree, port, troubles>>

Continuable(e) ==
  /\ MayWork(control.parent) /\ e \notin closing
  /\ e \notin resident \/ host[e] = "active"

\* The session is resident again, and the row is checked and queued anew.
SteerEnds(e) ==
  /\ Continuing(e) /\ Continuable(e)
  /\ row' = [row EXCEPT ![e] = [row[e] EXCEPT !.state = "queued", !.end = "none",
                                              !.pending = FALSE, !.turn = @ + 1]]
  /\ waiting' = Suppressed(e)
  /\ silenced' = Silenced(e)
  /\ unheard' = unheard \ {e}
  /\ retry' = (retry \ {e}) \cup Attached(e)
  /\ resident' = resident \cup {e}
  /\ host' = [Woken(host) EXCEPT ![e] = "active"]
  /\ closed' = closed \ {e}
  /\ control' = Free
  /\ Rescan
  /\ UNCHANGED <<told, job, aborted, missed, closing, held, sent, troubles>>

\* The session cannot be restored, or a check after it fails; restore of a
\* session that is being evicted first waits for the end of that.
SteerFails(e) ==
  /\ Continuing(e) /\ ~Evicting(e)
  /\ Failure(Continuable(e))
  /\ control' = Free /\ host' = Woken(host)
  /\ UNCHANGED <<store, queue, retry, resident, closing, closed, held, port>>
-----------------------------------------------------------------------------
(* The queue and its jobs.                                                 *)

Room == Concurrency - Cardinality(Jobs)

Eligible ==
  {e \in Queued : /\ job[e] = "none" /\ MayWork(row[e].parent)
                  /\ Dispatchable(e)}

Starts(S) ==
  /\ S \subseteq Eligible /\ Cardinality(S) <= Room
  /\ Cardinality(S) = Room \/ S = Eligible

\* The microtask of drain: as many queued rows as there is room for.  With no
\* room it stops before it looks at any row.
Scan ==
  /\ scan
  /\ \E S \in SUBSET Eligible :
       /\ Starts(S)
       /\ row' = [e \in Execution |-> IF e \in S THEN [row[e] EXCEPT !.state = "running"] ELSE row[e]]
       /\ job' = [e \in Execution |-> IF e \in S THEN "scheduled" ELSE job[e]]
  /\ scan' = FALSE
  /\ missed' = (held \cap {"copy", "drain"} # {} \/ Root \notin resident)
  /\ UNCHANGED <<told, aborted, unheard, control, retry, tree, port, troubles>>

\* run: the prompt is given to the child unless its job was aborted.
RunStarts(e) ==
  /\ job[e] = "scheduled" /\ e \notin aborted /\ Dispatchable(e)
  /\ job' = [job EXCEPT ![e] = "prompting"]
  /\ UNCHANGED <<store, aborted, scan, missed, unheard, control, retry, tree, port, troubles>>

\* The end stored for a job whose row has none yet.
RunEnd(e, end) == IF e \in Unfinished THEN Ended(row, {e}, end) ELSE row

\* The prompt is over, or was never given: the row ends and the parent is told.
RunEnds(e, end) ==
  /\ job[e] = "prompting" \/ (job[e] = "scheduled" /\ (e \in aborted \/ ~Dispatchable(e)))
  /\ job[e] = "scheduled" => end = "failed"
  /\ Undisturbed(e)
  /\ Deliver(RunEnd(e, end), {e})
  /\ job' = [job EXCEPT ![e] = "leaving"]
  /\ UNCHANGED <<told, aborted, scan, missed, unheard, control, tree, sent, silenced, troubles>>

\* The delivery has been awaited: the job leaves its slot and the queue is looked
\* at again.
JobLeaves(e) ==
  /\ job[e] = "leaving"
  /\ job' = [job EXCEPT ![e] = "none"]
  /\ aborted' = aborted \ {e}
  /\ Rescan
  /\ UNCHANGED <<store, missed, unheard, control, retry, tree, port, troubles>>

\* cancelTree: every unfinished row below s ends at once, the jobs are aborted,
\* and the rows that had none are told of; the others are left to their jobs,
\* though one that is leaving tells nothing more.
Cancelling(s, end) ==
  LET S == Below(s) \cap Unfinished IN
  /\ Deliver(Ended(row, S, end), S \ Jobs)
  /\ aborted' = aborted \cup (S \cap Jobs)
  /\ unheard' = unheard \cup {e \in S : job[e] = "leaving"}
  /\ Rescan

\* The parent cancels an execution, or the timer of a job does.
Cancel(e) ==
  /\ e \in Unfinished /\ Undisturbed(e)
  /\ Cancelling(e, "cancelled")
  /\ UNCHANGED <<told, job, missed, control, tree, sent, silenced, troubles>>
-----------------------------------------------------------------------------
(* Sessions are closed, evicted and restored.                              *)

\* The hosts of S stop, and with them the timers that would tell a parent outside
\* S, which stays, of an end in S.
Strands(S) == \E e \in S \cap retry : row[e].parent \notin S \cup closing

\* Registry operations that performClose joins before it shuts the host down.
Opening == control.op = "spawn" \/ (control.op = "steer" /\ control.child \notin resident)

\* Bound of the model: a root is not closed while it reloads.
BeginClose(s) ==
  /\ s \in Known \cup {Root} /\ s \notin closing \cup closed
  /\ s \in resident => host[s] = "active"
  /\ "reload" \notin held
  /\ Undisturbed(s) \/ control.step = "opening"
  /\ Interrupts \/ ~Starting(s, "activating")
  /\ Trouble
  /\ closing' = closing \cup {s}
  /\ UNCHANGED <<store, queue, control, retry, resident, host, closed, held, port>>

\* shutdown of a host: its timers and those below it are cleared, and it waits
\* for the spawn or the continuation in progress.
ShutsDown(s) ==
  /\ host' = [host EXCEPT ![s] = IF control = Free THEN "cancelling" ELSE "shutting"]
  /\ retry' = retry \ Below(s)

Shutdown(s) ==
  /\ s \in closing \cap resident /\ host[s] = "active" /\ ~Opening
  /\ CloseUntold \/ ~Strands({s})
  /\ ShutsDown(s)
  /\ UNCHANGED <<store, queue, control, resident, closing, closed, held, port, troubles>>

\* Idle eviction shuts down the host of a session with nothing to do.
Evict(s) ==
  /\ s \in resident /\ Dispatchable(s) /\ held = {} /\ ~Busy(s)
  /\ s = Root => resident = {Root}
  /\ ~Calls(s) /\ ~Continuing(s)
  /\ CloseUntold \/ ~Strands({s})
  /\ Trouble
  /\ ShutsDown(s)
  /\ UNCHANGED <<store, queue, control, resident, closing, closed, held, port>>

\* What was queued behind `control` when the shutdown began went before it, what
\* was queued since comes after it.
CancelAll(s) ==
  /\ host[s] = "cancelling" /\ control = Free
  /\ host' = [host EXCEPT ![s] = "joining"]
  /\ Cancelling(s, "host_shutdown")
  /\ UNCHANGED <<told, job, missed, control, resident, closing, closed, held, sent, silenced, troubles>>

Joined_NoWait(s) == TRUE
Joined(s) == Below(s) \cap Jobs = {} /\ control = Free

\* settle: nothing below s runs any more and nothing is being spawned.
HostShut(s) ==
  /\ host[s] = "joining" /\ Joined(s)
  /\ host' = [host EXCEPT ![s] = "shut"]
  /\ UNCHANGED <<store, queue, control, retry, resident, closing, closed, held, port, troubles>>

\* The host of a session that is closed is shut; one without a runtime has none.
Stopped(s) == IF s \in resident THEN host[s] = "shut" ELSE ~Opening

\* Close goes on with the children, those without a runtime included: what was
\* opened below them has to be closed too.
OpenChildren(s) == ChildrenOf(s) \ closed

CloseChildren(s) ==
  /\ s \in closing \ closed /\ Stopped(s)
  /\ OpenChildren(s) \ closing # {}
  /\ closing' = closing \cup OpenChildren(s)
  /\ UNCHANGED <<store, queue, control, retry, resident, host, closed, held, port, troubles>>

NoticesTo(s) == {n \in Notice : row[n[1]].parent = s}

\* The runtime is disposed, and its parent port with it; after a close the
\* session is stored as closed.  A close that finds it stored so is over.
Dispose(s) ==
  /\ s \in resident \cup closing /\ Stopped(s)
  /\ s \in closing \ closed => OpenChildren(s) = {}
  /\ ~Starting(s, "failing")
  /\ resident' = resident \ {s}
  /\ closing' = closing \ {s}
  /\ closed' = closed \cup ({s} \cap closing)
  /\ waiting' = waiting \ NoticesTo(s)
  /\ sent' = sent \ NoticesTo(s)
  /\ UNCHANGED <<store, queue, control, retry, host, held, silenced, troubles>>

\* A client opens the session again: its host is active and what its children
\* have to tell is delivered.  A child is opened under its open root; with its
\* parent closing, open fails.
Restore(s) ==
  /\ s \notin resident \cup closing /\ s \in Known \cup {Root} /\ "reload" \notin held
  /\ s # Root => /\ Root \in resident /\ host[Root] = "active"
                 /\ row[s].parent \notin closing
  /\ resident' = resident \cup {s}
  /\ host' = [host EXCEPT ![s] = "active"]
  /\ closed' = closed \ {s}
  /\ retry' = retry \cup Attached(s)
  /\ UNCHANGED <<store, queue, control, closing, held, port, troubles>>
-----------------------------------------------------------------------------
(* Lifecycle operations of the root and of the daemon.                     *)

MayHold(k) ==
  \/ k = "drain"
  \/ /\ Root \in resident /\ host[Root] = "active"
     /\ k # "cancel" => Dispatchable(Root)
     /\ k = "reload" => control = Free \/ control.parent # Root

\* A reload disposes the root's runtime and those of the idle children; a child
\* that waits to be closed is stored as closed by that.
HoldBegins(k) ==
  LET idle == {e \in Execution \cap resident : ~Busy(e) /\ host[e] = "active" /\ ~Continuing(e)}
      gone == IF k = "reload" THEN idle \cup {Root} ELSE {}
      lost == {n \in Notice : row[n[1]].parent \in gone}
  IN /\ k \in Holds \ held /\ MayHold(k)
     /\ CloseUntold \/ ~Strands(gone)
     /\ Trouble
     /\ held' = held \cup {k}
     /\ resident' = resident \ gone
     /\ host' = [s \in Session |-> IF s \in gone \ {Root} THEN "shut" ELSE host[s]]
     /\ retry' = retry \ (gone \ {Root})
     /\ waiting' = waiting \ lost
     /\ sent' = sent \ lost
     /\ closed' = closed \cup (gone \cap closing)
     /\ UNCHANGED <<store, queue, control, closing, silenced>>

\* resumeQueued: the queue is looked at again after a reload and a cancel.
Resumes_ReloadOnly(k) == k = "reload"
Resumes(k) == k = "reload" \/ (k = "cancel" /\ Root \notin closing)

HoldEnds(k) ==
  /\ k \in held
  /\ held' = held \ {k}
  /\ IF k = "reload"
     THEN resident' = resident \cup {Root} /\ retry' = retry \cup Attached(Root)
     ELSE UNCHANGED <<resident, retry>>
  /\ IF Resumes(k) THEN Rescan ELSE UNCHANGED scan
  /\ UNCHANGED <<store, job, aborted, missed, unheard, control, host, closing, closed, port, troubles>>

\* The new runtime of the root cannot be opened: the root is stored as evicted, and
\* nobody looks at the queue.  A client may open it again.
ReloadFails ==
  /\ "reload" \in held
  /\ held' = held \ {"reload"}
  /\ missed' = TRUE
  /\ UNCHANGED <<store, job, aborted, scan, unheard, control, retry, resident, host, closing, closed, port, troubles>>

\* The process dies and is started again: recoverControlState ends what was
\* unfinished; no session is resident.
RecoveredEnd_Unfinished == row
RecoveredEnd == Ended(row, Unfinished, "host_shutdown")

Crash ==
  /\ Trouble
  /\ row' = RecoveredEnd
  /\ job' = [e \in Execution |-> "none"]
  /\ aborted' = {} /\ scan' = FALSE /\ missed' = FALSE /\ unheard' = {}
  /\ control' = Free /\ retry' = {}
  /\ resident' = {}
  /\ host' = [s \in Session |-> "active"]
  /\ closing' = {} /\ held' = {}
  /\ waiting' = {} /\ sent' = {}
  /\ UNCHANGED <<told, closed, silenced>>
-----------------------------------------------------------------------------
Spawn(e) == SessionStarts(e) \/ SpawnFails(e) \/ SpawnEnds(e)
Steer(e) == SteerEnds(e) \/ SteerFails(e)
Run(e)   == RunStarts(e) \/ (\E end \in {"completed", "failed"} : RunEnds(e, end)) \/ JobLeaves(e)
Tell(n)  == Send(n) \/ Persist(n)
Closes(s) == Shutdown(s) \/ CancelAll(s) \/ HostShut(s) \/ CloseChildren(s) \/ Dispose(s)

Next ==
  \/ \E e \in Execution :
       \/ \E p \in Session : SpawnBegins(p, e)
       \/ Spawn(e) \/ SteerBegins(e) \/ Steer(e) \/ Cancel(e)
       \/ Run(e) \/ RetryFires(e) \/ Acknowledge(e)
  \/ \E n \in Notice : Tell(n) \/ DropSent(n) \/ SendFails(n)
  \/ Scan
  \/ \E s \in Session : BeginClose(s) \/ Evict(s) \/ Restore(s) \/ Closes(s)
  \/ \E k \in Holds : HoldBegins(k) \/ HoldEnds(k)
  \/ ReloadFails
  \/ Crash

Spec == Init /\ [][Next]_vars

\* Openings settle, prompts end, microtasks and timers run, parents take what
\* their ports send, a cancel, a reload and a copy end.  Weak fairness is enough:
\* MaxTroubles keeps a tree from spawning and steering so densely that settle
\* never finds it at rest.  Nothing says that a drain ends, that a client opens
\* a session or that a parent acknowledges.
Fairness ==
  /\ WF_vars(Scan)
  /\ WF_vars(\E e \in Execution : Spawn(e) \/ Steer(e))
  /\ \A e \in Execution : WF_vars(Run(e)) /\ WF_vars(RetryFires(e))
  /\ \A n \in Notify \X Turn : WF_vars(Tell(n))
  /\ \A s \in Session : WF_vars(Closes(s))
  /\ WF_vars(\E k \in Holds \ {"drain"} : HoldEnds(k))

FairSpec == Spec /\ Fairness
-----------------------------------------------------------------------------
(* What the parent and its clients may rely on.                            *)

\* A job at work whose controller nobody has aborted.
Live(e) == job[e] \in {"scheduled", "prompting"} /\ e \notin aborted

\* The jobs fit the limit, and a row that says running has a live job.
SlotsFit ==
  /\ Cardinality(Jobs) <= Concurrency
  /\ \A e \in Execution : row[e].state = "running" => Live(e)

\* A live job works for a row that says running.  Only a spawn that is interrupted
\* after a scan has started its row ends that row and leaves its job alone.
LiveJobsRun ==
  Interrupts \/ \A e \in Execution : Live(e) => row[e].state = "running"

\* Rows and jobs agree, whatever cancels, closes and restarts did in between: no slot
\* is lost to a row that ended, no row waits for a job that is gone, and the limit holds.
SlotsAreReal == TypeOK /\ SlotsFit /\ LiveJobsRun

\* A job that is not leaving works for the turn that started it: it has not outlived
\* its row into another turn.  The code does not promise it of aborted jobs.
JobsAnswer ==
  \A e \in Execution :
    job[e] \in {"scheduled", "prompting"} =>
      row[e].state = "running" \/ (row[e].state = "done" /\ e \in aborted)

\* A notice that was read, or whose child was continued, before it was given to the
\* parent's session never reaches it, whatever timers, restores, lost messages and
\* deaths come after.
SilencedStaysUntold ==
  \A n \in silenced : n \notin waiting \cup sent /\ told[n] = 0

\* Of those that the session was given as well: a port holds only the completion its
\* child last had, neither read nor continued.  The code puts back what failed to be sent.
NothingStaleWaits ==
  \A n \in waiting : row[n[1]].state = "done" /\ row[n[1]].pending /\ n = NoticeOf(row, n[1])

\* When a close is over nothing below the session is left to run.
ClosedIsQuiet ==
  [][\A s \in Session :
       s \in closing \ closing' /\ s \in resident \ resident' =>
         Below(s) \cap (Unfinished' \cup Jobs') = {}
    ]_vars

\* No execution stays queued for ever: it starts or ends.  The exceptions are those the
\* code leaves: nothing looks at the queue again when a copy or a drain that a scan met
\* ends, or a reload fails.
QueuedStarts ==
  \A e \in Execution : []<>(row[e].state = "queued" => missed)

\* No completion stays untold for ever while its parent is there, unless the row
\* was ended while a job of an earlier turn was leaving: then nobody tells of it.
Reachable(e) == row[e].parent \in resident /\ host[Root] = "active"
NoticeArrives ==
  \A e \in Notify :
    []<>(row[e].pending /\ Reachable(e) => e \in unheard)

\* Every close comes to its end, those of the children it goes on with included
\* (MaxTroubles bounds how many are asked for).
CloseSettles == []<>(closing = {})

\* Executions implement the abstract Tasks.
Promise == INSTANCE Tasks WITH
  Task <- Execution, Limit <- Concurrency,
  phase <- [e \in Execution |-> row[e].state],
  turn <- [e \in Execution |-> row[e].turn]

\* Whatever happens to the tree, a turn is queued, started and ended once, is
\* continued only after its end, and its end is told at most once.
ImplementsTasks == Promise!Spec
=============================================================================
