------------------------------- MODULE Fanout -------------------------------
(***************************************************************************)
(* The live feed of one session.  The projection publishes revisioned      *)
(* changes and unrevisioned text deltas (projection.ts); the registry      *)
(* calls every listener in turn (registry.ts); the fan-out of a connection *)
(* cuts over from a snapshot to the feed, merges deltas, bounds what is    *)
(* unsent and closes a connection that cannot keep up (fanout.ts,          *)
(* server.ts); the client folds what it receives into its view             *)
(* (reducer.ts).                                                           *)
(*                                                                         *)
(* JavaScript runs a publication to its end before anything else, but a    *)
(* listener may publish again from inside it: a connection that closes may *)
(* be the last ACP attachment, and relaxing the policy is an event of its  *)
(* own.  "stack" holds the publications in progress, the innermost first.  *)
(***************************************************************************)
EXTENDS Integers, FiniteSets, Sequences, SequencesExt

CONSTANTS
  Client,       \* connections, one attachment each
  Acp,          \* those of kind acp; they attach with requirePolicy acp-strict
  NoClient,
  FrameLimit,   \* limits.frames
  ByteLimit,    \* limits.bytes: 1 for a frame, 1 for a code point of text
  Kinds,        \* bound of the model: the changes the session publishes
  MaxEvents,    \* bound of the model: how much it publishes
  MaxText,      \* bound of the model: code points of a delta
  MaxAttach     \* bound of the model: attach requests of a client

ASSUME FanoutAssumption ==
  /\ Acp \subseteq Client /\ NoClient \notin Client
  /\ FrameLimit \in Nat \ {0} /\ ByteLimit \in Nat \ {0}
  /\ Kinds \subseteq {"plain", "completed", "lost", "silent"}
  /\ MaxEvents \in Nat /\ MaxText \in Nat /\ MaxAttach \in Nat

VARIABLES
  log,        \* the states of the projection, the last one current
  strict,     \* the effective policy is acp-strict
  stack,      \* publications in progress: [event, seen]
  order,      \* the listeners of the session, in the order of a Set
  attaching,  \* the connection inside attach(), or NoClient
  cut,        \* the snapshot it captured
  mode,       \* where each connection is
  at,         \* "revision" of its subscription
  out,        \* its outbox
  cause,      \* why it was last closed
  wire,       \* frames written and not yet read by the client
  client,     \* the client: view, status, buffered updates
  tries       \* attach requests it made

vars == <<log, strict, stack, order, attaching, cut, mode, at, out, cause, wire, client, tries>>

(***************************************************************************)
(* States and events.  A state is its revision, how many messages are      *)
(* complete, and the stream of the next one: its length, or that it is     *)
(* completion-only.                                                        *)
(***************************************************************************)
NoView == [rev |-> -1, done |-> 0, off |-> 0, lost |-> FALSE]
Source == Last(log)

Rev(s, change) == [kind |-> "rev", rev |-> s.rev, change |-> change]
Text(s, n) == [kind |-> "text", msg |-> s.done + 1, from |-> s.off, len |-> n]
Snapshot(s) == [kind |-> "snap", state |-> s]

Changed(s, change) ==
  [rev  |-> s.rev + 1,
   done |-> IF change = "completed" THEN s.done + 1 ELSE s.done,
   off  |-> IF change \in {"completed", "lost"} THEN 0 ELSE s.off,
   lost |-> IF change = "completed" THEN FALSE ELSE s.lost \/ change = "lost"]

\* classifyTextDelta, for a delta against the stream a state has.
Classify(s, e) ==
  IF e.msg <= s.done \/ (e.msg = s.done + 1 /\ s.lost) THEN "ignore"
  ELSE IF e.msg > s.done + 1 THEN IF e.from = 0 THEN "start" ELSE "gap"
  ELSE IF e.from = s.off THEN "append"
  ELSE IF e.from + e.len <= s.off THEN "duplicate"
  ELSE "gap"
-----------------------------------------------------------------------------
(***************************************************************************)
(* An outbox.  Every operation returns the outbox it leaves; one that      *)
(* passes a limit leaves Overflowed, and its connection must close.        *)
(***************************************************************************)
Empty == [held |-> <<>>, queue |-> <<>>, sending |-> <<>>, bytes |-> 0, blocked |-> FALSE, scheduled |-> FALSE]
Overflowed == [Empty EXCEPT !.bytes = -1]

Bytes(e) == IF e.kind = "text" THEN 1 + e.len ELSE 1
Total(frames) == FoldLeft(LAMBDA sum, e : sum + Bytes(e), 0, frames)
Unwritten(o) == FlattenSeq(o.sending)
Frames(o) == Len(o.held) + Len(o.queue) + Len(Unwritten(o))

Fits(o, e) == Frames(o) < FrameLimit /\ o.bytes + Bytes(e) <= ByteLimit
Schedule(o) == [o EXCEPT !.scheduled = @ \/ (~o.blocked /\ o.queue # <<>>)]

Mergeable(o, e) ==
  /\ o.queue # <<>> /\ e.kind = "text" /\ Last(o.queue).kind = "text"
  /\ Last(o.queue).msg = e.msg
  /\ e.from = Last(o.queue).from + Last(o.queue).len

Extended(o, e) == [o EXCEPT !.queue[Len(o.queue)].len = @ + e.len]

\* send(): merge into the last queued frame, or queue a frame of its own.
Send(o, e) ==
  IF Mergeable(o, e)
  THEN IF o.bytes + e.len > ByteLimit THEN Overflowed
       ELSE [Extended(o, e) EXCEPT !.bytes = @ + e.len]
  ELSE IF ~Fits(o, e) THEN Overflowed
       ELSE Schedule([o EXCEPT !.queue = Append(@, e), !.bytes = @ + Bytes(e)])

\* reserve() of an event that arrives before the cutover.
Hold(o, e) ==
  IF Fits(o, e) THEN [o EXCEPT !.held = Append(@, e), !.bytes = @ + Bytes(e)] ELSE Overflowed

\* The oldest held event is released, or published behind the snapshot.
Release(o) == [o EXCEPT !.held = Tail(@), !.bytes = @ - Bytes(Head(o.held))]
PublishHeld(o) ==
  LET e == Head(o.held) IN
  IF ~Mergeable(o, e) THEN Schedule([o EXCEPT !.held = Tail(@), !.queue = Append(@, e)])
  ELSE IF o.bytes - Bytes(e) + e.len > ByteLimit THEN Overflowed
  ELSE [Extended(Release(o), e) EXCEPT !.bytes = @ + e.len]

\* One event of the cutover; d is [out, rev, started, gap].
Verdict_AnyRevision(d, e) ==
  IF e.kind = "text" THEN IF e.msg \in d.started THEN "append" ELSE Classify(cut, e)
  ELSE IF e.rev <= d.rev THEN "duplicate" ELSE "append"
Verdict_TextCovered(d, e) == IF e.kind = "text" \/ e.rev <= d.rev THEN "duplicate" ELSE "append"
Verdict(d, e) ==
  CASE e.kind = "rev" /\ e.rev <= d.rev -> "duplicate"
    [] e.kind = "rev" /\ e.rev > d.rev -> IF e.rev = d.rev + 1 THEN "append" ELSE "gap"
    [] e.kind = "text" -> IF e.msg \in d.started THEN "append" ELSE Classify(cut, e)

CutOver(d, e) ==
  IF d.gap \/ d.out = Overflowed THEN d
  ELSE CASE Verdict(d, e) = "gap" -> [d EXCEPT !.gap = TRUE]
         [] Verdict(d, e) \in {"duplicate", "ignore"} -> [d EXCEPT !.out = Release(@)]
         [] OTHER -> [d EXCEPT !.out = PublishHeld(@),
                               !.rev = IF e.kind = "rev" THEN e.rev ELSE @,
                               !.started = IF e.kind = "text" THEN @ \cup {e.msg} ELSE @]
-----------------------------------------------------------------------------
(***************************************************************************)
(* The client.  One that is awaiting a snapshot keeps the updates it is    *)
(* sent; an update it cannot place makes it ask for a new one.             *)
(***************************************************************************)
Idle == [view |-> NoView, status |-> "none", kept |-> <<>>]

Placed_Twice(v, e) ==
  IF e.kind = "rev" THEN Changed(v, e.change)
  ELSE IF Classify(v, e) = "append" THEN [v EXCEPT !.off = @ + e.len] ELSE v
Placed(v, e) ==
  IF e.kind = "rev" THEN CASE e.rev <= v.rev -> v
                           [] e.rev = v.rev + 1 -> Changed(v, e.change)
                           [] OTHER -> NoView
  ELSE LET verdict == Classify(v, e) IN
       CASE verdict \in {"ignore", "duplicate"} -> v
         [] verdict = "append" -> [v EXCEPT !.off = @ + e.len]
         [] OTHER -> NoView

Update(k, e) ==
  CASE k.status = "none" -> k
    [] k.status = "awaiting" -> [k EXCEPT !.kept = Append(@, e)]
    [] OTHER -> IF Placed(k.view, e) # NoView THEN [k EXCEPT !.view = Placed(k.view, e)]
                ELSE [k EXCEPT !.status = "awaiting", !.kept = <<e>>]

Adopt(k, s) ==
  IF k.status = "none" THEN k
  ELSE IF s.rev < k.view.rev THEN [k EXCEPT !.status = "awaiting"]
  ELSE FoldLeft(Update, [view |-> s, status |-> "live", kept |-> <<>>], k.kept)

Digest(k, e) == IF e.kind = "snap" THEN Adopt(k, e.state) ELSE Update(k, e)
-----------------------------------------------------------------------------
(***************************************************************************)
(* Publishing and closing.                                                 *)
(***************************************************************************)
Unsubscribed(c) == RemoveFirst(order, c)
Bound == {c \in Client : mode[c] \in {"held", "captured", "live"}}
Quiet == stack = <<>> /\ attaching = NoClient

\* A publication starts inside those of st; its state is committed first.
Publish(e, s, st) == log' = Append(log, s) /\ stack' = <<[event |-> e, seen |-> {}]>> \o st
PublishChange(change, st) == LET s == Changed(Source, change) IN Publish(Rev(s, change), s, st)

\* relaxPolicy, once the attachment of c is gone.
Relax(c, st) ==
  IF c \in Acp /\ strict /\ (Bound \cap Acp) \subseteq {c}
  THEN strict' = FALSE /\ PublishChange("policy", st)
  ELSE stack' = st /\ UNCHANGED <<log, strict>>

\* SessionFanout.close: the subscription and the unsent frames are dropped,
\* then the server detaches the session.
Close(c, why, st) ==
  /\ mode' = [mode EXCEPT ![c] = "closed"]
  /\ order' = Unsubscribed(c)
  /\ out' = [out EXCEPT ![c] = Empty]
  /\ cause' = [cause EXCEPT ![c] = why]
  /\ at' = [at EXCEPT ![c] = 0]
  /\ IF c \in Bound THEN Relax(c, st) ELSE stack' = st /\ UNCHANGED <<log, strict>>

\* The outbox of c becomes o, its subscription is at revision r.
Store_NoRevision(c, o, r, st) ==
  IF o = Overflowed THEN Close(c, "overflow", st)
  ELSE /\ out' = [out EXCEPT ![c] = o] /\ stack' = st
       /\ UNCHANGED <<log, strict, order, mode, cause, at>>
Store(c, o, r, st) ==
  IF o = Overflowed THEN Close(c, "overflow", st)
  ELSE /\ out' = [out EXCEPT ![c] = o] /\ at' = [at EXCEPT ![c] = r] /\ stack' = st
       /\ UNCHANGED <<log, strict, order, mode, cause>>
-----------------------------------------------------------------------------
Init ==
  /\ log = <<[rev |-> 0, done |-> 0, off |-> 0, lost |-> FALSE]>>
  /\ strict = FALSE /\ stack = <<>> /\ order = <<>>
  /\ attaching = NoClient /\ cut = NoView
  /\ mode = [c \in Client |-> "closed"] /\ at = [c \in Client |-> 0]
  /\ out = [c \in Client |-> Empty] /\ cause = [c \in Client |-> "none"]
  /\ wire = [c \in Client |-> <<>>] /\ client = [c \in Client |-> Idle]
  /\ tries = [c \in Client |-> 0]

(***************************************************************************)
(* The session.  It publishes between the steps of an attach too: the      *)
(* refresh of a snapshot publishes what is pending, and encoding may       *)
(* re-enter the projection.                                                *)
(***************************************************************************)
Delta == \E n \in 1..MaxText :
  /\ stack = <<>> /\ ~Source.lost
  /\ Publish(Text(Source, n), [Source EXCEPT !.off = @ + n], stack)

Change == \E change \in Kinds \ {"silent"} :
  /\ stack = <<>>
  /\ change = "lost" => ~Source.lost
  /\ PublishChange(change, stack)

\* A revision is committed without an event; attached connections must go.
Invalidate ==
  /\ "silent" \in Kinds /\ Quiet
  /\ Publish([kind |-> "invalidate"], Changed(Source, "plain"), stack)

Produce == /\ Len(log) <= MaxEvents
           /\ Delta \/ Change \/ Invalidate
           /\ UNCHANGED <<strict, order, attaching, cut, mode, at, out, cause, wire, client, tries>>

\* The innermost publication reaches the first listener it has not called.
Uncalled == {i \in DOMAIN order : order[i] \notin stack[1].seen}
Listener == order[Min(Uncalled)]

\* A live subscription takes text and the next revision only.
Covered(c, e) == e.kind = "rev" /\ e.rev <= at[c]
Expected(c, e) == e.kind = "text" \/ e.rev = at[c] + 1

Receives(c, e, st) ==
  CASE e.kind = "invalidate" -> Close(c, "invalidated", st)
    [] e.kind # "invalidate" /\ mode[c] # "live" -> Store(c, Hold(out[c], e), at[c], st)
    [] e.kind # "invalidate" /\ mode[c] = "live" ->
         CASE Covered(c, e) -> stack' = st /\ UNCHANGED <<log, strict, order, mode, at, out, cause>>
           [] ~Covered(c, e) /\ Expected(c, e) ->
                Store(c, Send(out[c], e), IF e.kind = "rev" THEN e.rev ELSE at[c], st)
           [] OTHER -> Close(c, "gap", st)

Deliver ==
  /\ stack # <<>> /\ Uncalled # {}
  /\ Receives(Listener, stack[1].event, [stack EXCEPT ![1].seen = @ \cup {Listener}])
  /\ UNCHANGED <<attaching, cut, wire, client, tries>>

Delivered ==
  /\ stack # <<>> /\ Uncalled = {}
  /\ stack' = Tail(stack)
  /\ UNCHANGED <<log, strict, order, attaching, cut, mode, at, out, cause, wire, client, tries>>

(***************************************************************************)
(* attach(): the policy is tightened; the attachment is registered, which  *)
(* refreshes the projection first, and an earlier one of the connection    *)
(* goes; the listener is installed; the snapshot is captured and sent; and *)
(* what was held meanwhile is cut over.                                    *)
(***************************************************************************)
Ask(c) ==
  /\ Quiet /\ tries[c] < MaxAttach
  /\ mode[c] = "closed" => wire[c] = <<>>
  /\ tries' = [tries EXCEPT ![c] = @ + 1]
  /\ attaching' = c
  /\ mode' = [mode EXCEPT ![c] = IF @ = "closed" THEN "open" ELSE @]
  /\ client' = [client EXCEPT ![c].status = "awaiting",
                              ![c].kept = IF mode[c] = "closed" THEN <<>> ELSE @]
  /\ IF c \in Acp /\ ~strict THEN strict' = TRUE /\ PublishChange("policy", stack)
     ELSE UNCHANGED <<log, strict, stack>>
  /\ cause' = [cause EXCEPT ![c] = "none"]
  /\ UNCHANGED <<order, cut, at, out, wire>>

Subscribe(c) ==
  /\ attaching = c /\ stack = <<>> /\ mode[c] \in {"open", "live"}
  /\ mode' = [mode EXCEPT ![c] = "held"]
  /\ order' = Append(Unsubscribed(c), c)
  /\ UNCHANGED <<log, strict, stack, attaching, cut, at, out, cause, wire, client, tries>>

Capture(c) ==
  /\ attaching = c /\ stack = <<>> /\ mode[c] = "held"
  /\ LET o == Send(out[c], Snapshot(Source)) IN
     IF o = Overflowed THEN Close(c, "overflow", stack) /\ cut' = cut
     ELSE /\ out' = [out EXCEPT ![c] = o]
          /\ at' = [at EXCEPT ![c] = Source.rev] /\ cut' = Source
          /\ mode' = [mode EXCEPT ![c] = "captured"]
          /\ UNCHANGED <<log, strict, stack, order, cause>>
  /\ UNCHANGED <<attaching, wire, client, tries>>

Settle(c) ==
  /\ attaching = c /\ stack = <<>> /\ mode[c] = "captured"
  /\ LET d == FoldLeft(CutOver, [out |-> out[c], rev |-> at[c], started |-> {}, gap |-> FALSE], out[c].held)
     IN IF d.gap \/ d.out = Overflowed
        THEN Close(c, IF d.gap THEN "gap" ELSE "overflow", stack)
        ELSE /\ out' = [out EXCEPT ![c] = d.out]
             /\ at' = [at EXCEPT ![c] = d.rev]
             /\ mode' = [mode EXCEPT ![c] = "live"]
             /\ UNCHANGED <<log, strict, stack, order, cause>>
  /\ attaching' = NoClient /\ cut' = NoView
  /\ UNCHANGED <<wire, client, tries>>

\* The connection closed meanwhile; an attachment that came too late goes.
Abandon(c) ==
  /\ attaching = c /\ stack = <<>> /\ mode[c] = "closed"
  /\ attaching' = NoClient /\ cut' = NoView
  /\ Relax(c, stack)
  /\ UNCHANGED <<order, mode, at, out, cause, wire, client, tries>>

Detach(c) ==
  /\ Quiet /\ mode[c] = "live"
  /\ mode' = [mode EXCEPT ![c] = "open"]
  /\ order' = Unsubscribed(c)
  /\ at' = [at EXCEPT ![c] = 0]
  /\ client' = [client EXCEPT ![c] = Idle]
  /\ Relax(c, stack)
  /\ UNCHANGED <<attaching, cut, out, cause, wire, tries>>

(***************************************************************************)
(* The transport.                                                          *)
(***************************************************************************)
Flush(c) ==
  /\ Quiet /\ out[c].scheduled
  /\ \E accepted \in BOOLEAN :
       out' = [out EXCEPT ![c].scheduled = FALSE, ![c].queue = <<>>,
                          ![c].sending = Append(@, out[c].queue), ![c].blocked = ~accepted]
  /\ wire' = [wire EXCEPT ![c] = @ \o out[c].queue]
  /\ UNCHANGED <<log, strict, stack, order, attaching, cut, mode, at, cause, client, tries>>

\* The callback of the oldest write.
Written(c) ==
  /\ Quiet /\ out[c].sending # <<>>
  /\ out' = [out EXCEPT ![c].sending = Tail(@), ![c].bytes = @ - Total(Head(out[c].sending))]
  /\ UNCHANGED <<log, strict, stack, order, attaching, cut, mode, at, cause, wire, client, tries>>

Drained_NoFlush(o) == [o EXCEPT !.blocked = FALSE]
Drained(o) == Schedule([o EXCEPT !.blocked = FALSE])
Drain(c) ==
  /\ Quiet /\ out[c].blocked
  /\ out' = [out EXCEPT ![c] = Drained(@)]
  /\ UNCHANGED <<log, strict, stack, order, attaching, cut, mode, at, cause, wire, client, tries>>

\* The socket fails or its client goes away.
Hang(c) ==
  /\ Quiet /\ mode[c] # "closed"
  /\ Close(c, "closed", stack)
  /\ wire' = [wire EXCEPT ![c] = <<>>]
  /\ UNCHANGED <<attaching, cut, client, tries>>

\* A client step commutes with what the daemon does in one turn.
Read(c) ==
  /\ Quiet /\ wire[c] # <<>>
  /\ client' = [client EXCEPT ![c] = Digest(@, Head(wire[c]))]
  /\ wire' = [wire EXCEPT ![c] = Tail(@)]
  /\ UNCHANGED <<log, strict, stack, order, attaching, cut, mode, at, out, cause, tries>>

Attach(c) == Ask(c) \/ Subscribe(c) \/ Capture(c) \/ Settle(c) \/ Abandon(c)
Transport(c) == Flush(c) \/ Written(c) \/ Drain(c) \/ Hang(c) \/ Read(c)

Next == \/ Produce \/ Deliver \/ Delivered
        \/ \E c \in Client : Attach(c) \/ Detach(c) \/ Transport(c)

Spec == Init /\ [][Next]_vars

\* A turn runs to its end.  setImmediate fires, a socket that is not hung
\* reports its writes and drains, and a client reads what it is sent.
FairSpec == Spec /\ WF_vars(Deliver) /\ WF_vars(Delivered)
                 /\ \A c \in Client : /\ WF_vars(Subscribe(c) \/ Capture(c) \/ Settle(c) \/ Abandon(c))
                                      /\ WF_vars(Flush(c)) /\ WF_vars(Written(c))
                                      /\ WF_vars(Drain(c)) /\ WF_vars(Read(c))
-----------------------------------------------------------------------------
\* Connections, outboxes and clients have their types; an outbox is never
\* one that overflowed, and only listeners that are installed are called.
TypeOK ==
  /\ mode \in [Client -> {"closed", "open", "held", "captured", "live"}]
  /\ at \in [Client -> 0..Source.rev] /\ strict \in BOOLEAN
  /\ attaching \in Client \cup {NoClient}
  /\ ToSet(order) = Bound /\ IsInjective(order)
  /\ \A c \in Client :
       /\ out[c].bytes \in 0..ByteLimit /\ out[c].blocked \in BOOLEAN /\ out[c].scheduled \in BOOLEAN
       /\ client[c].status \in {"none", "awaiting", "live"}
       /\ tries[c] \in 0..MaxAttach

\* The byte counter of a fan-out is the sum of the frames it still tracks,
\* through merges, releases and write callbacks, and both limits hold
\* (fanout.ts:139-142, 154-165); a closed one keeps nothing.
Accounting == \A c \in Client :
  /\ out[c].bytes = Total(out[c].held \o out[c].queue \o Unwritten(out[c]))
  /\ Frames(out[c]) <= FrameLimit
  /\ mode[c] = "closed" => out[c] = Empty

\* Between turns, what an attached client has, followed by what is written
\* and what is queued for it, is exactly the session: no event is lost,
\* repeated or placed wrongly by the cutover, by merging, by backpressure or
\* by a second attach on the same connection (fanout.ts:58-111, 146-166); and
\* the counters behind the limits are those of the frames.
PipelineIsCurrent ==
  /\ TypeOK /\ Accounting
  /\ Quiet => \A c \in Client : mode[c] = "live" =>
       FoldLeft(Digest, client[c], wire[c] \o out[c].queue)
         = [view |-> Source, status |-> "live", kept |-> <<>>]

\* A relaxed policy is published inside a change that c has yet to be told.
Overtaken(c) == /\ Len(stack) = 2 /\ c \notin stack[2].seen
                /\ stack[1].event = Rev(Source, "policy") /\ stack[2].event.kind # "text"
\* What c holds came in another order than it was committed in.
Crossed(c) == \E i, j \in DOMAIN out[c].held :
  /\ i < j /\ out[c].held[i].kind = "rev" /\ out[c].held[j].kind = "rev"
  /\ out[c].held[j].rev < out[c].held[i].rev

\* A connection is closed over a revision it did not expect in two cases
\* only: the close of another one relaxed the policy inside a change it had
\* yet to be told, so that the policy comes first; or it held the two in that
\* order for its cutover.  No other overflow, detach, merge or backpressure
\* closes a bystander (fanout.ts:77, 92-95, registry.ts:443 inside 1298).
OverflowIsPrivate == [][\A c \in Client :
  cause'[c] = "gap" => cause[c] = "gap" \/ Overtaken(c) \/ Crossed(c)]_vars

\* What the documentation says: an overflow closes only the connection it
\* happens on (docs/maintainers/session-daemon-server.md:117-118).
NobodyElseCloses == \A c \in Client : cause[c] # "gap"

\* A client only ever shows states the session went through, and moves
\* forward among them (events.ts:125-148, reducer.ts:69-164).
Promise == INSTANCE Feed WITH Viewer <- Client, view <- [c \in Client |-> client[c].view]
ImplementsFeed == Promise!Spec

\* An attached client catches up with its session or is closed, again and
\* again: a queued frame is never left without a flush to come
\* (fanout.ts:56, 181-203).
CatchesUp == \A c \in Client : []<>(Quiet /\ (mode[c] # "live" \/ client[c].view = Source))
=============================================================================
