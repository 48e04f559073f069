----------------------------- MODULE Publication -----------------------------
(***************************************************************************)
(* How the changes of one session reach the web: recording by the          *)
(* connector (connector.ts), the durable outbox (outbox.ts) and the        *)
(* publication of its pages by sequence number.  Who is shared and what    *)
(* the row of a session says is module Sharing's; here the session is on   *)
(* or off.                                                                 *)
(*                                                                         *)
(* A change is its revision and its kind: a message, or the run and the    *)
(* metadata of the session ("state"), of which the last value counts.      *)
(* Some changes cannot be encoded within the limit of a publication; they  *)
(* take no number, and the record counts them (content.ts, fit).           *)
(*                                                                         *)
(* Faults: responses and connections are lost, requests arrive after they  *)
(* were given up, the daemon dies with what it had not yet flushed, and    *)
(* power is lost with the commits since the last checkpoint.               *)
(***************************************************************************)
EXTENDS Naturals, Sequences, FiniteSets, Functions

CONSTANTS
  PageSize,      \* changes per publication
  Capacity,      \* changes the outbox may hold
  EarlySize,     \* changes held before the backfill
  Unfit,         \* the revisions whose change cannot be encoded
  MaxChanges, MaxChoices, MaxFaults, MaxPowerLosses

ASSUME PublicationAssumption ==
  /\ PageSize \in Nat \ {0} /\ Capacity \in Nat \ {0} /\ EarlySize \in Nat \ {0}
  /\ Unfit \subseteq Nat /\ MaxChanges \in Nat /\ MaxChoices \in Nat
  /\ MaxFaults \in Nat /\ MaxPowerLosses \in Nat

VARIABLES
  log,         \* the session: the kind of each of its changes
  disk,        \* what is committed: the record, the cursor, the outbox rows
  checkpoint,  \* what of it would survive a power loss
  configured,  \* logged in
  connected,   \* a platform is connected
  unflushed,   \* in the outbox, not committed yet
  early,       \* changes held until the backfill
  stopped,     \* recordingBlocked
  quarantined, \* blocked: not published any more
  gap,         \* publicationGaps: the recovery in progress
  flight,      \* the publication that is awaited
  late,        \* requests given up that may still arrive
  web,         \* the items the platform has stored
  counts,      \* choices, faults and power losses so far
  due,         \* history: changes made while they were to be recorded
  secret,      \* history: messages made when not, after the first backfill
  lost,        \* history: what was given up, and why
  offered      \* history: the highest sequence number ever sent

recording == <<disk, checkpoint, unflushed, early, stopped>>
upload == <<quarantined, gap, flight, late, web, offered>>
history == <<due, secret, lost>>
vars == <<log, configured, connected, recording, upload, counts, history>>

-----------------------------------------------------------------------------
Kinds == {"message", "state"}
Rev == Len(log)

\* The members of a set of numbers, in order.
Sorted(set) ==
  [n \in 1..Cardinality(set) |-> CHOOSE r \in set : Cardinality({q \in set : q <= r}) = n]

\* An item of the outbox; the model and the queue in a snapshot are "rest".
Item(kind, rev) == [kind |-> kind, rev |-> rev]
RevsOf(items) == {items[i].rev : i \in DOMAIN items}

\* The outbox as the daemon sees it, buffered entries included.
Pending == disk.rows \o unflushed
LastSeq == disk.acked + Len(Pending)
NextSeq == LastSeq + 1

Recording == disk.on /\ configured /\ ~stopped

Nothing == [on |-> FALSE, acked |-> 0, rows |-> <<>>, backfilled |-> FALSE,
            stateRecorded |-> FALSE, attempted |-> FALSE, skipped |-> FALSE]

NoFlight == [first |-> 0, items |-> <<>>, reply |-> "none", seq |-> 0]
NoGap == [open |-> FALSE, lastSeq |-> 0, forwarded |-> FALSE]

Fits(items) == Len(Pending) + Len(items) <= Capacity

\* append, of one list of items and then of another: each goes to the end as
\* a whole; one that does not fit stops the recording.
Store(items, more) ==
  LET kept == IF ~Fits(items) THEN <<>>
              ELSE IF Fits(items \o more) THEN items \o more ELSE items
      full == Len(kept) < Len(items \o more)
  IN /\ unflushed' = unflushed \o kept
     /\ stopped' = (stopped \/ full)
     /\ lost' = [lost EXCEPT !.full = @ \cup (Range(items \o more) \ Range(kept))]

\* publicationChange of the current run and metadata.
StateFits ==
  \A r \in DOMAIN log \cap Unfit :
    log[r] = "state" => \E q \in r + 1 .. Rev : log[q] = "state"

\* publicationChange stores a count of what it could not encode; here, that
\* there was any.
Skipped(any) == [disk EXCEPT !.skipped = @ \/ any]

Init ==
  /\ log = <<>>
  /\ disk = Nothing /\ checkpoint = Nothing
  /\ configured = FALSE /\ connected = FALSE
  /\ unflushed = <<>> /\ early = <<>> /\ stopped = FALSE
  /\ quarantined = FALSE /\ gap = NoGap /\ flight = NoFlight /\ late = {}
  /\ web = <<>> /\ offered = 0
  /\ counts = [choices |-> 0, faults |-> 0, power |-> 0]
  /\ due = {} /\ secret = {}
  /\ lost = [crash |-> {}, full |-> {}, early |-> {}, held |-> {}]

-----------------------------------------------------------------------------
(* Recording *)

\* observe, when the change is not to be recorded: markStateUnrecorded
\* remembers a state that a later login has to record.
Missing(kind) == kind = "state" /\ (~configured \/ stopped) /\ disk.backfilled

Overlook(kind) ==
  /\ ~Recording
  /\ disk' = [disk EXCEPT !.stateRecorded = @ /\ ~Missing(kind)]
  /\ secret' = IF kind = "message" /\ NextSeq > 1
                 THEN secret \cup {Rev + 1} ELSE secret
  /\ due' = IF kind = "state" /\ disk.on /\ disk.backfilled
              THEN due \cup {Item(kind, Rev + 1)} ELSE due
  /\ UNCHANGED <<unflushed, early, stopped, lost>>

\* observe before the backfill; a snapshot subsumes what overflows, and what is
\* larger than the buffer.
Hold(kind) ==
  /\ Recording /\ ~disk.backfilled
  /\ \E large \in BOOLEAN :
       early' = IF large THEN <<>>
                ELSE Append(IF Len(early) >= EarlySize THEN <<>> ELSE early,
                            Item(kind, Rev + 1))
  /\ lost' = IF NextSeq > 1
               THEN [lost EXCEPT !.early =
                       @ \cup ((Range(early) \cup {Item(kind, Rev + 1)}) \ Range(early'))]
               ELSE lost
  /\ due' = due \cup {Item(kind, Rev + 1)}
  /\ UNCHANGED <<disk, unflushed, stopped, secret>>

Record(kind) ==
  /\ Recording /\ disk.backfilled
  /\ Rev + 1 \notin Unfit
  /\ Store(<<Item(kind, Rev + 1)>>, <<>>)
  /\ due' = due \cup {Item(kind, Rev + 1)}
  /\ UNCHANGED <<disk, early, secret>>

\* The same of a change that cannot be encoded.
Skip(kind) ==
  /\ Recording /\ disk.backfilled
  /\ Rev + 1 \in Unfit
  /\ disk' = Skipped(TRUE)
  /\ due' = due \cup {Item(kind, Rev + 1)}
  /\ UNCHANGED <<unflushed, stopped, lost, early, secret>>

Change(kind) ==
  /\ Rev < MaxChanges
  /\ log' = Append(log, kind)
  /\ Overlook(kind) \/ Hold(kind) \/ Record(kind) \/ Skip(kind)
  /\ UNCHANGED <<checkpoint, configured, connected, upload, counts>>

\* The group commit of a tick.
Flush ==
  /\ unflushed # <<>>
  /\ disk' = [disk EXCEPT !.rows = Pending]
  /\ unflushed' = <<>>
  /\ UNCHANGED <<log, checkpoint, configured, connected, early, stopped, upload,
                 counts, history>>

\* The snapshot as it is published: each message, then the current values.
Snapshot ==
  LET messages == Sorted({r \in DOMAIN log \ Unfit : log[r] = "message"})
  IN [i \in DOMAIN messages |-> Item("message", messages[i])]
     \o <<Item(IF StateFits THEN "state" ELSE "rest", Rev)>>

SnapshotSkips == ~StateFits \/ \E r \in DOMAIN log \cap Unfit : log[r] = "message"

\* finishBackfill: of what was held, the snapshot covers the revisions up to
\* its own; the others are encoded now.
Held_Fresh(revision) ==
  LET behind == Sorted({i \in DOMAIN early : early[i].rev > Rev /\ early[i].rev \notin Unfit})
  IN [i \in DOMAIN behind |-> early[behind[i]]]

Held(revision) ==
  LET behind == Sorted({i \in DOMAIN early : early[i].rev > revision /\ early[i].rev \notin Unfit})
  IN [i \in DOMAIN behind |-> early[behind[i]]]

HeldSkips(revision) == \E r \in RevsOf(early) \cap Unfit : r > revision

\* initialize of an outbox with the snapshot.
Initialized == [Skipped(SnapshotSkips) EXCEPT !.rows = Snapshot]

\* performBackfill of an outbox without entries.
BackfillHistory_Drained ==
  /\ Pending = <<>> /\ Rev > 0
  /\ disk' = [Initialized EXCEPT !.backfilled = TRUE, !.stateRecorded = TRUE]
  /\ unflushed' = Held(Rev)
  /\ UNCHANGED <<stopped, lost>>

BackfillHistory ==
  /\ NextSeq = 1 /\ Rev > 0
  /\ IF Len(Snapshot) <= Capacity
       THEN /\ disk' = [Initialized EXCEPT !.backfilled = TRUE, !.stateRecorded = TRUE]
            /\ unflushed' = Held(Rev)
            /\ UNCHANGED <<stopped, lost>>
       ELSE /\ disk' = Skipped(SnapshotSkips)
            /\ stopped' = TRUE
            /\ lost' = [lost EXCEPT !.full = @ \cup Range(Snapshot)]
            /\ UNCHANGED unflushed

\* recordState: the current run and metadata, if they can be encoded.
CurrentState == IF StateFits THEN <<Item("state", Rev)>> ELSE <<>>

\* performBackfill of an outbox that was initialized before a crash: no
\* history is read, the state is recorded again.
BackfillTorn ==
  LET state == IF disk.stateRecorded THEN <<>> ELSE CurrentState
  IN /\ NextSeq > 1
     /\ Store(Held(0), state)
     /\ disk' = [Skipped(HeldSkips(0) \/ (~disk.stateRecorded /\ ~stopped' /\ ~StateFits))
                   EXCEPT !.backfilled = TRUE, !.stateRecorded = @ \/ ~stopped']

Backfill ==
  /\ Recording /\ ~disk.backfilled
  /\ BackfillHistory \/ BackfillTorn
  /\ early' = <<>>
  /\ UNCHANGED <<log, checkpoint, configured, connected, upload, counts, due, secret>>

-----------------------------------------------------------------------------
(* The user's choices *)

\* What ends sharing or the login is bounded.
Choose ==
  /\ counts.choices < MaxChoices
  /\ counts' = [counts EXCEPT !.choices = @ + 1]

On ==
  /\ ~disk.on
  /\ disk' = [disk EXCEPT !.on = TRUE]
  /\ UNCHANGED <<log, checkpoint, configured, connected, unflushed, early, stopped,
                 upload, counts, history>>

\* markUnshared of a session that was never attempted: the outbox goes, and
\* the next backfill starts anew.
Discard ==
  /\ disk' = [disk EXCEPT !.on = FALSE, !.rows = <<>>, !.backfilled = FALSE]
  /\ unflushed' = <<>>
  /\ stopped' = FALSE /\ quarantined' = FALSE
  /\ secret' = {}
  /\ UNCHANGED lost

\* markUnshared of any other session: the outbox keeps what it has, and what is
\* held goes.
Pause ==
  /\ disk' = [disk EXCEPT !.on = FALSE]
  /\ lost' = IF NextSeq > 1 THEN [lost EXCEPT !.held = @ \cup Range(early)] ELSE lost
  /\ UNCHANGED <<unflushed, stopped, quarantined, secret>>

Discardable_Unacked == disk.acked = 0

Discardable == ~disk.attempted /\ disk.acked = 0

Off ==
  /\ disk.on
  /\ Choose
  /\ IF ~configured
       THEN /\ disk' = [disk EXCEPT !.on = FALSE]
            /\ UNCHANGED <<early, unflushed, stopped, quarantined, secret, lost>>
       ELSE /\ early' = <<>>
            /\ IF Discardable THEN Discard ELSE Pause
  /\ UNCHANGED <<log, checkpoint, configured, connected, gap, flight, late, web,
                 offered, due>>

\* login, at the start of the daemon as well: recordStates puts the current
\* state into the outbox where it may be missing.
Login ==
  /\ ~configured /\ configured' = TRUE
  /\ IF disk.on /\ disk.backfilled /\ ~disk.stateRecorded /\ ~stopped
       THEN /\ Store(CurrentState, <<>>)
            /\ disk' = [Skipped(~StateFits) EXCEPT !.stateRecorded = ~stopped']
       ELSE UNCHANGED <<disk, unflushed, stopped, lost>>
  /\ UNCHANGED <<log, checkpoint, connected, early, upload, counts, due, secret>>

\* A request whose answer is not awaited any more may still arrive.
Given(request) ==
  IF request.items # <<>> /\ request.reply = "none"
    THEN {[first |-> request.first, items |-> request.items]} ELSE {}

Disconnect ==
  /\ connected' = FALSE
  /\ flight' = NoFlight
  /\ late' = late \cup Given(flight)

Logout ==
  /\ configured /\ configured' = FALSE
  /\ Choose
  /\ Disconnect
  /\ UNCHANGED <<log, recording, quarantined, gap, web, offered, history>>

Connect ==
  /\ configured /\ ~connected /\ connected' = TRUE
  /\ UNCHANGED <<log, configured, recording, upload, counts, history>>

-----------------------------------------------------------------------------
(* Uploading *)

\* publishSessionNow: the buffered entries are committed and the attempt is
\* stored before the first page is sent.
Page == SubSeq(Pending, 1, IF Len(Pending) < PageSize THEN Len(Pending) ELSE PageSize)

Attempted == [disk EXCEPT !.rows = Pending, !.attempted = TRUE]

Ready_Recording == connected /\ Recording /\ ~quarantined /\ Pending # <<>>

Ready == connected /\ disk.on /\ ~quarantined /\ Pending # <<>>

Publish ==
  /\ Ready /\ flight = NoFlight
  /\ disk' = Attempted /\ unflushed' = <<>>
  /\ flight' = [NoFlight EXCEPT !.first = disk.acked + 1, !.items = Page]
  /\ offered' = IF disk.acked + Len(Page) > offered
                  THEN disk.acked + Len(Page) ELSE offered
  /\ UNCHANGED <<log, checkpoint, configured, connected, early, stopped, quarantined,
                 gap, late, web, counts, history>>

\* The platform: a page that would leave a gap is refused with the sequence it
\* has; of a page that overlaps it appends what it has not got, or refuses it
\* the same way; any other it appends.
Accepted(request) ==
  /\ request.first <= Len(web) + 1
  /\ web' = web \o SubSeq(request.items, Len(web) + 2 - request.first, Len(request.items))

Refused(request) == request.first # Len(web) + 1 /\ UNCHANGED web

Arrive ==
  /\ flight.items # <<>> /\ flight.reply = "none"
  /\ \/ Accepted(flight) /\ flight' = [flight EXCEPT !.reply = "ok", !.seq = Len(web')]
     \/ Refused(flight) /\ flight' = [flight EXCEPT !.reply = "gap", !.seq = Len(web)]
  /\ UNCHANGED <<log, configured, connected, recording, quarantined, gap, late,
                 offered, counts, history>>

ArriveLate(request) ==
  /\ Accepted(request) \/ Refused(request)
  /\ late' = late \ {request}
  /\ UNCHANGED <<log, configured, connected, recording, quarantined, gap, flight,
                 offered, counts, history>>

\* acknowledge of the outbox, which flushes first.
Acknowledged_Everything(seq) == [disk EXCEPT !.acked = LastSeq, !.rows = <<>>]

Acknowledged(seq) ==
  [disk EXCEPT !.acked = seq,
               !.rows = SubSeq(Pending, seq - disk.acked + 1, Len(Pending))]

\* The answer names the last item of the page, or one that is pending.
Plausible ==
  /\ flight.reply = "ok"
  /\ flight.seq >= flight.first + Len(flight.items) - 1
  /\ flight.seq < NextSeq

Acknowledge ==
  /\ Plausible
  /\ disk' = Acknowledged(flight.seq)
  /\ unflushed' = <<>>
  /\ gap' = NoGap /\ flight' = NoFlight
  /\ UNCHANGED <<log, checkpoint, configured, connected, early, stopped, quarantined,
                 late, web, offered, counts, history>>

\* fastForward: every pending entry is numbered anew, behind the platform's.
FastForward(seq) == [disk EXCEPT !.acked = seq, !.rows = Pending]

\* The handling of sequence_gap, also of an answer that is not plausible.
Recoverable ==
  /\ flight.seq >= disk.acked
  /\ gap.open => flight.seq # gap.lastSeq
  /\ flight.seq >= NextSeq => ~gap.forwarded

Recover ==
  /\ flight.reply \in {"ok", "gap"} /\ ~Plausible
  /\ IF Recoverable
       THEN /\ disk' = IF flight.seq >= NextSeq THEN FastForward(flight.seq)
                                                ELSE Acknowledged(flight.seq)
            /\ unflushed' = <<>>
            /\ gap' = [open |-> TRUE, lastSeq |-> flight.seq,
                       forwarded |-> gap.forwarded \/ flight.seq >= NextSeq]
            /\ UNCHANGED quarantined
       ELSE /\ quarantined' = TRUE
            /\ UNCHANGED <<disk, unflushed, gap>>
  /\ flight' = NoFlight
  /\ UNCHANGED <<log, checkpoint, configured, connected, early, stopped, late, web,
                 offered, counts, history>>

\* A round that finds nothing pending ends the recovery.
Settle ==
  /\ connected /\ disk.on /\ ~quarantined
  /\ flight = NoFlight /\ Pending = <<>> /\ gap.open
  /\ gap' = NoGap
  /\ UNCHANGED <<log, configured, connected, recording, quarantined, flight, late,
                 web, offered, counts, history>>

-----------------------------------------------------------------------------
(* Faults *)

Fault ==
  /\ counts.faults < MaxFaults
  /\ counts' = [counts EXCEPT !.faults = @ + 1]

\* The connection fails, or a request is given up after its deadline.
Drop ==
  /\ connected
  /\ Fault
  /\ Disconnect
  /\ UNCHANGED <<log, configured, recording, quarantined, gap, web, offered, history>>

\* The platform refuses the content for good.
Refuse ==
  /\ flight.items # <<>> /\ flight.reply = "none"
  /\ Fault
  /\ quarantined' = TRUE
  /\ flight' = NoFlight
  /\ UNCHANGED <<log, configured, connected, recording, gap, late, web, offered, history>>

\* The memory of the daemon is gone; the tick that was not flushed with it,
\* and what was held for a snapshot that will not be taken again.
Restart ==
  /\ configured' = FALSE
  /\ Disconnect
  /\ unflushed' = <<>> /\ early' = <<>> /\ stopped' = FALSE
  /\ quarantined' = FALSE /\ gap' = NoGap
  /\ UNCHANGED <<log, web, offered, due, secret>>

Crash ==
  /\ Fault
  /\ Restart
  /\ lost' = [lost EXCEPT !.crash = @ \cup Range(unflushed)
                              \cup (IF NextSeq > 1 THEN Range(early) ELSE {})]
  /\ UNCHANGED <<disk, checkpoint>>

\* initialize and the record are two transactions: the daemon may die between.
CrashInBackfill ==
  /\ Recording /\ ~disk.backfilled
  /\ NextSeq = 1 /\ Rev > 0 /\ Len(Snapshot) <= Capacity
  /\ Fault
  /\ Restart
  /\ disk' = Initialized
  /\ UNCHANGED <<checkpoint, lost>>

\* What reached the disk for certain; only the last one before a power loss
\* matters, so one is enough.
Checkpoint ==
  /\ counts.power < MaxPowerLosses
  /\ checkpoint = Nothing /\ disk # Nothing /\ checkpoint' = disk
  /\ UNCHANGED <<log, disk, configured, connected, unflushed, early, stopped, upload,
                 counts, history>>

PowerLoss ==
  /\ counts.power < MaxPowerLosses /\ counts.faults < MaxFaults
  /\ counts' = [counts EXCEPT !.power = @ + 1, !.faults = @ + 1]
  /\ Restart
  /\ disk' = checkpoint /\ checkpoint' = Nothing
  /\ UNCHANGED lost

-----------------------------------------------------------------------------
Next ==
  \/ \E kind \in Kinds : Change(kind)
  \/ Flush \/ Backfill
  \/ On \/ Off \/ Login \/ Logout \/ Connect
  \/ Publish \/ Arrive \/ Acknowledge \/ Recover \/ Settle
  \/ \E request \in late : ArriveLate(request)
  \/ Drop \/ Refuse \/ Crash \/ CrashInBackfill \/ Checkpoint \/ PowerLoss

\* The tick ends, the connector reconnects after a delay that is bounded, and
\* its rounds visit the session; a request is answered or given up.
Fairness ==
  /\ WF_vars(Flush) /\ WF_vars(Connect) /\ WF_vars(Publish)
  /\ WF_vars(Arrive) /\ WF_vars(Acknowledge) /\ WF_vars(Recover)

Spec == Init /\ [][Next]_vars /\ Fairness

-----------------------------------------------------------------------------
(* Properties *)

Broken == counts.power > 0

TypeOK ==
  /\ log \in Seq(Kinds) /\ Rev <= MaxChanges
  /\ \A d \in {disk, checkpoint} :
       /\ DOMAIN d = DOMAIN Nothing
       /\ d.acked \in Nat
       /\ \A i \in DOMAIN d.rows : d.rows[i] \in [kind : Kinds \cup {"rest"}, rev : Nat]
  /\ configured \in BOOLEAN /\ connected \in BOOLEAN
  /\ stopped \in BOOLEAN /\ quarantined \in BOOLEAN
  /\ connected => configured
  /\ flight.reply \in {"none", "ok", "gap"} /\ flight.seq \in Nat
  /\ disk.backfilled => early = <<>>
  /\ offered \in Nat

\* The outbox never runs ahead of the web: what it has acknowledged the web
\* has.  As long as power is not lost, what the web has beyond that is what
\* the outbox holds at the same numbers, so that a page sent again is the
\* same page (outbox.ts:84-93, connector.ts:833-875).
Agreement ==
  /\ TypeOK
  /\ disk.acked <= Len(web)
  /\ ~Broken =>
       /\ Len(web) <= LastSeq
       /\ \A n \in disk.acked + 1 .. Len(web) : web[n] = Pending[n - disk.acked]

\* The items that have a place: on the web, or waiting behind it.
Recorded == web \o SubSeq(Pending, Len(web) - disk.acked + 1, Len(Pending))

RecordedMessages == {Recorded[i].rev : i \in {j \in DOMAIN Recorded : Recorded[j].kind = "message"}}

\* The changes of a kind that were given up, with the items lost, each for a reason of its own: a
\* crash took the tick or what was held for a torn backfill (crash); the outbox
\* was full (full); before a torn backfill the buffer overflowed or the change was
\* larger than it (early), or the user stopped sharing (held); it could not be
\* encoded, and the record says so.
Lost == lost.crash \cup lost.full \cup lost.early \cup lost.held

GivenUp(items, kind) ==
  {item.rev : item \in {i \in items : i.kind = kind}}
     \cup {r \in DOMAIN log \cap Unfit : disk.skipped /\ log[r] = kind}

\* A message that was made while the session was shared and recorded is in
\* the outbox or on the web, or the coming snapshot will have it, unless it was
\* given up (connector.ts:580-592, 676-720; remote-connector.md:175-180 of what
\* cannot be encoded).
MessagesAreRecorded ==
  (~Broken /\ ~(~disk.backfilled /\ NextSeq = 1)) =>
    \A item \in due :
      \/ item.kind = "state"
      \/ item.rev \in RecordedMessages \cup RevsOf(early) \cup GivenUp(Lost, "message")

\* A message made while the session was not shared is never uploaded, once
\* the first backfill is past (remote-connector.md, "Sharing").
StaysHome ==
  ~Broken => \A i \in DOMAIN web : web[i].kind = "message" => web[i].rev \notin secret

\* The web shows the messages in the order of the session, each once, across
\* requests repeated, arriving late and crashes of the daemon.
InOrder ==
  ~Broken =>
    \A i, j \in DOMAIN web :
      (i < j /\ web[i].kind = "message" /\ web[j].kind = "message") => web[i].rev < web[j].rev

\* What the web shows of the session: what was shared, in order, once.
WebShowsTheSession == StaysHome /\ InOrder

\* A state on its way is not older than this one.
StateIsOnItsWay(rev) ==
  \E i \in DOMAIN Recorded : Recorded[i].kind = "state" /\ Recorded[i].rev >= rev

\* What the connector remembers as recorded is recorded: the state on its way
\* is not older than the last one due, unless that one was given up
\* (connector.ts:566, 599-631).  A change while logged out counts from the
\* backfill on; before it the code remembers nothing (connector.ts:602), and a
\* torn backfill then leaves the older state.
StateIsRecorded ==
  (~Broken /\ Recording /\ disk.backfilled /\ disk.stateRecorded) =>
    \A item \in due :
      (item.kind = "state" /\ \A r \in GivenUp(Lost, "state") : r < item.rev) =>
        StateIsOnItsWay(item.rev)

\* Nothing that was due is skipped, a message or the state, but for the five
\* reasons that GivenUp names.
NothingSkipped == MessagesAreRecorded /\ StateIsRecorded

\* The same without the excuse of a full outbox: "Re-records each shared
\* session's current run and metadata that the outbox may lack"
\* (connector.ts:606).
StateSurvivesOverflow ==
  (~Broken /\ Recording /\ disk.backfilled /\ disk.stateRecorded) =>
    \A item \in due :
      (item.kind = "state" /\ \A r \in GivenUp(Lost \ lost.full, "state") : r < item.rev) =>
        StateIsOnItsWay(item.rev)

\* Publication keeps the promise of module Channel.
Promise == INSTANCE Channel WITH
  recorded <- Recorded, delivered <- Len(web), broken <- Broken

PromiseKept == Promise!Spec

\* What is recorded reaches the web while the session stays shared and the
\* connector logged in, unless the session is quarantined: also after a power
\* loss, and with recording stopped (remote-connector.md, "Persistence").
Drains ==
  (Len(web) < LastSeq)
    ~> (Len(web) >= LastSeq \/ ~disk.on \/ ~configured \/ quarantined)
=============================================================================
