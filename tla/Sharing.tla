------------------------------- MODULE Sharing -------------------------------
(***************************************************************************)
(* What the connector publishes about one root session and its children:   *)
(* who is shared, and what the web copy has been told (connector.ts,       *)
(* sharing.ts, state.ts).  A record per session is durable; what is        *)
(* connected, indexed and blocked is memory.  A publication carries the    *)
(* session's row, with its shared flag, and the events that wait for it;   *)
(* the content and the sequence of those events are module Publication's.  *)
(*                                                                         *)
(* Faults, at most MaxFaults of them: a response or a connection is lost,  *)
(* a request takes effect after it was given up, a payload is refused, the *)
(* web deletes the session, the daemon dies, also between two transactions *)
(* of one call.                                                            *)
(***************************************************************************)
EXTENDS Naturals, FiniteSets

CONSTANTS
  Sessions,   \* a root session and its children
  Root,
  Hosts,      \* the hosts a pairing may give this machine
  FirstHost,  \* the one it is paired with to begin with
  MaxChoices, \* what the user does, at most
  MaxFaults

Nobody == "no host"
NoRecord == [none |-> TRUE]
NoFlight == [none |-> TRUE]
Defaults == {"all", "on-request"}

ASSUME SharingAssumption ==
  /\ Root \in Sessions /\ Nobody \notin Hosts /\ FirstHost \in Hosts
  /\ MaxChoices \in Nat /\ MaxFaults \in Nat

VARIABLES
  record,      \* per session: its stored RemoteSessionRecord
  share,       \* the sharing default in force
  applied,     \* the default the records were last reconciled with
  alive,       \* the sessions the registry still has
  configured,  \* logged in
  stopped,     \* the platform revoked the login: nothing is retried
  connected,   \* a platform is connected
  host,        \* the host this pairing connects to, once it is known
  indexed,     \* the sessions this connection's host has a row for
  blocked,     \* the sessions whose uploads are quarantined
  waiting,     \* the sessions with events in the outbox
  flight,      \* the publication that is awaited
  late,        \* the shared flags of requests given up that may still arrive
  web,         \* per session: what the platform shows
  choices,
  faults,
  kept,        \* history: the sessions whose history was put into the outbox
  forgotten,   \* history: the sessions whose unsharing the code lost track of
  overtaken    \* history: the sessions a late request published again

counts == <<choices, faults>>
durable == <<record, share, applied, alive, waiting, kept>>
memory == <<configured, stopped, connected, host, indexed, blocked, flight>>
outside == <<late, web>>
vars == <<durable, memory, outside, counts, forgotten, overtaken>>

-----------------------------------------------------------------------------
Empty(default) ==
  [shared |-> default = "all", explicit |-> FALSE, web |-> FALSE,
   backfilled |-> FALSE, unsharedPending |-> FALSE, sharedPending |-> FALSE,
   host |-> Nobody, indexedHost |-> Nobody, terminal |-> FALSE]

Has(r) == r # NoRecord
RecordOf(records, s) ==
  IF Has(records[s]) THEN records[s] ELSE Empty(share)
Attempted(r) == r.host # Nobody

\* The record that decides for s: its root's, or its own while the root has none.
Deciding(records, s) ==
  IF s # Root /\ Has(records[Root]) THEN records[Root] ELSE records[s]

SharedUnder(records, s, loggedIn, default) ==
  LET r == Deciding(records, s)
  IN /\ loggedIn
     /\ Has(records[s]) => ~records[s].terminal
     /\ Has(records[Root]) => ~records[Root].terminal
     /\ \/ Has(r) /\ r.web
        \/ Has(r) /\ r.explicit /\ r.shared
        \/ (Has(r) => ~r.explicit) /\ default = "all"

IsShared(s) == s \in alive /\ SharedUnder(record, s, configured, share)

\* What the user's choices say, whether or not this machine is logged in.
Chosen(s) == s \in alive /\ SharedUnder(record, s, TRUE, share)

-----------------------------------------------------------------------------
(***************************************************************************)
(* Changing the choice.  A session nothing was ever sent about forgets its *)
(* outbox; every other one owes the web a row with shared: false.          *)
(***************************************************************************)
Withdrawn(r) ==
  IF r.terminal THEN r
  ELSE IF Attempted(r)
    THEN [r EXCEPT !.unsharedPending = TRUE, !.sharedPending = FALSE]
    ELSE [r EXCEPT !.backfilled = FALSE, !.unsharedPending = FALSE,
                   !.sharedPending = FALSE]

Discards(r) == ~r.terminal /\ ~Attempted(r)

Offered_Silently(r) ==
  IF Has(r) /\ r.backfilled
    THEN [r EXCEPT !.unsharedPending = FALSE]
    ELSE r

Offered(r) ==
  IF Has(r) /\ r.backfilled
    THEN [r EXCEPT !.unsharedPending = FALSE, !.sharedPending = TRUE]
    ELSE r

\* The outboxes of gone are discarded.
Forget(gone) ==
  /\ waiting' = waiting \ gone
  /\ kept' = kept \ gone
  /\ blocked' = blocked \ gone

\* The root's record after a choice made from session s: a copy of the record
\* that decided for s.
Choice(s, on) ==
  LET previous == Deciding(record, s)
      r == IF Has(previous) THEN previous ELSE Empty(share)
  IN [r EXCEPT !.shared = on, !.explicit = TRUE,
        !.unsharedPending = ~on /\ (\/ r.unsharedPending
                                    \/ Has(previous) /\ r.shared /\ r.backfilled
                                    \/ SharedUnder(record, s, configured, share))]

MayChoose(s, on) ==
  /\ s \in alive
  /\ Has(Deciding(record, s)) =>
       ~Deciding(record, s).terminal /\ (~on => ~Deciding(record, s).web)
  /\ Has(record[s]) => ~record[s].terminal

\* What the records no longer owe the web although they should.
StillForgotten(lost) ==
  {c \in forgotten \cup lost :
     ~(c \in alive' /\ SharedUnder(record', c, TRUE, share'))}

Choose ==
  /\ choices < MaxChoices
  /\ choices' = choices + 1

ShareOn(s) ==
  LET chosen == [record EXCEPT ![Root] = Choice(s, TRUE)]
  IN /\ MayChoose(s, TRUE) /\ Choose
     /\ record' = [c \in Sessions |->
                     IF c \in alive THEN Offered(chosen[c]) ELSE chosen[c]]
     /\ UNCHANGED <<share, applied, alive, waiting, kept, memory, outside,
                    faults, overtaken>>
     /\ forgotten' = StillForgotten({})

TurnOff_RootOnly(s, done) ==
  /\ MayChoose(s, FALSE)
  /\ record' = [record EXCEPT ![Root] = Choice(s, FALSE)]
  /\ UNCHANGED <<waiting, kept, share, applied, alive, outside, overtaken>>

\* Only the sessions of done are reached: all of those shared before, unless the
\* daemon dies between two of their transactions.
TurnOff(s, done) ==
  LET chosen == [record EXCEPT ![Root] = Choice(s, FALSE)]
      gone == {c \in done : Discards(RecordOf(chosen, c))}
  IN /\ MayChoose(s, FALSE)
     /\ record' = [c \in Sessions |->
                     IF c \in done THEN Withdrawn(RecordOf(chosen, c))
                     ELSE chosen[c]]
     /\ waiting' = waiting \ gone
     /\ kept' = kept \ gone
     /\ UNCHANGED <<share, applied, alive, outside, overtaken>>

\* Something was sent about c, and its record neither owes nor, as a root that
\* was shared and backfilled, comes to owe a row when the choice is stored.
Untold(c) ==
  /\ Has(record[c]) /\ Attempted(record[c]) /\ ~record[c].unsharedPending
  /\ ~(c = Root /\ record[c].shared /\ record[c].backfilled)

\* Logged out, /remote off finds no session shared and marks none.
Unnoticed ==
  {c \in Sessions : /\ ~configured /\ Untold(c)
                    /\ Chosen(c) \/ SharedUnder(record, c, TRUE, applied)}

SharedNow == {c \in Sessions : IsShared(c)}

ShareOff(s) ==
  /\ Choose
  /\ TurnOff(s, SharedNow)
  /\ blocked' = blocked \ (kept \ kept')
  /\ UNCHANGED <<configured, stopped, connected, host, indexed, flight, faults>>
  /\ forgotten' = StillForgotten(Unnoticed)

\* The sharing default, and the records that follow it.
Reconciled(from, to) ==
  [c \in Sessions |->
     LET before == SharedUnder(record, c, TRUE, from)
         now == SharedUnder(record, c, TRUE, to)
         r == IF Has(record[c]) THEN record[c] ELSE Empty(to)
     IN IF c \notin alive THEN record[c]
        ELSE IF before /\ ~now THEN Withdrawn(r)
        ELSE IF now /\ ~before THEN Offered(record[c])
        ELSE record[c]]

Reconcile(from, to) ==
  LET gone == {c \in alive :
                 /\ SharedUnder(record, c, TRUE, from)
                 /\ ~SharedUnder(record, c, TRUE, to)
                 /\ Discards(RecordOf(record, c))}
  IN /\ record' = Reconciled(from, to)
     /\ Forget(gone)
     /\ applied' = to

ShareDefault(default) ==
  /\ Choose
  /\ share' = default
  /\ Reconcile(share, default)
  /\ UNCHANGED <<alive, configured, stopped, connected, host, indexed, flight, outside,
                 faults, overtaken>>
  /\ forgotten' = StillForgotten({})

\* The record of a session that a command from the web created.
Marked(r) ==
  [(IF Has(r) THEN r ELSE Empty("all")) EXCEPT
     !.web = TRUE, !.shared = TRUE, !.unsharedPending = FALSE]

\* A command from the web created the root session.  It is marked when the
\* command is answered, and again when the command is replayed: by then the
\* session may have a record, and choices made from this machine.
MarkWebCreated ==
  /\ configured /\ Root \in alive /\ Choose
  /\ record' = [record EXCEPT ![Root] = Marked(@)]
  /\ UNCHANGED <<share, applied, alive, waiting, kept, memory, outside, faults, overtaken>>
  /\ forgotten' = StillForgotten({})

-----------------------------------------------------------------------------
(***************************************************************************)
(* Recording: the first share puts the history into the outbox, in two     *)
(* transactions; later changes follow it.                                  *)
(***************************************************************************)
MayBackfill(s) ==
  /\ configured /\ s \in alive
  /\ SharedUnder(record, s, configured, share)
  /\ Has(record[s]) => ~record[s].backfilled

Backfill(s) ==
  /\ MayBackfill(s)
  /\ record' = [record EXCEPT ![s] = [RecordOf(record, s) EXCEPT !.backfilled = TRUE]]
  /\ waiting' = waiting \cup {s}
  /\ kept' = kept \cup {s}
  /\ UNCHANGED <<share, applied, alive, memory, outside, counts, forgotten, overtaken>>

Change(s) ==
  /\ IsShared(s) /\ Has(record[s]) /\ record[s].backfilled
  /\ waiting' = waiting \cup {s}
  /\ UNCHANGED <<record, share, applied, alive, kept, memory, outside, counts,
                 forgotten, overtaken>>

-----------------------------------------------------------------------------
(***************************************************************************)
(* The local session is deleted, with its children.                        *)
(***************************************************************************)
Family(s) == IF s = Root THEN Sessions ELSE {s}

\* removeLocalSession: the record stays until the web knows.
Removed(r, told) ==
  IF Has(r) /\ Attempted(r) /\ ~r.terminal /\ ~told
    THEN [r EXCEPT !.shared = FALSE, !.unsharedPending = TRUE, !.sharedPending = FALSE]
    ELSE NoRecord

RemoveLocal(gone, told) ==
  LET dropped == {c \in gone : ~Has(Removed(record[c], told))}
  IN /\ record' = [c \in Sessions |->
                     IF c \in gone THEN Removed(record[c], told) ELSE record[c]]
     /\ waiting' = waiting \ dropped
     /\ kept' = kept \ dropped
     /\ indexed' = indexed \ gone
     /\ blocked' = blocked \ gone

Delete(s) ==
  /\ s \in alive /\ Choose
  /\ alive' = alive \ Family(s)
  /\ RemoveLocal(Family(s) \cap alive, FALSE)
  /\ UNCHANGED <<share, applied, configured, stopped, connected, host, flight, outside,
                 faults, forgotten, overtaken>>

-----------------------------------------------------------------------------
(***************************************************************************)
(* The connection.                                                         *)
(***************************************************************************)
Terminated(r) == [r EXCEPT !.terminal = TRUE, !.unsharedPending = FALSE]

\* Children that stop being shared because their root's record is terminal.
Orphaned(ended) ==
  IF Root \in ended THEN {c \in Sessions \ ended : Chosen(c) /\ Has(record[c])} ELSE {}

Stale(f) == IF f = NoFlight THEN f ELSE [f EXCEPT !.live = FALSE]

Disconnect ==
  /\ connected' = FALSE
  /\ indexed' = {}
  /\ flight' = Stale(flight)

Login ==
  /\ ~configured
  /\ configured' = TRUE /\ stopped' = FALSE
  /\ IF applied = share
       THEN UNCHANGED <<record, waiting, kept, blocked, applied>>
       ELSE Reconcile(applied, share)
  /\ UNCHANGED <<share, alive, connected, host, indexed, flight, outside, counts, overtaken>>
  /\ forgotten' = StillForgotten({})

\* /remote logout, and a new pairing until it is granted; the next pairing may
\* give another host.
Logout ==
  /\ configured /\ Choose
  /\ configured' = FALSE /\ stopped' = FALSE
  /\ Disconnect
  /\ host' = Nobody
  /\ UNCHANGED <<durable, blocked, outside, faults, forgotten, overtaken>>

\* The records of another host are fenced before the connection is used.
Fenced(h) ==
  {s \in Sessions : /\ Has(record[s]) /\ ~record[s].terminal
                    /\ record[s].host \notin {Nobody, h}}

Connect(h) ==
  /\ configured /\ ~stopped /\ ~connected /\ host \in {Nobody, h}
  /\ connected' = TRUE
  /\ host' = h
  /\ record' = [s \in Sessions |->
                  IF s \in Fenced(h) THEN Terminated(record[s]) ELSE record[s]]
  /\ waiting' = waiting \ Fenced(h)
  /\ indexed' = {s \in Sessions \ Fenced(h) :
                   Has(record[s]) /\ ~record[s].terminal /\ record[s].indexedHost = h}
  /\ UNCHANGED <<share, applied, alive, kept, configured, stopped, blocked, flight,
                 outside, counts, overtaken>>
  /\ forgotten' = StillForgotten(Fenced(h) \cup Orphaned(Fenced(h)))

Fault ==
  /\ faults < MaxFaults
  /\ faults' = faults + 1
  /\ UNCHANGED choices

Drop ==
  /\ connected /\ Fault
  /\ Disconnect
  /\ UNCHANGED <<durable, configured, stopped, host, blocked, outside, forgotten, overtaken>>

\* The platform revokes the host or its credential: the connection goes and no
\* other is opened until the user logs in again, or the daemon starts again.
Stop ==
  /\ configured /\ ~stopped /\ Fault
  /\ stopped' = TRUE
  /\ Disconnect
  /\ UNCHANGED <<durable, configured, host, blocked, outside, forgotten, overtaken>>

-----------------------------------------------------------------------------
(***************************************************************************)
(* Publishing.  One publication is awaited at a time.                      *)
(***************************************************************************)
Ready_Events(s) ==
  /\ connected /\ flight = NoFlight
  /\ Has(record[s]) => ~record[s].terminal
  /\ s \in blocked => Has(record[s]) /\ record[s].unsharedPending
  /\ \/ s \in waiting
     \/ Has(record[s]) /\ (record[s].sharedPending \/ (record[s].backfilled /\ s \notin indexed))

\* What the scheduler looks at.
Ready(s) ==
  /\ connected /\ flight = NoFlight
  /\ Has(record[s]) => ~record[s].terminal
  /\ s \in blocked => Has(record[s]) /\ record[s].unsharedPending
  /\ \/ s \in waiting
     \/ Has(record[s]) /\ \/ record[s].unsharedPending \/ record[s].sharedPending
                          \/ record[s].backfilled /\ s \notin indexed

Intended_Later(r) == r

\* The host is stored with the intent to upload, before the request leaves.
Intended(r) == IF Attempted(r) THEN r ELSE [r EXCEPT !.host = host]

\* What the scheduler finds of s: a deletion nobody observed is settled first.
Found(s) == IF s \in alive THEN RecordOf(record, s) ELSE Removed(record[s], FALSE)

Publish(s) ==
  LET shared == IsShared(s)
  IN /\ Ready(s) /\ Has(Found(s))
     /\ \/ shared /\ (s \in waiting \/ Found(s).sharedPending \/ s \notin indexed)
        \/ ~shared /\ Found(s).unsharedPending
     /\ record' = [record EXCEPT ![s] = Intended(Found(s))]
     /\ flight' = [session |-> s, shared |-> shared, events |-> shared /\ s \in waiting,
                   live |-> TRUE, reply |-> "none"]
     /\ indexed' = indexed \ ({s} \ alive)
     /\ blocked' = blocked \ ({s} \ alive)
     /\ UNCHANGED <<share, applied, alive, waiting, kept, configured, stopped,
                    connected, host, outside, counts, forgotten, overtaken>>

Discover(s) ==
  /\ Ready(s) /\ s \notin alive /\ Has(record[s])
  /\ ~Has(Found(s))
  /\ RemoveLocal({s}, FALSE)
  /\ UNCHANGED <<share, applied, alive, configured, stopped, connected, host, flight,
                 outside, counts, forgotten, overtaken>>

Show(s, shared) ==
  web' = [web EXCEPT ![s] = IF @ = "deleted" THEN @
                            ELSE IF shared THEN "shared" ELSE "unshared"]

Arrive ==
  /\ flight # NoFlight /\ flight.reply = "none"
  /\ Show(flight.session, flight.shared)
  /\ flight' = [flight EXCEPT !.reply = IF web[flight.session] = "deleted" THEN "deleted" ELSE "ok"]
  /\ UNCHANGED <<durable, configured, stopped, connected, host, indexed, blocked, late,
                 counts, forgotten, overtaken>>

\* What an acknowledgement settles, read again after the wait.
Settled(r, s) ==
  [r EXCEPT !.host = host, !.indexedHost = host,
     !.unsharedPending = @ /\ (flight.shared \/ IsShared(s)),
     !.sharedPending = @ /\ ~(flight.shared /\ IsShared(s))]

Acknowledge ==
  LET s == flight.session
  IN /\ flight # NoFlight /\ flight.live /\ flight.reply = "ok"
     /\ flight' = NoFlight
     /\ IF s \in alive
          THEN /\ record' = [record EXCEPT ![s] = Settled(RecordOf(record, s), s)]
               /\ indexed' = indexed \cup {s}
               /\ \E more \in {{}, {s}} :
                    waiting' = (waiting \ (IF flight.events THEN {s} ELSE {}))
                               \cup (more \cap waiting)
               /\ UNCHANGED <<kept, blocked>>
          ELSE RemoveLocal({s}, ~flight.shared)
     /\ UNCHANGED <<share, applied, alive, configured, stopped, connected, host, outside,
                    counts, overtaken>>
     /\ forgotten' = forgotten \ (IF flight.shared THEN {} ELSE {s})

Terminate ==
  LET s == flight.session
  IN /\ flight # NoFlight /\ flight.live /\ flight.reply = "deleted"
     /\ flight' = NoFlight
     /\ record' = [record EXCEPT ![s] =
                     IF s \in alive THEN Terminated(RecordOf(record, s)) ELSE NoRecord]
     /\ waiting' = waiting \ {s}
     /\ kept' = IF s \in alive THEN kept ELSE kept \ {s}
     /\ indexed' = indexed \ {s}
     /\ UNCHANGED <<share, applied, alive, configured, stopped, connected, host, blocked,
                    outside, counts, overtaken>>
     /\ forgotten' = StillForgotten(Orphaned({s}))

\* The answer of a connection that is gone is not looked at.
Ignore ==
  /\ flight # NoFlight /\ ~flight.live
  /\ flight' = NoFlight
  /\ \E straggler \in {{}, {<<flight.session, flight.shared>>}} :
       late' = late \cup (IF flight.reply = "none" THEN straggler ELSE {})
  /\ UNCHANGED <<durable, configured, stopped, connected, host, indexed, blocked, web,
                 counts, forgotten, overtaken>>

\* The request is given up: its connection goes, and it may still arrive.
TimeOut ==
  /\ flight # NoFlight /\ flight.live /\ Fault
  /\ flight' = NoFlight
  /\ connected' = FALSE
  /\ indexed' = {}
  /\ \E straggler \in {{}, {<<flight.session, flight.shared>>}} :
       late' = late \cup (IF flight.reply = "none" THEN straggler ELSE {})
  /\ UNCHANGED <<durable, configured, stopped, host, blocked, web, forgotten, overtaken>>

Refuse ==
  /\ flight # NoFlight /\ flight.live /\ flight.reply = "none" /\ Fault
  /\ flight' = NoFlight
  /\ blocked' = blocked \cup {flight.session}
  /\ UNCHANGED <<durable, configured, stopped, connected, host, indexed, outside,
                 forgotten, overtaken>>

ArriveLate(request) ==
  /\ request \in late
  /\ late' = late \ {request}
  /\ Show(request[1], request[2])
  /\ overtaken' = overtaken \cup {request[1]}
  /\ UNCHANGED <<durable, memory, counts, forgotten>>

DeleteOnWeb(s) ==
  /\ web[s] \in {"shared", "unshared"} /\ Fault
  /\ web' = [web EXCEPT ![s] = "deleted"]
  /\ UNCHANGED <<durable, memory, late, forgotten, overtaken>>

-----------------------------------------------------------------------------
(***************************************************************************)
(* The daemon dies and starts again, with the default that its host.json   *)
(* or its settings have by then.  Its credential is read later: Login.     *)
(***************************************************************************)
Restart ==
  /\ Fault
  /\ configured' = FALSE /\ stopped' = FALSE /\ connected' = FALSE
  /\ indexed' = {} /\ blocked' = {}
  /\ flight' = NoFlight
  /\ UNCHANGED host

Crash ==
  /\ Restart
  /\ share' \in Defaults
  /\ UNCHANGED <<record, applied, alive, waiting, kept, web, overtaken>>
  /\ late' = late \cup (IF flight # NoFlight /\ flight.reply = "none"
                          THEN {<<flight.session, flight.shared>>} ELSE {})
  /\ forgotten' = StillForgotten({})

\* Between the transaction for the root and those for the sessions shared before.
CrashInOff(s, done) ==
  /\ Restart
  /\ done # SharedNow
  /\ TurnOff(s, done)
  /\ forgotten' = StillForgotten({c \in SharedNow \ done : c # Root /\ Untold(c)})

\* Between the two transactions of a first share.
CrashInBackfill(s) ==
  /\ Restart
  /\ MayBackfill(s)
  /\ waiting' = waiting \cup {s}
  /\ kept' = kept \cup {s}
  /\ UNCHANGED <<record, share, applied, alive, outside, forgotten, overtaken>>

\* Between the deletion and the observer that would have told the connector.
CrashInDelete(s) ==
  /\ Restart
  /\ s \in alive
  /\ alive' = alive \ Family(s)
  /\ UNCHANGED <<record, share, applied, waiting, kept, outside, overtaken>>
  /\ forgotten' = StillForgotten(
       {c \in Family(s) : Has(record[c]) /\ Attempted(record[c])})

-----------------------------------------------------------------------------
Init ==
  /\ record = [s \in Sessions |-> NoRecord]
  /\ share \in Defaults /\ applied = share
  /\ alive = Sessions
  /\ configured = FALSE /\ stopped = FALSE /\ connected = FALSE /\ host = FirstHost
  /\ indexed = {} /\ blocked = {} /\ waiting = {}
  /\ flight = NoFlight /\ late = {}
  /\ web = [s \in Sessions |-> "none"]
  /\ choices = 0 /\ faults = 0
  /\ kept = {} /\ forgotten = {} /\ overtaken = {}

User ==
  \/ \E s \in Sessions : ShareOn(s) \/ ShareOff(s) \/ Delete(s)
  \/ \E default \in Defaults \ {share} : ShareDefault(default)
  \/ MarkWebCreated
  \/ Logout

Connector ==
  \/ Login \/ \E h \in Hosts : Connect(h)
  \/ \E s \in Sessions : Backfill(s) \/ Change(s) \/ Publish(s) \/ Discover(s)
  \/ Acknowledge \/ Terminate \/ Ignore

Environment ==
  \/ Drop \/ Stop \/ Arrive \/ TimeOut \/ Refuse \/ Crash
  \/ \E request \in late : ArriveLate(request)
  \/ \E s \in Sessions : \/ DeleteOnWeb(s) \/ CrashInBackfill(s) \/ CrashInDelete(s)
                         \/ \E done \in SUBSET SharedNow : CrashInOff(s, done)

Next == User \/ Connector \/ Environment

Fairness ==
  /\ WF_vars(Login)
  /\ WF_vars(\E h \in Hosts : Connect(h))
  /\ WF_vars(Arrive \/ Ignore \/ Acknowledge \/ Terminate)
  /\ \A s \in Sessions : SF_vars(Publish(s) \/ Discover(s))

Spec == Init /\ [][Next]_vars /\ Fairness

-----------------------------------------------------------------------------
RecordType ==
  [shared : BOOLEAN, explicit : BOOLEAN, web : BOOLEAN, backfilled : BOOLEAN,
   unsharedPending : BOOLEAN, sharedPending : BOOLEAN,
   host : Hosts \cup {Nobody}, indexedHost : Hosts \cup {Nobody},
   terminal : BOOLEAN]

FlightType ==
  [session : Sessions, shared : BOOLEAN, events : BOOLEAN, live : BOOLEAN,
   reply : {"none", "ok", "deleted"}]

\* The variables hold what the code stores (state.ts:18-28).
TypeOK ==
  /\ record \in [Sessions -> RecordType \cup {NoRecord}]
  /\ share \in Defaults /\ applied \in Defaults
  /\ alive \subseteq Sessions
  /\ configured \in BOOLEAN /\ stopped \in BOOLEAN /\ connected \in BOOLEAN
  /\ host \in Hosts \cup {Nobody}
  /\ indexed \subseteq Sessions /\ blocked \subseteq Sessions
  /\ waiting \subseteq Sessions
  /\ flight \in FlightType \cup {NoFlight}
  /\ late \subseteq Sessions \X BOOLEAN
  /\ web \in [Sessions -> {"none", "shared", "unshared", "deleted"}]
  /\ choices \in 0..MaxChoices /\ faults \in 0..MaxFaults
  /\ kept \subseteq Sessions /\ forgotten \subseteq Sessions
  /\ overtaken \subseteq Sessions

\* A request for s is on its way.
Travels(s) ==
  \/ flight # NoFlight /\ flight.session = s
  \/ \E shared \in BOOLEAN : <<s, shared>> \in late

\* The web shows s as shared although it is not, once the records follow the
\* default in force.
Owed(s) ==
  /\ web[s] = "shared" /\ ~Chosen(s) /\ applied = share
  /\ ~Travels(s) /\ s \notin overtaken

Settles(s) ==
  Has(record[s]) /\ (record[s].unsharedPending \/ record[s].terminal)

(* A session that stops being shared after anything was sent about it owes
   the web a row with shared: false, and its record says so until the web has
   it: across lost responses, restarts, logins and the deletion of the session
   (markUnshared, removeLocalSession, publishSessionNow).  /remote off records it
   for every session it finds shared.  `forgotten` has the sessions of which the
   code keeps no debt: /remote off while logged out, and a death between its
   transactions, leave those unmarked whose record did not owe a row already
   (connector.ts:374-380); a record that ends, fenced for another host or as the
   row of a root, hides its own debt and those of its children (543-548, 878); a
   session deleted just before a death is not observed (registry.ts:656). *)
OffIsOwed == \A s \in Sessions \ forgotten : Owed(s) => Settles(s)

(* The same without exception, as remote-connector.md:133 has it: after
   /remote off a session whose upload was attempted sends shared: false. *)
OffReachesEverySession == \A s \in alive : Owed(s) => Settles(s)

(* Nothing is sent about a session before the record says that something may
   have been: a lost response never leaves a session that counts as never
   uploaded (uploadAttempted and hostId, stored before the request). *)
SentIsRemembered ==
  /\ TypeOK
  /\ \A s \in alive :
       web[s] # "none" \/ Travels(s) => Has(record[s]) /\ Attempted(record[s])

\* The web shows s as unshared, and nothing under way will change that.
Unannounced(s) ==
  /\ web[s] = "unshared" /\ IsShared(s) /\ ~Travels(s) /\ s \notin overtaken
  /\ Has(record[s]) /\ record[s].backfilled
  /\ s \notin waiting /\ ~record[s].sharedPending /\ s \in indexed /\ s \notin blocked

(* A session that is shared again is announced again: the web does not go on
   showing it as unshared while the connector believes there is nothing left
   to send (sharedPending).  One that a replayed command marks as created from
   the web after it was turned off here is not (connector.ts:140). *)
OnIsAnnounced ==
  \A s \in Sessions : Unannounced(s) => Has(record[Root]) /\ record[Root].web

(* The same without exception: a session created from the web is shown as
   shared, always (sharing.ts:26). *)
WebIsAnnounced == \A s \in Sessions : ~Unannounced(s)

(* A session recorded as backfilled has had its history put into its outbox
   (remote-connector.md:126: a first share backfills the local history). *)
BackfilledIsReal ==
  \A s \in Sessions : Has(record[s]) /\ record[s].backfilled => s \in kept

\* A row with shared: false is still to be sent.
Debt(s) == Has(record[s]) /\ record[s].unsharedPending /\ ~Chosen(s)

(* While the user stays logged in and the platform does not revoke the login, a
   row with shared: false that is owed is sent and acknowledged, unless the
   session is shared again: quarantined uploads, other sessions that publish and
   lost responses only delay it. *)
OffIsTold == \A s \in Sessions : Debt(s) ~> ~configured \/ stopped \/ ~Debt(s)
=============================================================================
