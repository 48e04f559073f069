--------------------------- MODULE LifecycleProofs ---------------------------
(***************************************************************************)
(* Theorems about module Lifecycle, for any number of stop and restart     *)
(* requests and of faults: the host stops only for a request that was told *)
(* so, what blocked it for good keeps it blocked, and store and locks are  *)
(* given up only when nothing is left at work.                             *)
(***************************************************************************)
EXTENDS Lifecycle, TLAPS

Releasing == {"sealing", "closing", "releasing"}
PastRecord == {"commands", "providers", "settled"} \cup Releasing
PastDispose == PastRecord \cup {"record"}
PastCancel == PastDispose \cup {"services", "disposing"}

\* A job is that of a request that was told so; the one with the generation of
\* the host, if any, is that of the pending request.
Serial ==
  /\ host = "draining" => pending \in Request /\ draining
  /\ \A r \in Request : at[r] # "none" =>
       /\ reply[r] = "told"
       /\ of[r] = generation => host \in {"draining", "stopped"} /\ pending = r /\ ~asked
  /\ \A r \in Request : at[r] \in Releasing =>
       host = "draining" /\ of[r] = generation /\ completing
  /\ host = "stopped" =>
       /\ completing /\ draining /\ ~resident
       /\ pending \in Request /\ at[pending] = "over" /\ of[pending] = generation

\* The current job has disposed of the session, which nobody opens again.
Gone ==
  /\ evicting => disposing
  /\ disposing => resident
  /\ services => resident
  /\ \A r \in Request :
       at[r] \in PastDispose /\ of[r] = generation => ~resident

Clean ==
  /\ ~resident /\ ~services /\ ~run /\ ~receiving
  /\ row # "running" /\ ~marked
  /\ cut => row = "interrupted"

\* What became of the run, at each step of any job, current or not.
Work ==
  /\ run => row = "running"
  /\ row = "running" /\ ~run => fenced \/ ~Current
  /\ owner = "lost" => fenced
  /\ stopping /\ run => marked
  /\ \A r \in Request : at[r] = "cancel" => stopping /\ (Mode[r] # "force" => ~run)
  /\ \A r \in Request : at[r] \in PastCancel => stopping /\ ~run /\ row # "running"
  /\ \A r \in Request : at[r] \in PastRecord => ~marked
  /\ cut => stopping /\ ~run /\ (marked \/ row = "interrupted")
  /\ \A r \in Request : at[r] \in {"closing", "releasing"} => sealed /\ ~receiving
  /\ \A r \in Request : at[r] = "releasing" => ~store
  /\ owner = "released" => ~store
  /\ ~store => Clean

IInv == TypeOK /\ Serial /\ Gone /\ Work

\* What BlockedStays says of one step.
BlockedBody ==
  host = "blocked" /\ ~recoverable =>
    host' = "blocked" /\ ~recoverable' /\ (owner' = "released" => owner = "released")

-----------------------------------------------------------------------------
(* The types: flags by the part of the daemon they belong to, jobs, and rows. *)

MachineFlags == recoverable \in BOOLEAN /\ asked \in BOOLEAN /\ completing \in BOOLEAN
RegistryFlags == draining \in BOOLEAN /\ stopping \in BOOLEAN /\ fenced \in BOOLEAN
SessionFlags == resident \in BOOLEAN /\ services \in BOOLEAN /\ disposing \in BOOLEAN /\ evicting \in BOOLEAN
WorkFlags == drained \in BOOLEAN /\ run \in BOOLEAN /\ marked \in BOOLEAN /\ cut \in BOOLEAN
EndFlags == receiving \in BOOLEAN /\ spoiled \in BOOLEAN /\ sealed \in BOOLEAN /\ store \in BOOLEAN

Jobs ==
  /\ host \in {"ready", "draining", "blocked", "stopped"} /\ generation \in Nat
  /\ pending \in Request \cup {None}
  /\ at \in [Request -> Steps] /\ of \in [Request -> 0..generation]
  /\ aborted \in [Request -> BOOLEAN] /\ raced \in [Request -> BOOLEAN]

Rows ==
  /\ reply \in [Request -> {"new", "dispatched", "accepted", "uncommitted", "told", "rejected", "thrown"}]
  /\ row \in {"idle", "running", "interrupted"} /\ owner \in {"held", "lost", "released"}
  /\ faults \in 0..MaxFaults

\* The type invariant is its parts.
LEMMA TypeParts ==
  TypeOK <=> /\ MachineFlags /\ RegistryFlags /\ SessionFlags /\ WorkFlags /\ EndFlags
             /\ Jobs /\ Rows
BY DEF TypeOK, MachineFlags, RegistryFlags, SessionFlags, WorkFlags, EndFlags, Jobs, Rows

\* Every step keeps the types of the flags of HostLifecycle.
LEMMA MachineFlagsStep ==
  ASSUME MachineFlags, [Next]_vars PROVE MachineFlags'
<1>1. ASSUME NEW r \in Request, PrepareRefused(r) PROVE MachineFlags'
  BY <1>1, ZenonT(30) DEF PrepareRefused, MachineFlags, machine
<1>2. ASSUME NEW r \in Request, PrepareFails(r) PROVE MachineFlags'
  BY <1>2, ZenonT(30) DEF PrepareFails, Block, Aborted, MachineFlags, machine
<1>3. ASSUME NEW r \in Request, Prepare(r) PROVE MachineFlags'
  BY <1>3, ZenonT(30) DEF Prepare, Supersede, Aborted, MachineFlags, machine
<1>4. ASSUME NEW r \in Request, SendAccepted(r) PROVE MachineFlags'
  BY <1>4, ZenonT(30) DEF SendAccepted, Started, Start, Stop, MachineFlags, machine
<1>5. ASSUME NEW r \in Request, SendUncommitted(r) PROVE MachineFlags'
  BY <1>5, ZenonT(30) DEF SendUncommitted, Block, Aborted, Resume, MachineFlags, machine
<1>6. ASSUME NEW r \in Request, WaitEnds(r) PROVE MachineFlags'
  BY <1>6, ZenonT(30) DEF WaitEnds, Caught, Block, Aborted, MachineFlags, machine
<1>7. ASSUME NEW r \in Request, Fenced(r) PROVE MachineFlags'
  BY <1>7, ZenonT(30) DEF Fenced, Caught, Block, Aborted, MachineFlags, machine
<1>8. ASSUME NEW r \in Request, NotResident(r) PROVE MachineFlags'
  BY <1>8, ZenonT(30) DEF NotResident, Caught, Block, Aborted, MachineFlags, machine
<1>9. ASSUME NEW r \in Request, Record(r) PROVE MachineFlags'
  BY <1>9, ZenonT(30) DEF Record, Goto, Caught, Block, Aborted, MachineFlags, machine
<1>10. ASSUME NEW r \in Request, LosesOwner(r) PROVE MachineFlags'
  BY <1>10, ZenonT(30) DEF LosesOwner, Caught, Block, Aborted, MachineFlags, machine
<1>11. ASSUME NEW r \in Request, Providers(r) PROVE MachineFlags'
  BY <1>11, ZenonT(30) DEF Providers, Goto, Caught, Block, Aborted, MachineFlags, machine
<1>12. ASSUME NEW r \in Request, SettleFails(r) PROVE MachineFlags'
  BY <1>12, ZenonT(30) DEF SettleFails, Caught, Block, Aborted, Spend, MachineFlags, machine
<1>13. ASSUME NEW r \in Request, ReleaseFails(r) PROVE MachineFlags'
  BY <1>13, ZenonT(30) DEF ReleaseFails, Caught, Block, Aborted, Spend, MachineFlags, machine
<1>14. ASSUME NEW r \in Request, LedgerFails(r) PROVE MachineFlags'
  BY <1>14, ZenonT(30) DEF LedgerFails, Caught, Block, Aborted, Spend, MachineFlags, machine
<1>15. ASSUME NEW r \in Request, Deadline(r) PROVE MachineFlags'
  BY <1>15, ZenonT(30) DEF Deadline, Block, MachineFlags, machine
<1>16. ASSUME NEW r \in Request, Release(r) PROVE MachineFlags'
  BY <1>16, ZenonT(30) DEF Release, Goto, MachineFlags, machine
<1>17. ASSUME NEW r \in Request, ReleaseOwner(r) PROVE MachineFlags'
  BY <1>17, ZenonT(30) DEF ReleaseOwner, MachineFlags, machine
<1>18. ASSUME DisposeFails PROVE MachineFlags'
  BY <1>18, ZenonT(30) DEF DisposeFails, Block, Aborted, Spend, MachineFlags, machine
<1>19. ASSUME OwnerLost PROVE MachineFlags'
  BY <1>19, ZenonT(30) DEF OwnerLost, Block, Aborted, Spend, MachineFlags, machine
<1>20. ASSUME NEW r \in Request, Commit(r) \/ CommitFails(r) \/ Throw(r)
      PROVE UNCHANGED <<recoverable, asked, completing>>
  BY <1>20, ZenonT(30) DEF Commit, CommitFails, Spend, Throw, machine
<1>21. ASSUME NEW r \in Request, Waited(r) \/ Cancel(r) \/ Services(r)
      PROVE UNCHANGED <<recoverable, asked, completing>>
  BY <1>21, ZenonT(30) DEF Waited, Stop, Goto, Cancel, Services, machine
<1>22. ASSUME NEW r \in Request, Seal(r) \/ Close(r)
      PROVE UNCHANGED <<recoverable, asked, completing>>
  BY <1>22, ZenonT(30) DEF Seal, Goto, Close, machine
<1>26. ASSUME NEW r \in Request, Commands(r) PROVE MachineFlags'
  BY <1>26, ZenonT(30) DEF Commands, Goto, Caught, Block, Aborted, MachineFlags, machine
<1>27. ASSUME NEW r \in Request, Sealed(r) PROVE MachineFlags'
  BY <1>27, ZenonT(30) DEF Sealed, Goto, Caught, Block, Aborted, MachineFlags, machine
<1>23. ASSUME Disposed \/ RunStart \/ RunEnd \/ Open \/ EvictIdle \/ Receive \/ Received
      PROVE UNCHANGED <<recoverable, asked, completing>>
  BY <1>23, ZenonT(30)
  DEF Disposed, RunStart, RunEnd, Open, EvictIdle, Receive, Received, machine
<1>24. CASE UNCHANGED vars
  BY <1>24 DEF vars, machine, MachineFlags
<1>25. ASSUME UNCHANGED <<recoverable, asked, completing>> PROVE MachineFlags'
  BY <1>25 DEF MachineFlags
<1> QED
  BY <1>1, <1>2, <1>3, <1>4, <1>5, <1>6, <1>7, <1>8, <1>9, <1>10, <1>11, <1>12, <1>13,
    <1>14, <1>15, <1>16, <1>17, <1>18, <1>19, <1>20, <1>21, <1>22, <1>23, <1>24, <1>25,
    <1>26, <1>27
  DEF Next, AtWork, Asked, Settle, Complete

\* Every step keeps the types of the flags of the registry.
LEMMA RegistryFlagsStep ==
  ASSUME RegistryFlags, [Next]_vars PROVE RegistryFlags'
<1>1. ASSUME NEW r \in Request, Prepare(r) PROVE RegistryFlags'
  BY <1>1, ZenonT(30) DEF Prepare, Supersede, Aborted, RegistryFlags, registry, work
<1>2. ASSUME NEW r \in Request, SendAccepted(r) PROVE RegistryFlags'
  BY <1>2, ZenonT(30) DEF SendAccepted, Started, Start, Stop, RegistryFlags, registry, work
<1>3. ASSUME NEW r \in Request, SendUncommitted(r) PROVE RegistryFlags'
  BY <1>3, ZenonT(30) DEF SendUncommitted, Block, Aborted, Resume, RegistryFlags, registry, work
<1>4. ASSUME NEW r \in Request, Waited(r) PROVE RegistryFlags'
  BY <1>4, ZenonT(30) DEF Waited, Stop, Goto, RegistryFlags, registry, work
<1>5. ASSUME DisposeFails PROVE RegistryFlags'
  BY <1>5, ZenonT(30) DEF DisposeFails, Block, Aborted, Spend, RegistryFlags, registry, work
<1>6. ASSUME OwnerLost PROVE RegistryFlags'
  BY <1>6, ZenonT(30) DEF OwnerLost, Block, Aborted, Spend, RegistryFlags, registry, work
<1>7. ASSUME NEW r \in Request, PrepareRefused(r) \/ PrepareFails(r) \/ Commit(r)
         \/ CommitFails(r) \/ Throw(r)
      PROVE UNCHANGED registry
  BY <1>7, ZenonT(30)
  DEF PrepareRefused, PrepareFails, Block, Aborted, Commit, CommitFails, Spend, Throw,
      registry, work
<1>8. ASSUME NEW r \in Request, WaitEnds(r) \/ Fenced(r) \/ Cancel(r) \/ Services(r)
         \/ NotResident(r) \/ Record(r) \/ LosesOwner(r) \/ Commands(r) \/ Providers(r)
         \/ SettleFails(r) \/ Deadline(r)
      PROVE UNCHANGED registry
  BY <1>8, ZenonT(30)
  DEF WaitEnds, Caught, Block, Aborted, Fenced, Cancel, Goto, Services, NotResident,
      Record, LosesOwner, Commands, Providers, SettleFails, Spend, Deadline, registry,
      work
<1>9. ASSUME NEW r \in Request, Release(r) \/ Seal(r) \/ Sealed(r) \/ Close(r)
         \/ ReleaseOwner(r) \/ ReleaseFails(r) \/ LedgerFails(r)
      PROVE UNCHANGED registry
  BY <1>9, ZenonT(30)
  DEF Release, Goto, Seal, Sealed, Close, ReleaseOwner, ReleaseFails, Caught, Block,
      Aborted, Spend, LedgerFails, registry, work
<1>10. ASSUME Disposed \/ RunStart \/ RunEnd \/ Open \/ EvictIdle \/ Receive \/ Received
      PROVE UNCHANGED registry
  BY <1>10, ZenonT(30)
  DEF Disposed, RunStart, RunEnd, Open, EvictIdle, Receive, Received, registry, work
<1>11. CASE UNCHANGED vars
  BY <1>11 DEF vars, registry, work, RegistryFlags
<1>12. ASSUME UNCHANGED registry PROVE RegistryFlags'
  BY <1>12 DEF RegistryFlags, registry
<1> QED
  BY <1>1, <1>2, <1>3, <1>4, <1>5, <1>6, <1>7, <1>8, <1>9, <1>10, <1>11, <1>12
  DEF Next, AtWork, Asked, Settle, Complete

\* Every step keeps the types of the flags of the session.
LEMMA SessionFlagsStep ==
  ASSUME SessionFlags, [Next]_vars PROVE SessionFlags'
<1>1. ASSUME NEW r \in Request, Services(r) PROVE SessionFlags'
  BY <1>1, ZenonT(30) DEF Services, Goto, SessionFlags, session, work
<1>2. ASSUME Disposed PROVE SessionFlags'
  BY <1>2, ZenonT(30) DEF Disposed, SessionFlags, session, work
<1>3. ASSUME DisposeFails PROVE SessionFlags'
  BY <1>3, ZenonT(30) DEF DisposeFails, Block, Aborted, Spend, SessionFlags, session, work
<1>4. ASSUME Open PROVE SessionFlags'
  BY <1>4, ZenonT(30) DEF Open, SessionFlags, session, work
<1>5. ASSUME EvictIdle PROVE SessionFlags'
  BY <1>5, ZenonT(30) DEF EvictIdle, SessionFlags, session, work
<1>6. ASSUME NEW r \in Request, PrepareRefused(r) \/ PrepareFails(r) \/ Prepare(r) \/ Commit(r)
         \/ CommitFails(r) \/ SendAccepted(r) \/ SendUncommitted(r) \/ Throw(r)
      PROVE UNCHANGED session
  BY <1>6, ZenonT(30)
  DEF PrepareRefused, PrepareFails, Block, Aborted, Prepare, Supersede, Commit,
      CommitFails, Spend, SendAccepted, Started, Start, Stop, SendUncommitted, Resume,
      Throw, session, work
<1>7. ASSUME NEW r \in Request, Waited(r) \/ WaitEnds(r) \/ Fenced(r) \/ Cancel(r)
         \/ NotResident(r) \/ Record(r) \/ LosesOwner(r) \/ Commands(r) \/ Providers(r)
         \/ SettleFails(r) \/ Deadline(r)
      PROVE UNCHANGED session
  BY <1>7, ZenonT(30)
  DEF Waited, Stop, Goto, WaitEnds, Caught, Block, Aborted, Fenced, Cancel, NotResident,
      Record, LosesOwner, Commands, Providers, SettleFails, Spend, Deadline, session, work
<1>8. ASSUME NEW r \in Request, Release(r) \/ Seal(r) \/ Sealed(r) \/ Close(r)
         \/ ReleaseOwner(r) \/ ReleaseFails(r) \/ LedgerFails(r)
      PROVE UNCHANGED session
  BY <1>8, ZenonT(30)
  DEF Release, Goto, Seal, Sealed, Close, ReleaseOwner, ReleaseFails, Caught, Block,
      Aborted, Spend, LedgerFails, session, work
<1>9. ASSUME RunStart \/ RunEnd \/ Receive \/ Received \/ OwnerLost
      PROVE UNCHANGED session
  BY <1>9, ZenonT(30)
  DEF RunStart, RunEnd, Receive, Received, OwnerLost, Block, Aborted, Spend, session, work
<1>10. CASE UNCHANGED vars
  BY <1>10 DEF vars, session, work, SessionFlags
<1>11. ASSUME UNCHANGED session PROVE SessionFlags'
  BY <1>11 DEF SessionFlags, session
<1> QED
  BY <1>1, <1>2, <1>3, <1>4, <1>5, <1>6, <1>7, <1>8, <1>9, <1>10, <1>11
  DEF Next, AtWork, Asked, Settle, Complete

\* Every step keeps the types of the flags of the run and the broker.
LEMMA WorkFlagsStep ==
  ASSUME WorkFlags, [Next]_vars PROVE WorkFlags'
<1>1. ASSUME NEW r \in Request, SendAccepted(r) PROVE WorkFlags'
  BY <1>1, ZenonT(30) DEF SendAccepted, Started, Start, Stop, WorkFlags, work
<1>2. ASSUME NEW r \in Request, SendUncommitted(r) PROVE WorkFlags'
  BY <1>2, ZenonT(30) DEF SendUncommitted, Block, Aborted, Resume, WorkFlags, work
<1>3. ASSUME NEW r \in Request, Waited(r) PROVE WorkFlags'
  BY <1>3, ZenonT(30) DEF Waited, Stop, Goto, WorkFlags, work
<1>4. ASSUME NEW r \in Request, Cancel(r) PROVE WorkFlags'
  BY <1>4, ZenonT(30) DEF Cancel, Goto, WorkFlags, work
<1>5. ASSUME NEW r \in Request, Record(r) PROVE WorkFlags'
  BY <1>5, ZenonT(30) DEF Record, Goto, Caught, Block, Aborted, WorkFlags, work
<1>6. ASSUME RunStart PROVE WorkFlags'
  BY <1>6, ZenonT(30) DEF RunStart, WorkFlags, work
<1>7. ASSUME RunEnd PROVE WorkFlags'
  BY <1>7, ZenonT(30) DEF RunEnd, WorkFlags, work
<1>8. ASSUME NEW r \in Request, PrepareRefused(r) \/ PrepareFails(r) \/ Prepare(r) \/ Commit(r)
         \/ CommitFails(r) \/ Throw(r)
      PROVE UNCHANGED <<drained, run, marked, cut>>
  BY <1>8, ZenonT(30)
  DEF PrepareRefused, PrepareFails, Block, Aborted, Prepare, Supersede, Commit,
      CommitFails, Spend, Throw, work
<1>9. ASSUME NEW r \in Request, WaitEnds(r) \/ Fenced(r) \/ Services(r) \/ NotResident(r)
         \/ LosesOwner(r) \/ Commands(r) \/ Providers(r) \/ SettleFails(r) \/ Deadline(r)
      PROVE UNCHANGED <<drained, run, marked, cut>>
  BY <1>9, ZenonT(30)
  DEF WaitEnds, Caught, Block, Aborted, Fenced, Services, Goto, NotResident, LosesOwner,
      Commands, Providers, SettleFails, Spend, Deadline, work
<1>10. ASSUME NEW r \in Request, Release(r) \/ Seal(r) \/ Sealed(r) \/ Close(r)
         \/ ReleaseOwner(r) \/ ReleaseFails(r) \/ LedgerFails(r)
      PROVE UNCHANGED <<drained, run, marked, cut>>
  BY <1>10, ZenonT(30)
  DEF Release, Goto, Seal, Sealed, Close, ReleaseOwner, ReleaseFails, Caught, Block,
      Aborted, Spend, LedgerFails, work
<1>11. ASSUME Disposed \/ DisposeFails \/ Open \/ EvictIdle \/ Receive \/ Received \/ OwnerLost
      PROVE UNCHANGED <<drained, run, marked, cut>>
  BY <1>11, ZenonT(30)
  DEF Disposed, DisposeFails, Block, Aborted, Spend, Open, EvictIdle, Receive, Received,
      OwnerLost, work
<1>12. CASE UNCHANGED vars
  BY <1>12 DEF vars, work, WorkFlags
<1>13. ASSUME UNCHANGED <<drained, run, marked, cut>> PROVE WorkFlags'
  BY <1>13 DEF WorkFlags
<1> QED
  BY <1>1, <1>2, <1>3, <1>4, <1>5, <1>6, <1>7, <1>8, <1>9, <1>10, <1>11, <1>12, <1>13
  DEF Next, AtWork, Asked, Settle, Complete

\* Every step keeps the types of the flags of the server and the store.
LEMMA EndFlagsStep ==
  ASSUME EndFlags, [Next]_vars PROVE EndFlags'
<1>1. ASSUME NEW r \in Request, Seal(r) PROVE EndFlags'
  BY <1>1, ZenonT(30) DEF Seal, EndFlags, ends
<1>2. ASSUME NEW r \in Request, Close(r) PROVE EndFlags'
  BY <1>2, ZenonT(30) DEF Close, Goto, EndFlags, ends
<1>3. ASSUME Receive PROVE EndFlags'
  BY <1>3, ZenonT(30) DEF Receive, EndFlags, ends
<1>4. ASSUME Received PROVE EndFlags'
  BY <1>4, ZenonT(30) DEF Received, Spend, EndFlags, ends
<1>5. ASSUME NEW r \in Request, PrepareRefused(r) \/ PrepareFails(r) \/ Prepare(r) \/ Commit(r)
         \/ CommitFails(r) \/ SendAccepted(r) \/ SendUncommitted(r) \/ Throw(r)
      PROVE UNCHANGED <<receiving, spoiled, sealed, store>>
  BY <1>5, ZenonT(30)
  DEF PrepareRefused, PrepareFails, Block, Aborted, Prepare, Supersede, Commit,
      CommitFails, Spend, SendAccepted, Started, Start, Stop, SendUncommitted, Resume,
      Throw, ends
<1>6. ASSUME NEW r \in Request, Waited(r) \/ WaitEnds(r) \/ Fenced(r) \/ Cancel(r)
         \/ Services(r) \/ NotResident(r) \/ Record(r) \/ LosesOwner(r) \/ Commands(r)
         \/ Providers(r) \/ SettleFails(r) \/ Deadline(r)
      PROVE UNCHANGED <<receiving, spoiled, sealed, store>>
  BY <1>6, ZenonT(30)
  DEF Waited, Stop, Goto, WaitEnds, Caught, Block, Aborted, Fenced, Cancel, Services,
      NotResident, Record, LosesOwner, Commands, Providers, SettleFails, Spend, Deadline,
      ends
<1>7. ASSUME NEW r \in Request, Release(r) \/ Sealed(r) \/ ReleaseOwner(r) \/ ReleaseFails(r)
         \/ LedgerFails(r)
      PROVE UNCHANGED <<receiving, spoiled, sealed, store>>
  BY <1>7, ZenonT(30)
  DEF Release, Goto, Sealed, ReleaseOwner, ReleaseFails, Caught, Block, Aborted, Spend,
      LedgerFails, ends
<1>8. ASSUME Disposed \/ DisposeFails \/ RunStart \/ RunEnd \/ Open \/ EvictIdle \/ OwnerLost
      PROVE UNCHANGED <<receiving, spoiled, sealed, store>>
  BY <1>8, ZenonT(30)
  DEF Disposed, DisposeFails, Block, Aborted, Spend, RunStart, RunEnd, Open, EvictIdle,
      OwnerLost, ends
<1>9. CASE UNCHANGED vars
  BY <1>9 DEF vars, ends, EndFlags
<1>10. ASSUME UNCHANGED <<receiving, spoiled, sealed, store>> PROVE EndFlags'
  BY <1>10 DEF EndFlags
<1> QED
  BY <1>1, <1>2, <1>3, <1>4, <1>5, <1>6, <1>7, <1>8, <1>9, <1>10
  DEF Next, AtWork, Asked, Settle, Complete

\* What blocks, resumes or supersedes starts a new generation.
LEMMA NewGeneration ==
  ASSUME Jobs, generation' = generation + 1 PROVE generation' \in Nat /\ of \in [Request -> 0..generation']
<1>1. generation \in Nat /\ of \in [Request -> 0..generation]
  BY DEF Jobs
<1>2. ASSUME NEW r \in Request PROVE of[r] \in 0..(generation + 1)
  BY <1>1
<1> QED
  BY <1>1, <1>2

\* What a job is when another request or a failure ends it.
LEMMA AbortedTypes ==
  ASSUME Jobs PROVE Aborted \in [Request -> BOOLEAN]
BY DEF Jobs, Aborted

\* A job that goes on, and one that ends with an error, keep the types of the jobs.
LEMMA GotoTypes ==
  ASSUME Jobs, NEW r \in Request, NEW step \in Steps, Goto(r, step) PROVE Jobs'
BY DEF Jobs, Goto, machine

LEMMA CaughtTypes ==
  ASSUME Jobs, NEW r \in Request, NEW retryable, Caught(r, retryable) PROVE Jobs'
<1>1. at' = [at EXCEPT ![r] = "over"] /\ UNCHANGED <<of, raced>>
  BY DEF Caught
<1>2. CASE Stale(r)
  BY <1>1, <1>2 DEF Jobs, Caught, Steps, machine
<1>3. CASE ~Stale(r)
  <2>1. host' = "blocked" /\ generation' = generation + 1 /\ pending' = None /\ aborted' = Aborted
    BY <1>3 DEF Caught, Block
  <2> QED
    BY <1>1, <2>1, NewGeneration, AbortedTypes DEF Jobs, Steps
<1> QED
  BY <1>2, <1>3

LEMMA UnchangedJobs ==
  ASSUME Jobs, UNCHANGED <<host, generation, pending, job>> PROVE Jobs'
BY DEF Jobs, job

\* Every step keeps the types of the jobs.
LEMMA JobsStep ==
  ASSUME Jobs, [Next]_vars PROVE Jobs'
<1>1. ASSUME NEW r \in Request, PrepareFails(r) PROVE Jobs'
  BY <1>1, SMTT(20) DEF PrepareFails, Block, Aborted, Jobs, None, Steps, machine, job
<1>2. ASSUME NEW r \in Request, Prepare(r) PROVE Jobs'
  <2>1. CASE Merges(r)
    BY <1>2, <2>1, UnchangedJobs DEF Prepare, machine
  <2>2. CASE ~Merges(r)
    BY <1>2, <2>2, NewGeneration, AbortedTypes DEF Prepare, Supersede, Jobs
  <2> QED
    BY <2>1, <2>2
<1>3. ASSUME NEW r \in Request, SendAccepted(r) PROVE Jobs'
  BY <1>3, SMTT(20) DEF SendAccepted, Started, Start, Stop, Jobs, None, Steps, machine, job
<1>4. ASSUME NEW r \in Request, SendUncommitted(r) PROVE Jobs'
  <2>1. CASE host = "draining" /\ pending = r /\ asked
    BY <1>4, <2>1, NewGeneration, AbortedTypes DEF SendUncommitted, Resume, Block, Jobs
  <2>2. CASE ~(host = "draining" /\ pending = r /\ asked)
    BY <1>4, <2>2, UnchangedJobs DEF SendUncommitted
  <2> QED
    BY <2>1, <2>2
<1>5. ASSUME NEW r \in Request, Waited(r) PROVE Jobs'
  BY <1>5, GotoTypes, SMTT(20) DEF Waited, Stop, Jobs, None, Steps, machine, job
<1>6. ASSUME NEW r \in Request, WaitEnds(r) PROVE Jobs'
  BY <1>6, CaughtTypes, Zenon DEF WaitEnds
<1>7. ASSUME NEW r \in Request, Fenced(r) PROVE Jobs'
  BY <1>7, CaughtTypes, Zenon DEF Fenced
<1>8. ASSUME NEW r \in Request, Cancel(r) PROVE Jobs'
  BY <1>8, GotoTypes, SMTT(20) DEF Cancel, Jobs, None, Steps, machine, job
<1>9. ASSUME NEW r \in Request, Services(r) PROVE Jobs'
  BY <1>9, GotoTypes, SMTT(20) DEF Services, Jobs, None, Steps, machine, job
<1>10. ASSUME NEW r \in Request, NotResident(r) PROVE Jobs'
  BY <1>10, CaughtTypes, Zenon DEF NotResident
<1>11. ASSUME NEW r \in Request, Record(r) PROVE Jobs'
  BY <1>11, CaughtTypes, GotoTypes, Zenon DEF Record, Steps
<1>12. ASSUME NEW r \in Request, LosesOwner(r) PROVE Jobs'
  BY <1>12, CaughtTypes, Zenon DEF LosesOwner
<1>13. ASSUME NEW r \in Request, Commands(r) PROVE Jobs'
  BY <1>13, CaughtTypes, GotoTypes, Zenon DEF Commands, Steps
<1>14. ASSUME NEW r \in Request, Providers(r) PROVE Jobs'
  BY <1>14, CaughtTypes, GotoTypes, Zenon DEF Providers, Steps
<1>15. ASSUME NEW r \in Request, SettleFails(r) PROVE Jobs'
  BY <1>15, CaughtTypes, Zenon DEF SettleFails
<1>16. ASSUME NEW r \in Request, Deadline(r) PROVE Jobs'
  BY <1>16, SMTT(20) DEF Deadline, Block, Jobs, None, Steps, machine, job
<1>17. ASSUME NEW r \in Request, Release(r) PROVE Jobs'
  BY <1>17, SMTT(20) DEF Release, Goto, Jobs, None, Steps, machine, job
<1>18. ASSUME NEW r \in Request, Sealed(r) PROVE Jobs'
  BY <1>18, CaughtTypes, GotoTypes, Zenon DEF Sealed, Steps
<1>19. ASSUME NEW r \in Request, Close(r) PROVE Jobs'
  BY <1>19, GotoTypes, SMTT(20) DEF Close, Jobs, None, Steps, machine, job
<1>20. ASSUME NEW r \in Request, ReleaseOwner(r) PROVE Jobs'
  BY <1>20, SMTT(20) DEF ReleaseOwner, Jobs, None, Steps, machine, job
<1>21. ASSUME NEW r \in Request, ReleaseFails(r) PROVE Jobs'
  BY <1>21, CaughtTypes, Zenon DEF ReleaseFails
<1>22. ASSUME NEW r \in Request, LedgerFails(r) PROVE Jobs'
  BY <1>22, CaughtTypes, Zenon DEF LedgerFails
<1>23. ASSUME Disposed PROVE Jobs'
  BY <1>23, SMTT(20) DEF Disposed, Jobs, None, Steps, machine, job
<1>24. ASSUME DisposeFails PROVE Jobs'
  <2>1. /\ host' \in {"blocked", host} /\ pending' \in {None, pending}
        /\ generation' = generation + 1 \/ generation' = generation
    BY <1>24 DEF DisposeFails, Block
  <2>2. at' \in [Request -> Steps]
    BY <1>24 DEF DisposeFails, Jobs, Steps
  <2>3. aborted' \in [Request -> BOOLEAN]
    BY <1>24, AbortedTypes DEF DisposeFails, Jobs
  <2>4. raced' = raced /\ of' = of
    BY <1>24 DEF DisposeFails
  <2> QED
    BY <2>1, <2>2, <2>3, <2>4, NewGeneration DEF Jobs
<1>25. ASSUME OwnerLost PROVE Jobs'
  BY <1>25, SMTT(20) DEF OwnerLost, Block, Aborted, Spend, Jobs, None, Steps, machine, job
<1>26. ASSUME NEW r \in Request, PrepareRefused(r) \/ Commit(r) \/ CommitFails(r) \/ Throw(r)
      PROVE UNCHANGED <<host, generation, pending, job>>
  BY <1>26, ZenonT(30) DEF PrepareRefused, Commit, CommitFails, Spend, Throw, machine, job
<1>27. ASSUME NEW r \in Request, Seal(r)
      PROVE UNCHANGED <<host, generation, pending, job>>
  BY <1>27, ZenonT(30) DEF Seal, machine, job
<1>28. ASSUME RunStart \/ RunEnd \/ Open \/ EvictIdle \/ Receive \/ Received
      PROVE UNCHANGED <<host, generation, pending, job>>
  BY <1>28, ZenonT(30) DEF RunStart, RunEnd, Open, EvictIdle, Receive, Received, machine, job
<1>29. CASE UNCHANGED vars
  BY <1>29 DEF vars, machine, job, Jobs
<1>30. ASSUME UNCHANGED <<host, generation, pending, job>> PROVE Jobs'
  BY <1>30, UnchangedJobs
<1> QED
  BY <1>1, <1>2, <1>3, <1>4, <1>5, <1>6, <1>7, <1>8, <1>9, <1>10, <1>11, <1>12, <1>13,
    <1>14, <1>15, <1>16, <1>17, <1>18, <1>19, <1>20, <1>21, <1>22, <1>23, <1>24, <1>25,
    <1>26, <1>27, <1>28, <1>29, <1>30
  DEF Next, AtWork, Asked, Settle, Complete

\* Every step keeps the types of outcomes, rows, locks and faults.
LEMMA RowsStep ==
  ASSUME Rows, [Next]_vars PROVE Rows'
<1> USE LifecycleAssumption
<1>1. ASSUME NEW r \in Request, PrepareRefused(r) PROVE Rows'
  BY <1>1, SMTT(20) DEF PrepareRefused, Rows, work, ends
<1>2. ASSUME NEW r \in Request, PrepareFails(r) PROVE Rows'
  BY <1>2, SMTT(20) DEF PrepareFails, Block, Aborted, Rows, work, ends
<1>3. ASSUME NEW r \in Request, Prepare(r) PROVE Rows'
  BY <1>3, SMTT(20) DEF Prepare, Supersede, Aborted, Rows, work, ends
<1>4. ASSUME NEW r \in Request, Commit(r) PROVE Rows'
  BY <1>4, SMTT(20) DEF Commit, Rows, work, ends
<1>5. ASSUME NEW r \in Request, CommitFails(r) PROVE Rows'
  BY <1>5, SMTT(20) DEF CommitFails, Spend, Rows, work, ends
<1>6. ASSUME NEW r \in Request, SendAccepted(r) PROVE Rows'
  BY <1>6, SMTT(20) DEF SendAccepted, Started, Start, Stop, Rows, work, ends
<1>7. ASSUME NEW r \in Request, SendUncommitted(r) PROVE Rows'
  BY <1>7, SMTT(20) DEF SendUncommitted, Block, Aborted, Resume, Rows, work, ends
<1>8. ASSUME NEW r \in Request, Throw(r) PROVE Rows'
  BY <1>8, SMTT(20) DEF Throw, Rows, work, ends
<1>9. ASSUME NEW r \in Request, Cancel(r) PROVE Rows'
  BY <1>9, SMTT(20) DEF Cancel, Goto, Rows, work, ends
<1>10. ASSUME NEW r \in Request, Record(r) PROVE Rows'
  BY <1>10, SMTT(20) DEF Record, Goto, Caught, Block, Aborted, Rows, work, ends
<1>11. ASSUME RunStart PROVE Rows'
  BY <1>11, SMTT(20) DEF RunStart, Rows, work, ends
<1>12. ASSUME RunEnd PROVE Rows'
  BY <1>12, SMTT(20) DEF RunEnd, Rows, work, ends
<1>13. ASSUME NEW r \in Request, ReleaseOwner(r) PROVE Rows'
  BY <1>13, SMTT(20) DEF ReleaseOwner, Rows, work, ends
<1>14. ASSUME NEW r \in Request, LedgerFails(r) PROVE Rows'
  BY <1>14, SMTT(20) DEF LedgerFails, Caught, Block, Aborted, Spend, Rows, work, ends
<1>15. ASSUME OwnerLost PROVE Rows'
  BY <1>15, SMTT(20) DEF OwnerLost, Block, Aborted, Spend, Rows, work, ends
<1>16. ASSUME NEW r \in Request, SettleFails(r) PROVE Rows'
  BY <1>16, SMTT(20) DEF SettleFails, Caught, Block, Aborted, Spend, Rows, work, ends
<1>17. ASSUME NEW r \in Request, ReleaseFails(r) PROVE Rows'
  BY <1>17, SMTT(20) DEF ReleaseFails, Caught, Block, Aborted, Spend, Rows, work, ends
<1>18. ASSUME DisposeFails PROVE Rows'
  BY <1>18, SMTT(20) DEF DisposeFails, Block, Aborted, Spend, Rows, work, ends
<1>19. ASSUME NEW r \in Request, Waited(r) \/ WaitEnds(r) \/ Fenced(r) \/ Services(r)
         \/ NotResident(r) \/ LosesOwner(r) \/ Commands(r) \/ Providers(r) \/ Deadline(r)
      PROVE UNCHANGED <<reply, row, owner, faults>>
  BY <1>19, ZenonT(30)
  DEF Waited, Stop, Goto, WaitEnds, Caught, Block, Aborted, Fenced, Services,
      NotResident, LosesOwner, Commands, Providers, Deadline, work, ends
<1>20. ASSUME NEW r \in Request, Release(r) \/ Seal(r) \/ Sealed(r) \/ Close(r)
      PROVE UNCHANGED <<reply, row, owner, faults>>
  BY <1>20, ZenonT(30) DEF Release, Goto, Seal, Sealed, Close, work, ends
<1>21. ASSUME Disposed \/ Open \/ EvictIdle \/ Receive
      PROVE UNCHANGED <<reply, row, owner, faults>>
  BY <1>21, ZenonT(30) DEF Disposed, Open, EvictIdle, Receive, work, ends
<1>24. ASSUME Received PROVE Rows'
  BY <1>24, SMTT(20) DEF Received, Spend, Rows, work
<1>22. CASE UNCHANGED vars
  BY <1>22 DEF vars, work, ends, Rows
<1>23. ASSUME UNCHANGED <<reply, row, owner, faults>> PROVE Rows'
  BY <1>23 DEF Rows
<1> QED
  BY <1>1, <1>2, <1>3, <1>4, <1>5, <1>6, <1>7, <1>8, <1>9, <1>10, <1>11, <1>12, <1>13,
    <1>14, <1>15, <1>16, <1>17, <1>18, <1>19, <1>20, <1>21, <1>22, <1>23, <1>24
  DEF Next, AtWork, Asked, Settle, Complete

LEMMA TypeStep ==
  ASSUME TypeOK, [Next]_vars PROVE TypeOK'
<1>1. MachineFlags /\ RegistryFlags /\ SessionFlags /\ WorkFlags /\ EndFlags /\ Jobs /\ Rows
  BY TypeParts
<1>2. MachineFlags' /\ RegistryFlags' /\ SessionFlags' /\ WorkFlags' /\ EndFlags'
  BY <1>1, MachineFlagsStep, RegistryFlagsStep, SessionFlagsStep, WorkFlagsStep, EndFlagsStep
<1>3. Jobs' /\ Rows'
  BY <1>1, JobsStep, RowsStep
<1> QED
  BY <1>2, <1>3, Zenon
  DEF TypeOK, MachineFlags, RegistryFlags, SessionFlags, WorkFlags, EndFlags, Jobs, Rows

-----------------------------------------------------------------------------
(* The strengthening, part by part. *)

\* One job at most has the generation of the host, and it was asked for and told.
LEMMA SerialStep ==
  ASSUME TypeOK, TypeOK', Serial, Gone, [Next]_vars PROVE Serial'
<1> USE LifecycleAssumption
    DEF TypeOK, None, Serial, Gone, Releasing, PastDispose, PastRecord
<1>1. ASSUME NEW r \in Request, PrepareRefused(r) PROVE Serial'
  BY <1>1, SMTT(30)
  DEF PrepareRefused, Refused, CanRetry, Current, job, work, registry, session, ends
<1>2. ASSUME NEW r \in Request, PrepareFails(r) PROVE Serial'
  BY <1>2, SMTT(30)
  DEF PrepareFails, Block, Aborted, Refused, MayDrain, Admits, CanRetry, Current, work,
      registry, session, ends
<1>3. ASSUME NEW r \in Request, Prepare(r) PROVE Serial'
  BY <1>3, SMTT(30)
  DEF Prepare, Refused, Merges, MayDrain, Admits, Current, Supersede, Aborted, machine,
      job, session, ends
<1>4. ASSUME NEW r \in Request, Commit(r) PROVE Serial'
  BY <1>4, SMTT(30) DEF Commit, Current, machine, job, work, registry, session, ends
<1>5. ASSUME NEW r \in Request, CommitFails(r) PROVE Serial'
  BY <1>5, SMTT(30) DEF CommitFails, Current, Spend, machine, job, work, registry, session, ends
<1>6. ASSUME NEW r \in Request, SendAccepted(r) PROVE Serial'
  BY <1>6, SMTT(30) DEF SendAccepted, Started, Start, Stop, job, work, registry, session, ends
<1>7. ASSUME NEW r \in Request, SendUncommitted(r) PROVE Serial'
  BY <1>7, SMTT(30)
  DEF SendUncommitted, Aborted, Resume, Block, Admits, CanRetry, Current, job, work,
      registry, session, ends
<1>8. ASSUME NEW r \in Request, Throw(r) PROVE Serial'
  BY <1>8, SMTT(30) DEF Throw, machine, job, work, registry, session, ends
<1>9. ASSUME NEW r \in Request, Waited(r) PROVE Serial'
  BY <1>9, SMTT(30) DEF Waited, At, Admits, Current, Stop, Goto, machine, session, ends
<1>10. ASSUME NEW r \in Request, WaitEnds(r) PROVE Serial'
  BY <1>10, SMTT(30)
  DEF WaitEnds, At, Caught, Stale, Aborted, Block, CanRetry, Current, Admits, machine,
      work, registry, session, ends
<1>11. ASSUME NEW r \in Request, Fenced(r) PROVE Serial'
  BY <1>11, SMTT(30)
  DEF Fenced, At, Caught, Stale, Aborted, Block, CanRetry, Current, machine, work,
      registry, session, ends
<1>12. ASSUME NEW r \in Request, Cancel(r) PROVE Serial'
  BY <1>12, SMTT(30) DEF Cancel, At, Goto, machine, registry, session, ends
<1>13. ASSUME NEW r \in Request, Services(r) PROVE Serial'
  BY <1>13, SMTT(30) DEF Services, At, Goto, machine, registry, ends
<1>14. ASSUME NEW r \in Request, NotResident(r) PROVE Serial'
  BY <1>14, SMTT(30)
  DEF NotResident, At, Caught, Stale, Aborted, Block, CanRetry, Current, machine, work,
      registry, session, ends
<1>15. ASSUME NEW r \in Request, Record(r) PROVE Serial'
  BY <1>15, SMTT(30)
  DEF Record, At, Current, Caught, Stale, Aborted, Block, CanRetry, Goto, machine,
      registry, session, ends
<1>16. ASSUME NEW r \in Request, LosesOwner(r) PROVE Serial'
  BY <1>16, SMTT(30)
  DEF LosesOwner, At, Caught, Stale, Aborted, Block, CanRetry, Current, machine, work,
      registry, session, ends
<1>17. ASSUME NEW r \in Request, Commands(r) PROVE Serial'
  BY <1>17, SMTT(30)
  DEF Commands, At, Goto, Caught, Stale, Aborted, Block, CanRetry, Current, machine,
      work, registry, session, ends
<1>18. ASSUME NEW r \in Request, Providers(r) PROVE Serial'
  BY <1>18, SMTT(30)
  DEF Providers, At, Goto, Caught, Stale, Aborted, Block, CanRetry, Current, machine,
      work, registry, session, ends
<1>19. ASSUME NEW r \in Request, SettleFails(r) PROVE Serial'
  BY <1>19, SMTT(30)
  DEF SettleFails, Spend, Caught, Stale, Aborted, Block, CanRetry, Current, machine,
      work, registry, session, ends
<1>20. ASSUME NEW r \in Request, Deadline(r) PROVE Serial'
  BY <1>20, SMTT(30)
  DEF Deadline, Settling, Block, CanRetry, Current, machine, work, registry, session, ends
<1>21. ASSUME NEW r \in Request, Release(r) PROVE Serial'
  BY <1>21, SMTT(30) DEF Release, At, Goto, machine, work, registry, session, ends
<1>22. ASSUME NEW r \in Request, Seal(r) PROVE Serial'
  BY <1>22, SMTT(30) DEF Seal, At, machine, job, work, registry, session
<1>23. ASSUME NEW r \in Request, Sealed(r) PROVE Serial'
  BY <1>23, SMTT(30)
  DEF Sealed, At, Goto, Caught, Stale, Aborted, Block, CanRetry, Current, machine,
      work, registry, session, ends
<1>24. ASSUME NEW r \in Request, Close(r) PROVE Serial'
  BY <1>24, SMTT(30) DEF Close, At, Goto, machine, work, registry, session
<1>25. ASSUME NEW r \in Request, ReleaseOwner(r) PROVE Serial'
  BY <1>25, SMTT(30) DEF ReleaseOwner, At, work, registry, session
<1>26. ASSUME NEW r \in Request, ReleaseFails(r) PROVE Serial'
  BY <1>26, SMTT(30)
  DEF ReleaseFails, At, Spend, Caught, Stale, Aborted, Block, CanRetry, Current, machine,
      work, registry, session, ends
<1>27. ASSUME NEW r \in Request, LedgerFails(r) PROVE Serial'
  BY <1>27, SMTT(30)
  DEF LedgerFails, At, Spend, Caught, Stale, Aborted, Block, CanRetry, Current, machine,
      work, registry, session
<1>28. ASSUME Disposed PROVE Serial'
  BY <1>28, SMTT(30) DEF Disposed, At, Current, machine, registry, ends
<1>29. ASSUME DisposeFails PROVE Serial'
  BY <1>29, SMTT(30) DEF DisposeFails, At, Current, Spend, Aborted, Stale, Block, CanRetry, ends
<1>30. ASSUME RunStart PROVE Serial'
  BY <1>30, SMTT(30) DEF RunStart, Admits, Current, machine, job, registry, session, ends
<1>31. ASSUME RunEnd PROVE Serial'
  BY <1>31, SMTT(30) DEF RunEnd, Current, machine, job, registry, session, ends
<1>32. ASSUME Open PROVE Serial'
  BY <1>32, SMTT(30) DEF Open, Admits, Current, machine, job, registry, ends
<1>33. ASSUME EvictIdle PROVE Serial'
  BY <1>33, SMTT(30) DEF EvictIdle, Admits, Current, machine, job, registry, ends
<1>34. ASSUME Receive PROVE Serial'
  BY <1>34, SMTT(30) DEF Receive, machine, job, work, registry, session
<1>35. ASSUME Received PROVE Serial'
  BY <1>35, SMTT(30) DEF Received, machine, job, work, registry, session
<1>36. ASSUME OwnerLost PROVE Serial'
  BY <1>36, SMTT(30) DEF OwnerLost, Spend, Block, CanRetry, Current, Aborted, session
<1>37. CASE UNCHANGED vars
  BY <1>37 DEF vars, machine, job, work, registry, session, ends
<1> QED
  BY <1>1, <1>2, <1>3, <1>4, <1>5, <1>6, <1>7, <1>8, <1>9, <1>10, <1>11, <1>12, <1>13,
    <1>14, <1>15, <1>16, <1>17, <1>18, <1>19, <1>20, <1>21, <1>22, <1>23, <1>24, <1>25,
    <1>26, <1>27, <1>28, <1>29, <1>30, <1>31, <1>32, <1>33, <1>34, <1>35, <1>36, <1>37
  DEF Next, AtWork, Asked, Settle, Complete

\* What the current job has disposed of stays away.
LEMMA GoneStep ==
  ASSUME TypeOK, TypeOK', Serial, Gone, [Next]_vars PROVE Gone'
<1> USE LifecycleAssumption
    DEF TypeOK, None, Serial, Gone, Releasing, PastDispose, PastRecord
<1>1. ASSUME NEW r \in Request, PrepareRefused(r) PROVE Gone'
  BY <1>1, SMTT(30)
  DEF PrepareRefused, Refused, CanRetry, Current, job, work, registry, session, ends
<1>2. ASSUME NEW r \in Request, PrepareFails(r) PROVE Gone'
  BY <1>2, SMTT(30)
  DEF PrepareFails, Block, Aborted, Refused, MayDrain, Admits, CanRetry, Current, work,
      registry, session, ends
<1>3. ASSUME NEW r \in Request, Prepare(r) PROVE Gone'
  BY <1>3, SMTT(30)
  DEF Prepare, Refused, Merges, MayDrain, Admits, Current, Supersede, Aborted, machine,
      job, session, ends
<1>4. ASSUME NEW r \in Request, Commit(r) PROVE Gone'
  BY <1>4, SMTT(30) DEF Commit, Current, machine, job, work, registry, session, ends
<1>5. ASSUME NEW r \in Request, CommitFails(r) PROVE Gone'
  BY <1>5, SMTT(30) DEF CommitFails, Current, Spend, machine, job, work, registry, session, ends
<1>6. ASSUME NEW r \in Request, SendAccepted(r) PROVE Gone'
  BY <1>6, SMTT(30) DEF SendAccepted, Started, Start, Stop, job, work, registry, session, ends
<1>7. ASSUME NEW r \in Request, SendUncommitted(r) PROVE Gone'
  BY <1>7, SMTT(30)
  DEF SendUncommitted, Aborted, Resume, Block, Admits, CanRetry, Current, job, work,
      registry, session, ends
<1>8. ASSUME NEW r \in Request, Throw(r) PROVE Gone'
  BY <1>8, SMTT(30) DEF Throw, machine, job, work, registry, session, ends
<1>9. ASSUME NEW r \in Request, Waited(r) PROVE Gone'
  BY <1>9, SMTT(30) DEF Waited, At, Admits, Current, Stop, Goto, machine, session, ends
<1>10. ASSUME NEW r \in Request, WaitEnds(r) PROVE Gone'
  BY <1>10, SMTT(30)
  DEF WaitEnds, At, Caught, Stale, Aborted, Block, CanRetry, Current, Admits, machine,
      work, registry, session, ends
<1>11. ASSUME NEW r \in Request, Fenced(r) PROVE Gone'
  BY <1>11, SMTT(30)
  DEF Fenced, At, Caught, Stale, Aborted, Block, CanRetry, Current, machine, work,
      registry, session, ends
<1>12. ASSUME NEW r \in Request, Cancel(r) PROVE Gone'
  BY <1>12, SMTT(30) DEF Cancel, At, Goto, machine, registry, session, ends
<1>13. ASSUME NEW r \in Request, Services(r) PROVE Gone'
  BY <1>13, SMTT(30) DEF Services, At, Goto, machine, registry, ends
<1>14. ASSUME NEW r \in Request, NotResident(r) PROVE Gone'
  BY <1>14, SMTT(30)
  DEF NotResident, At, Caught, Stale, Aborted, Block, CanRetry, Current, machine, work,
      registry, session, ends
<1>15. ASSUME NEW r \in Request, Record(r) PROVE Gone'
  BY <1>15, SMTT(30)
  DEF Record, At, Current, Caught, Stale, Aborted, Block, CanRetry, Goto, machine,
      registry, session, ends
<1>16. ASSUME NEW r \in Request, LosesOwner(r) PROVE Gone'
  BY <1>16, SMTT(30)
  DEF LosesOwner, At, Caught, Stale, Aborted, Block, CanRetry, Current, machine, work,
      registry, session, ends
<1>17. ASSUME NEW r \in Request, Commands(r) PROVE Gone'
  BY <1>17, SMTT(30)
  DEF Commands, At, Goto, Caught, Stale, Aborted, Block, CanRetry, Current, machine,
      work, registry, session, ends
<1>18. ASSUME NEW r \in Request, Providers(r) PROVE Gone'
  BY <1>18, SMTT(30)
  DEF Providers, At, Goto, Caught, Stale, Aborted, Block, CanRetry, Current, machine,
      work, registry, session, ends
<1>19. ASSUME NEW r \in Request, SettleFails(r) PROVE Gone'
  BY <1>19, SMTT(30)
  DEF SettleFails, Spend, Caught, Stale, Aborted, Block, CanRetry, Current, machine,
      work, registry, session, ends
<1>20. ASSUME NEW r \in Request, Deadline(r) PROVE Gone'
  BY <1>20, SMTT(30)
  DEF Deadline, Settling, Block, CanRetry, Current, machine, work, registry, session, ends
<1>21. ASSUME NEW r \in Request, Release(r) PROVE Gone'
  BY <1>21, SMTT(30) DEF Release, At, Goto, machine, work, registry, session, ends
<1>22. ASSUME NEW r \in Request, Seal(r) PROVE Gone'
  BY <1>22, SMTT(30) DEF Seal, At, machine, job, work, registry, session
<1>23. ASSUME NEW r \in Request, Sealed(r) PROVE Gone'
  BY <1>23, SMTT(30)
  DEF Sealed, At, Goto, Caught, Stale, Aborted, Block, CanRetry, Current, machine,
      work, registry, session, ends
<1>24. ASSUME NEW r \in Request, Close(r) PROVE Gone'
  BY <1>24, SMTT(30) DEF Close, At, Goto, machine, work, registry, session
<1>25. ASSUME NEW r \in Request, ReleaseOwner(r) PROVE Gone'
  BY <1>25, SMTT(30) DEF ReleaseOwner, At, work, registry, session
<1>26. ASSUME NEW r \in Request, ReleaseFails(r) PROVE Gone'
  BY <1>26, SMTT(30)
  DEF ReleaseFails, At, Spend, Caught, Stale, Aborted, Block, CanRetry, Current, machine,
      work, registry, session, ends
<1>27. ASSUME NEW r \in Request, LedgerFails(r) PROVE Gone'
  BY <1>27, SMTT(30)
  DEF LedgerFails, At, Spend, Caught, Stale, Aborted, Block, CanRetry, Current, machine,
      work, registry, session
<1>28. ASSUME Disposed PROVE Gone'
  BY <1>28, SMTT(30) DEF Disposed, At, Current, machine, registry, ends
<1>29. ASSUME DisposeFails PROVE Gone'
  BY <1>29, SMTT(30) DEF DisposeFails, At, Current, Spend, Aborted, Stale, Block, CanRetry, ends
<1>30. ASSUME RunStart PROVE Gone'
  BY <1>30, SMTT(30) DEF RunStart, Admits, Current, machine, job, registry, session, ends
<1>31. ASSUME RunEnd PROVE Gone'
  BY <1>31, SMTT(30) DEF RunEnd, Current, machine, job, registry, session, ends
<1>32. ASSUME Open PROVE Gone'
  BY <1>32, SMTT(30) DEF Open, Admits, Current, machine, job, registry, ends
<1>33. ASSUME EvictIdle PROVE Gone'
  BY <1>33, SMTT(30) DEF EvictIdle, Admits, Current, machine, job, registry, ends
<1>34. ASSUME Receive PROVE Gone'
  BY <1>34, SMTT(30) DEF Receive, machine, job, work, registry, session
<1>35. ASSUME Received PROVE Gone'
  BY <1>35, SMTT(30) DEF Received, machine, job, work, registry, session
<1>36. ASSUME OwnerLost PROVE Gone'
  BY <1>36, SMTT(30) DEF OwnerLost, Spend, Block, CanRetry, Current, Aborted, session
<1>37. CASE UNCHANGED vars
  BY <1>37 DEF vars, machine, job, work, registry, session, ends
<1> QED
  BY <1>1, <1>2, <1>3, <1>4, <1>5, <1>6, <1>7, <1>8, <1>9, <1>10, <1>11, <1>12, <1>13,
    <1>14, <1>15, <1>16, <1>17, <1>18, <1>19, <1>20, <1>21, <1>22, <1>23, <1>24, <1>25,
    <1>26, <1>27, <1>28, <1>29, <1>30, <1>31, <1>32, <1>33, <1>34, <1>35, <1>36, <1>37
  DEF Next, AtWork, Asked, Settle, Complete

\* What a job has left behind, it or an older one, is not at work again.
LEMMA WorkStep ==
  ASSUME TypeOK, TypeOK', Serial, Gone, Work, [Next]_vars PROVE Work'
<1> USE LifecycleAssumption
    DEF TypeOK, None, Serial, Gone, Work, Clean, Releasing, PastCancel, PastDispose,
        PastRecord, Current
<1>1. ASSUME NEW r \in Request, PrepareRefused(r) PROVE Work'
  BY <1>1, SMTT(30) DEF PrepareRefused, Refused, CanRetry, job, work, registry, session, ends
<1>2. ASSUME NEW r \in Request, PrepareFails(r) PROVE Work'
  BY <1>2, SMTT(30)
  DEF PrepareFails, Block, Aborted, Refused, MayDrain, Admits, CanRetry, work, registry,
      session, ends
<1>3. ASSUME NEW r \in Request, Prepare(r) PROVE Work'
  BY <1>3, SMTT(30)
  DEF Prepare, Refused, Merges, MayDrain, Admits, Supersede, Aborted, machine, job,
      session, ends
<1>4. ASSUME NEW r \in Request, Commit(r) PROVE Work'
  BY <1>4, SMTT(30) DEF Commit, machine, job, work, registry, session, ends
<1>5. ASSUME NEW r \in Request, CommitFails(r) PROVE Work'
  BY <1>5, SMTT(30) DEF CommitFails, Spend, machine, job, work, registry, session, ends
<1>6. ASSUME NEW r \in Request, SendAccepted(r) PROVE Work'
  BY <1>6, SMTT(30) DEF SendAccepted, Started, Start, Stop, job, work, registry, session, ends
<1>7. ASSUME NEW r \in Request, SendUncommitted(r) PROVE Work'
  BY <1>7, SMTT(30)
  DEF SendUncommitted, Aborted, Resume, Block, Admits, CanRetry, job, work, registry,
      session, ends
<1>8. ASSUME NEW r \in Request, Throw(r) PROVE Work'
  BY <1>8, SMTT(30) DEF Throw, machine, job, work, registry, session, ends
<1>9. ASSUME NEW r \in Request, Waited(r) PROVE Work'
  BY <1>9, SMTT(30) DEF Waited, At, Admits, Stop, Goto, machine, session, ends
<1>10. ASSUME NEW r \in Request, WaitEnds(r) PROVE Work'
  BY <1>10, SMTT(30)
  DEF WaitEnds, At, Caught, Stale, Aborted, Block, CanRetry, Admits, machine, work,
      registry, session, ends
<1>11. ASSUME NEW r \in Request, Fenced(r) PROVE Work'
  BY <1>11, SMTT(30)
  DEF Fenced, At, Caught, Stale, Aborted, Block, CanRetry, machine, work, registry,
      session, ends
<1>12. ASSUME NEW r \in Request, Cancel(r) PROVE Work'
  BY <1>12, SMTT(30) DEF Cancel, At, Goto, machine, registry, session, ends
<1>13. ASSUME NEW r \in Request, Services(r) PROVE Work'
  BY <1>13, SMTT(30) DEF Services, At, Goto, machine, registry, ends
<1>14. ASSUME NEW r \in Request, NotResident(r) PROVE Work'
  BY <1>14, SMTT(30)
  DEF NotResident, At, Caught, Stale, Aborted, Block, CanRetry, machine, work, registry,
      session, ends
<1>15. ASSUME NEW r \in Request, Record(r) PROVE Work'
  BY <1>15, SMTT(30)
  DEF Record, At, Caught, Stale, Aborted, Block, CanRetry, Goto, machine, registry,
      session, ends
<1>16. ASSUME NEW r \in Request, LosesOwner(r) PROVE Work'
  BY <1>16, SMTT(30)
  DEF LosesOwner, At, Caught, Stale, Aborted, Block, CanRetry, machine, work, registry,
      session, ends
<1>17. ASSUME NEW r \in Request, Commands(r) PROVE Work'
  BY <1>17, SMTT(30)
  DEF Commands, At, Goto, Caught, Stale, Aborted, Block, CanRetry, Current, machine,
      work, registry, session, ends
<1>18. ASSUME NEW r \in Request, Providers(r) PROVE Work'
  BY <1>18, SMTT(30)
  DEF Providers, At, Goto, Caught, Stale, Aborted, Block, CanRetry, machine, work,
      registry, session, ends
<1>19. ASSUME NEW r \in Request, SettleFails(r) PROVE Work'
  BY <1>19, SMTT(30)
  DEF SettleFails, Spend, Caught, Stale, Aborted, Block, CanRetry, machine, work,
      registry, session, ends
<1>20. ASSUME NEW r \in Request, Deadline(r) PROVE Work'
  BY <1>20, SMTT(30)
  DEF Deadline, Settling, Block, CanRetry, machine, work, registry, session, ends
<1>21. ASSUME NEW r \in Request, Release(r) PROVE Work'
  BY <1>21, SMTT(30) DEF Release, At, Goto, machine, work, registry, session, ends
<1>22. ASSUME NEW r \in Request, Seal(r) PROVE Work'
  BY <1>22, SMTT(30) DEF Seal, At, machine, job, work, registry, session
<1>23. ASSUME NEW r \in Request, Sealed(r) PROVE Work'
  BY <1>23, SMTT(30)
  DEF Sealed, At, Goto, Caught, Stale, Aborted, Block, CanRetry, Current, machine,
      work, registry, session, ends
<1>24. ASSUME NEW r \in Request, Close(r) PROVE Work'
  BY <1>24, SMTT(30) DEF Close, At, Goto, machine, work, registry, session
<1>25. ASSUME NEW r \in Request, ReleaseOwner(r) PROVE Work'
  BY <1>25, SMTT(30) DEF ReleaseOwner, At, work, registry, session
<1>26. ASSUME NEW r \in Request, ReleaseFails(r) PROVE Work'
  BY <1>26, SMTT(30)
  DEF ReleaseFails, At, Spend, Caught, Stale, Aborted, Block, CanRetry, machine, work,
      registry, session, ends
<1>27. ASSUME NEW r \in Request, LedgerFails(r) PROVE Work'
  BY <1>27, SMTT(30)
  DEF LedgerFails, At, Spend, Caught, Stale, Aborted, Block, CanRetry, machine, work,
      registry, session
<1>28. ASSUME Disposed PROVE Work'
  BY <1>28, SMTT(30) DEF Disposed, At, machine, registry, ends
<1>29. ASSUME DisposeFails PROVE Work'
  BY <1>29, SMTT(30) DEF DisposeFails, At, Spend, Aborted, Stale, Block, CanRetry, ends
<1>30. ASSUME RunStart PROVE Work'
  BY <1>30, SMTT(30) DEF RunStart, Admits, machine, job, registry, session, ends
<1>31. ASSUME RunEnd PROVE Work'
  BY <1>31, SMTT(30) DEF RunEnd, machine, job, registry, session, ends
<1>32. ASSUME Open PROVE Work'
  BY <1>32, SMTT(30) DEF Open, Admits, machine, job, registry, ends
<1>33. ASSUME EvictIdle PROVE Work'
  BY <1>33, SMTT(30) DEF EvictIdle, Admits, machine, job, registry, ends
<1>34. ASSUME Receive PROVE Work'
  BY <1>34, SMTT(30) DEF Receive, machine, job, work, registry, session
<1>35. ASSUME Received PROVE Work'
  BY <1>35, SMTT(30) DEF Received, machine, job, work, registry, session
<1>36. ASSUME OwnerLost PROVE Work'
  BY <1>36, SMTT(30) DEF OwnerLost, Spend, Block, CanRetry, Aborted, session
<1>37. CASE UNCHANGED vars
  BY <1>37 DEF vars, machine, job, work, registry, session, ends
<1> QED
  BY <1>1, <1>2, <1>3, <1>4, <1>5, <1>6, <1>7, <1>8, <1>9, <1>10, <1>11, <1>12, <1>13,
    <1>14, <1>15, <1>16, <1>17, <1>18, <1>19, <1>20, <1>21, <1>22, <1>23, <1>24, <1>25,
    <1>26, <1>27, <1>28, <1>29, <1>30, <1>31, <1>32, <1>33, <1>34, <1>35, <1>36, <1>37
  DEF Next, AtWork, Asked, Settle, Complete

\* A step of a host that is blocked for good.
LEMMA BlockedStep ==
  ASSUME IInv, TypeOK', [Next]_vars PROVE BlockedBody
<1> USE LifecycleAssumption
    DEF IInv, TypeOK, None, Serial, Releasing, BlockedBody
<1>1. ASSUME NEW r \in Request, PrepareRefused(r) PROVE BlockedBody
  BY <1>1, SMTT(30)
  DEF PrepareRefused, Refused, CanRetry, Current, job, work, registry, session, ends
<1>2. ASSUME NEW r \in Request, PrepareFails(r) PROVE BlockedBody
  BY <1>2, SMTT(30)
  DEF PrepareFails, Block, Aborted, Refused, MayDrain, Admits, CanRetry, Current, work,
      registry, session, ends
<1>3. ASSUME NEW r \in Request, Prepare(r) PROVE BlockedBody
  BY <1>3, SMTT(30)
  DEF Prepare, Refused, Merges, MayDrain, Admits, Current, Supersede, Aborted, machine,
      job, session, ends
<1>4. ASSUME NEW r \in Request, Commit(r) PROVE BlockedBody
  BY <1>4, SMTT(30) DEF Commit, Current, machine, job, work, registry, session, ends
<1>5. ASSUME NEW r \in Request, CommitFails(r) PROVE BlockedBody
  BY <1>5, SMTT(30) DEF CommitFails, Current, Spend, machine, job, work, registry, session, ends
<1>6. ASSUME NEW r \in Request, SendAccepted(r) PROVE BlockedBody
  BY <1>6, SMTT(30) DEF SendAccepted, Started, Start, Stop, job, work, registry, session, ends
<1>7. ASSUME NEW r \in Request, SendUncommitted(r) PROVE BlockedBody
  BY <1>7, SMTT(30)
  DEF SendUncommitted, Aborted, Resume, Block, Admits, CanRetry, Current, job, work,
      registry, session, ends
<1>8. ASSUME NEW r \in Request, Throw(r) PROVE BlockedBody
  BY <1>8, SMTT(30) DEF Throw, machine, job, work, registry, session, ends
<1>9. ASSUME NEW r \in Request, Waited(r) PROVE BlockedBody
  BY <1>9, SMTT(30) DEF Waited, At, Admits, Current, Stop, Goto, machine, session, ends
<1>10. ASSUME NEW r \in Request, WaitEnds(r) PROVE BlockedBody
  BY <1>10, SMTT(30)
  DEF WaitEnds, At, Caught, Stale, Aborted, Block, CanRetry, Current, Admits, machine,
      work, registry, session, ends
<1>11. ASSUME NEW r \in Request, Fenced(r) PROVE BlockedBody
  BY <1>11, SMTT(30)
  DEF Fenced, At, Caught, Stale, Aborted, Block, CanRetry, Current, machine, work,
      registry, session, ends
<1>12. ASSUME NEW r \in Request, Cancel(r) PROVE BlockedBody
  BY <1>12, SMTT(30) DEF Cancel, At, Goto, machine, registry, session, ends
<1>13. ASSUME NEW r \in Request, Services(r) PROVE BlockedBody
  BY <1>13, SMTT(30) DEF Services, At, Goto, machine, registry, ends
<1>14. ASSUME NEW r \in Request, NotResident(r) PROVE BlockedBody
  BY <1>14, SMTT(30)
  DEF NotResident, At, Caught, Stale, Aborted, Block, CanRetry, Current, machine, work,
      registry, session, ends
<1>15. ASSUME NEW r \in Request, Record(r) PROVE BlockedBody
  BY <1>15, SMTT(30)
  DEF Record, At, Current, Caught, Stale, Aborted, Block, CanRetry, Goto, machine,
      registry, session, ends
<1>16. ASSUME NEW r \in Request, LosesOwner(r) PROVE BlockedBody
  BY <1>16, SMTT(30)
  DEF LosesOwner, At, Caught, Stale, Aborted, Block, CanRetry, Current, machine, work,
      registry, session, ends
<1>17. ASSUME NEW r \in Request, Commands(r) PROVE BlockedBody
  BY <1>17, SMTT(30)
  DEF Commands, At, Goto, Caught, Stale, Aborted, Block, CanRetry, Current, machine,
      work, registry, session, ends
<1>18. ASSUME NEW r \in Request, Providers(r) PROVE BlockedBody
  BY <1>18, SMTT(30)
  DEF Providers, At, Goto, Caught, Stale, Aborted, Block, CanRetry, Current, machine,
      work, registry, session, ends
<1>19. ASSUME NEW r \in Request, SettleFails(r) PROVE BlockedBody
  BY <1>19, SMTT(30)
  DEF SettleFails, Spend, Caught, Stale, Aborted, Block, CanRetry, Current, machine,
      work, registry, session, ends
<1>20. ASSUME NEW r \in Request, Deadline(r) PROVE BlockedBody
  BY <1>20, SMTT(30)
  DEF Deadline, Settling, Block, CanRetry, Current, machine, work, registry, session, ends
<1>21. ASSUME NEW r \in Request, Release(r) PROVE BlockedBody
  BY <1>21, SMTT(30) DEF Release, At, Goto, machine, work, registry, session, ends
<1>22. ASSUME NEW r \in Request, Seal(r) PROVE BlockedBody
  BY <1>22, SMTT(30) DEF Seal, At, machine, job, work, registry, session
<1>23. ASSUME NEW r \in Request, Sealed(r) PROVE BlockedBody
  BY <1>23, SMTT(30)
  DEF Sealed, At, Goto, Caught, Stale, Aborted, Block, CanRetry, Current, machine,
      work, registry, session, ends
<1>24. ASSUME NEW r \in Request, Close(r) PROVE BlockedBody
  BY <1>24, SMTT(30) DEF Close, At, Goto, machine, work, registry, session
<1>25. ASSUME NEW r \in Request, ReleaseOwner(r) PROVE BlockedBody
  BY <1>25, SMTT(30) DEF ReleaseOwner, At, work, registry, session
<1>26. ASSUME NEW r \in Request, ReleaseFails(r) PROVE BlockedBody
  BY <1>26, SMTT(30)
  DEF ReleaseFails, At, Spend, Caught, Stale, Aborted, Block, CanRetry, Current, machine,
      work, registry, session, ends
<1>27. ASSUME NEW r \in Request, LedgerFails(r) PROVE BlockedBody
  BY <1>27, SMTT(30)
  DEF LedgerFails, At, Spend, Caught, Stale, Aborted, Block, CanRetry, Current, machine,
      work, registry, session
<1>28. ASSUME Disposed PROVE BlockedBody
  BY <1>28, SMTT(30) DEF Disposed, At, Current, machine, registry, ends
<1>29. ASSUME DisposeFails PROVE BlockedBody
  BY <1>29, SMTT(30) DEF DisposeFails, At, Current, Spend, Aborted, Stale, Block, CanRetry, ends
<1>30. ASSUME RunStart PROVE BlockedBody
  BY <1>30, SMTT(30) DEF RunStart, Admits, Current, machine, job, registry, session, ends
<1>31. ASSUME RunEnd PROVE BlockedBody
  BY <1>31, SMTT(30) DEF RunEnd, Current, machine, job, registry, session, ends
<1>32. ASSUME Open PROVE BlockedBody
  BY <1>32, SMTT(30) DEF Open, Admits, Current, machine, job, registry, ends
<1>33. ASSUME EvictIdle PROVE BlockedBody
  BY <1>33, SMTT(30) DEF EvictIdle, Admits, Current, machine, job, registry, ends
<1>34. ASSUME Receive PROVE BlockedBody
  BY <1>34, SMTT(30) DEF Receive, machine, job, work, registry, session
<1>35. ASSUME Received PROVE BlockedBody
  BY <1>35, SMTT(30) DEF Received, machine, job, work, registry, session
<1>36. ASSUME OwnerLost PROVE BlockedBody
  BY <1>36, SMTT(30) DEF OwnerLost, Spend, Block, CanRetry, Current, Aborted, session
<1>37. CASE UNCHANGED vars
  BY <1>37 DEF vars, machine, job, work, registry, session, ends
<1> QED
  BY <1>1, <1>2, <1>3, <1>4, <1>5, <1>6, <1>7, <1>8, <1>9, <1>10, <1>11, <1>12, <1>13,
    <1>14, <1>15, <1>16, <1>17, <1>18, <1>19, <1>20, <1>21, <1>22, <1>23, <1>24, <1>25,
    <1>26, <1>27, <1>28, <1>29, <1>30, <1>31, <1>32, <1>33, <1>34, <1>35, <1>36, <1>37
  DEF Next, AtWork, Asked, Settle, Complete

-----------------------------------------------------------------------------
LEMMA Initially == Init => IInv
<1> SUFFICES ASSUME Init PROVE IInv
  OBVIOUS
<1>1. MachineFlags /\ RegistryFlags /\ SessionFlags /\ WorkFlags /\ EndFlags
  BY Zenon DEF Init, MachineFlags, RegistryFlags, SessionFlags, WorkFlags, EndFlags
<1>2. Jobs /\ Rows
  BY LifecycleAssumption DEF Init, Jobs, Rows, Steps, None
<1>3. Serial /\ Gone /\ Work
  BY LifecycleAssumption
  DEF Init, Serial, Gone, Work, Clean, None, Current, Releasing, PastRecord, PastDispose, PastCancel
<1> QED
  BY <1>1, <1>2, <1>3, TypeParts DEF IInv

LEMMA Inductive == ASSUME IInv, [Next]_vars PROVE IInv'
<1>1. TypeOK'
  BY TypeStep DEF IInv
<1>2. Serial' /\ Gone' /\ Work'
  BY <1>1, SerialStep, GoneStep, WorkStep DEF IInv
<1> QED
  BY <1>1, <1>2 DEF IInv

\* The invariant of every behaviour.
THEOREM LifecycleInvariant == Spec => []IInv
<1>1. IInv /\ [Next]_vars => IInv'
  BY Inductive
<1> QED
  BY <1>1, Initially, PTL DEF Spec

\* Every variable has its type in every behaviour.
THEOREM LifecycleTypes == Spec => []TypeOK
<1>1. IInv => TypeOK
  BY DEF IInv
<1> QED
  BY <1>1, LifecycleInvariant, PTL

\* Store and locks are given up only when nothing of the daemon is at work.
THEOREM CleanRelease == Spec => []ReleaseIsClean
<1>1. IInv => ReleaseIsClean
  BY DEF IInv, Work, Clean, ReleaseIsClean
<1> QED
  BY <1>1, LifecycleInvariant, PTL

\* The host stops only for the request that is pending, was told and was not
\* superseded.
THEOREM StopsAsked == Spec => []StopsForTheAsked
<1>1. IInv => StopsForTheAsked
  BY DEF IInv, Serial, TypeOK, StopsForTheAsked
<1> QED
  BY <1>1, LifecycleInvariant, PTL

\* A host that is blocked for good stays so and does not release its locks.
THEOREM BlockedForGood == Spec => BlockedStays
<1>1. IInv /\ IInv' /\ [Next]_vars => [BlockedBody]_vars
  BY BlockedStep DEF IInv
<1> QED
  BY <1>1, LifecycleInvariant, PTL DEF Spec, BlockedStays, BlockedBody

-----------------------------------------------------------------------------
(* A stop that is under way is somebody's to go on with. *)

\* A draining host has a response of its pending request to send, or that
\* request was told so and its job, neither aborted nor left behind by the
\* deadline, is at work.
StopIsOwed ==
  /\ host = "draining" /\ asked =>
       reply[pending] \in {"dispatched", "accepted", "uncommitted", "thrown"}
  /\ host = "draining" /\ ~asked =>
       /\ reply[pending] = "told" /\ of[pending] = generation
       /\ ~aborted[pending] /\ ~raced[pending]
       /\ at[pending] \in Settling \cup {"settled"} \cup Releasing

\* A job that did not begin carries nothing of an earlier one.
Fresh ==
  /\ \A r \in Request : at[r] = "none" => of[r] = 0 /\ ~aborted[r] /\ ~raced[r]
  /\ pending # None => generation # 0

Owed == StopIsOwed /\ Fresh

\* No step forgets a stop that is under way.
LEMMA OwedStep ==
  ASSUME IInv, Owed, TypeOK', [Next]_vars PROVE Owed'
<1> USE LifecycleAssumption
    DEF IInv, TypeOK, None, Serial, Owed, StopIsOwed, Fresh, Settling, Releasing
<1>1. ASSUME NEW r \in Request, PrepareRefused(r) PROVE Owed'
  BY <1>1, SMTT(30)
  DEF PrepareRefused, Refused, CanRetry, Current, job, work, registry, session, ends
<1>2. ASSUME NEW r \in Request, PrepareFails(r) PROVE Owed'
  BY <1>2, SMTT(30)
  DEF PrepareFails, Block, Aborted, Refused, MayDrain, Admits, CanRetry, Current, work,
      registry, session, ends
<1>3. ASSUME NEW r \in Request, Prepare(r) PROVE Owed'
  BY <1>3, SMTT(30)
  DEF Prepare, Refused, Merges, MayDrain, Admits, Current, Supersede, Aborted, machine,
      job, session, ends
<1>4. ASSUME NEW r \in Request, Commit(r) PROVE Owed'
  BY <1>4, SMTT(30) DEF Commit, Current, machine, job, work, registry, session, ends
<1>5. ASSUME NEW r \in Request, CommitFails(r) PROVE Owed'
  BY <1>5, SMTT(30) DEF CommitFails, Current, Spend, machine, job, work, registry, session, ends
<1>6. ASSUME NEW r \in Request, SendAccepted(r) PROVE Owed'
  BY <1>6, SMTT(30) DEF SendAccepted, Started, Start, Stop, job, work, registry, session, ends
<1>7. ASSUME NEW r \in Request, SendUncommitted(r) PROVE Owed'
  BY <1>7, SMTT(30)
  DEF SendUncommitted, Aborted, Resume, Block, Admits, CanRetry, Current, job, work,
      registry, session, ends
<1>8. ASSUME NEW r \in Request, Throw(r) PROVE Owed'
  BY <1>8, SMTT(30) DEF Throw, machine, job, work, registry, session, ends
<1>9. ASSUME NEW r \in Request, Waited(r) PROVE Owed'
  BY <1>9, SMTT(30) DEF Waited, At, Admits, Current, Stop, Goto, machine, session, ends
<1>10. ASSUME NEW r \in Request, WaitEnds(r) PROVE Owed'
  BY <1>10, SMTT(30)
  DEF WaitEnds, At, Caught, Stale, Aborted, Block, CanRetry, Current, Admits, machine,
      work, registry, session, ends
<1>11. ASSUME NEW r \in Request, Fenced(r) PROVE Owed'
  BY <1>11, SMTT(30)
  DEF Fenced, At, Caught, Stale, Aborted, Block, CanRetry, Current, machine, work,
      registry, session, ends
<1>12. ASSUME NEW r \in Request, Cancel(r) PROVE Owed'
  BY <1>12, SMTT(30) DEF Cancel, At, Goto, machine, registry, session, ends
<1>13. ASSUME NEW r \in Request, Services(r) PROVE Owed'
  BY <1>13, SMTT(30) DEF Services, At, Goto, machine, registry, ends
<1>14. ASSUME NEW r \in Request, NotResident(r) PROVE Owed'
  BY <1>14, SMTT(30)
  DEF NotResident, At, Caught, Stale, Aborted, Block, CanRetry, Current, machine, work,
      registry, session, ends
<1>15. ASSUME NEW r \in Request, Record(r) PROVE Owed'
  BY <1>15, SMTT(30)
  DEF Record, At, Current, Caught, Stale, Aborted, Block, CanRetry, Goto, machine,
      registry, session, ends
<1>16. ASSUME NEW r \in Request, LosesOwner(r) PROVE Owed'
  BY <1>16, SMTT(30)
  DEF LosesOwner, At, Caught, Stale, Aborted, Block, CanRetry, Current, machine, work,
      registry, session, ends
<1>17. ASSUME NEW r \in Request, Commands(r) PROVE Owed'
  BY <1>17, SMTT(30)
  DEF Commands, At, Goto, Caught, Stale, Aborted, Block, CanRetry, Current, machine,
      work, registry, session, ends
<1>18. ASSUME NEW r \in Request, Providers(r) PROVE Owed'
  BY <1>18, SMTT(30)
  DEF Providers, At, Goto, Caught, Stale, Aborted, Block, CanRetry, Current, machine,
      work, registry, session, ends
<1>19. ASSUME NEW r \in Request, SettleFails(r) PROVE Owed'
  BY <1>19, SMTT(30)
  DEF SettleFails, Spend, Caught, Stale, Aborted, Block, CanRetry, Current, machine,
      work, registry, session, ends
<1>20. ASSUME NEW r \in Request, Deadline(r) PROVE Owed'
  BY <1>20, SMTT(30)
  DEF Deadline, Settling, Block, CanRetry, Current, machine, work, registry, session, ends
<1>21. ASSUME NEW r \in Request, Release(r) PROVE Owed'
  BY <1>21, SMTT(30) DEF Release, At, Goto, machine, work, registry, session, ends
<1>22. ASSUME NEW r \in Request, Seal(r) PROVE Owed'
  BY <1>22, SMTT(30) DEF Seal, At, machine, job, work, registry, session
<1>23. ASSUME NEW r \in Request, Sealed(r) PROVE Owed'
  BY <1>23, SMTT(30)
  DEF Sealed, At, Goto, Caught, Stale, Aborted, Block, CanRetry, Current, machine,
      work, registry, session, ends
<1>24. ASSUME NEW r \in Request, Close(r) PROVE Owed'
  BY <1>24, SMTT(30) DEF Close, At, Goto, machine, work, registry, session
<1>25. ASSUME NEW r \in Request, ReleaseOwner(r) PROVE Owed'
  BY <1>25, SMTT(30) DEF ReleaseOwner, At, work, registry, session
<1>26. ASSUME NEW r \in Request, ReleaseFails(r) PROVE Owed'
  BY <1>26, SMTT(30)
  DEF ReleaseFails, At, Spend, Caught, Stale, Aborted, Block, CanRetry, Current, machine,
      work, registry, session, ends
<1>27. ASSUME NEW r \in Request, LedgerFails(r) PROVE Owed'
  BY <1>27, SMTT(30)
  DEF LedgerFails, At, Spend, Caught, Stale, Aborted, Block, CanRetry, Current, machine,
      work, registry, session
<1>28. ASSUME Disposed PROVE Owed'
  BY <1>28, SMTT(30) DEF Disposed, At, Current, machine, registry, ends
<1>29. ASSUME DisposeFails PROVE Owed'
  BY <1>29, SMTT(30) DEF DisposeFails, At, Current, Spend, Aborted, Stale, Block, CanRetry, ends
<1>30. ASSUME RunStart PROVE Owed'
  BY <1>30, SMTT(30) DEF RunStart, Admits, Current, machine, job, registry, session, ends
<1>31. ASSUME RunEnd PROVE Owed'
  BY <1>31, SMTT(30) DEF RunEnd, Current, machine, job, registry, session, ends
<1>32. ASSUME Open PROVE Owed'
  BY <1>32, SMTT(30) DEF Open, Admits, Current, machine, job, registry, ends
<1>33. ASSUME EvictIdle PROVE Owed'
  BY <1>33, SMTT(30) DEF EvictIdle, Admits, Current, machine, job, registry, ends
<1>34. ASSUME Receive PROVE Owed'
  BY <1>34, SMTT(30) DEF Receive, machine, job, work, registry, session
<1>35. ASSUME Received PROVE Owed'
  BY <1>35, SMTT(30) DEF Received, machine, job, work, registry, session
<1>36. ASSUME OwnerLost PROVE Owed'
  BY <1>36, SMTT(30) DEF OwnerLost, Spend, Block, CanRetry, Current, Aborted, session
<1>37. CASE UNCHANGED vars
  BY <1>37 DEF vars, machine, job, work, registry, session, ends
<1> QED
  BY <1>1, <1>2, <1>3, <1>4, <1>5, <1>6, <1>7, <1>8, <1>9, <1>10, <1>11, <1>12, <1>13,
    <1>14, <1>15, <1>16, <1>17, <1>18, <1>19, <1>20, <1>21, <1>22, <1>23, <1>24, <1>25,
    <1>26, <1>27, <1>28, <1>29, <1>30, <1>31, <1>32, <1>33, <1>34, <1>35, <1>36, <1>37
  DEF Next, AtWork, Asked, Settle, Complete

-----------------------------------------------------------------------------
\* No stop is forgotten: while the host drains, the outcome of the request that
\* is pending is still to be sent, or its own settlement or release is under way,
\* not aborted, not left behind and not superseded (lifecycle.ts begin,
\* afterResponse, finish, block).
THEOREM StopNotForgotten == Spec => []StopIsOwed
<1>1. Init => Owed
  BY LifecycleAssumption DEF Init, Owed, StopIsOwed, Fresh, None
<1>2. IInv /\ IInv' /\ Owed /\ [Next]_vars => Owed'
  BY OwedStep DEF IInv
<1>3. Owed => StopIsOwed
  BY DEF Owed
<1> QED
  BY <1>1, <1>2, <1>3, LifecycleInvariant, PTL DEF Spec
=============================================================================
