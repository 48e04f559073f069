------------------------ MODULE RemoteCommandsProofs ------------------------
(***************************************************************************)
(* Theorems about module RemoteCommands, for any number of commands, of    *)
(* lost calls and of deaths: a command runs at most once, the web is told  *)
(* the truth, and the daemon implements for it what Commands promises.     *)
(***************************************************************************)
EXTENDS RemoteCommands, FiniteSetTheorems, TLAPS

InBatch(c) == \E b \in batch : b.id = c

\* What an outcome says of the last part of the command.
Truth(c, o) ==
  /\ o = "accepted" => runs[c][Last(c)] = 1
  /\ o \in {"rejected", "unavailable", "expired"} => runs[c][Last(c)] = 0

\* Nothing of the command runs any more: its outcome is recorded, or the store
\* has forgotten it and the executor knows that, or the platform has its
\* outcome and the claim loop is done with it.
Over(c) ==
  \/ journal[c].state = "completed"
  \/ Unknown
  \/ row[c] = "done" /\ ~InBatch(c)

PlatformTypes ==
  /\ row \in [Command -> {"absent", "pending", "claimed", "done"}]
  /\ answer \in [Command -> Outcomes \cup {"none"}]
  /\ past \subseteq Command /\ substituted \subseteq Command

Entry == [state : {"none", "dispatching", "completed"}, part : Parts,
          outcome : Outcomes \cup {"none"}]
JournalTypes == journal \in [Command -> Entry]

RequestRow == [phase : {"absent", "intent", "dispatch_intent", "terminal"},
               outcome : Outcomes \cup {"none"}]
RequestTypes == request \in [Command -> [Parts -> RequestRow]]

LoopTypes ==
  /\ at \in {"idle", "next"} \cup Waiting \cup Executing
  /\ \A b \in batch : b.id \in Command
  /\ part \in Parts /\ result \in Outcomes \cup {"none"}
  /\ at \in Executing \cup {"completing", "told"} => cur \in Command /\ InBatch(cur)

RunTypes == runs \in [Command -> [Parts -> 0..1]]

Types == PlatformTypes /\ JournalTypes /\ RequestTypes /\ LoopTypes /\ RunTypes

RowInv ==
  \A c \in Command :
    /\ runs[c][2] <= runs[c][1]
    /\ runs[c][1] = 1 => row[c] \in {"claimed", "done"}
    /\ InBatch(c) => row[c] \in {"claimed", "done"}
    /\ row[c] = "done" <=> answer[c] # "none"

JournalInv ==
  \A c \in Command :
    /\ journal[c].state = "none" => journal[c] = NoEntry
    /\ journal[c].state = "dispatching" =>
         /\ ~Unknown
         /\ journal[c].part = 1 => runs[c][2] = 0
         /\ journal[c].part = 2 => runs[c][1] = 1 /\ Last(c) = 2
    /\ journal[c].state = "completed" =>
         journal[c].outcome \in Outcomes \ {"full"} /\ Truth(c, journal[c].outcome)
    /\ Unrecorded(c) /\ runs[c][1] = 1 /\ ~Unknown => row[c] = "done" /\ ~InBatch(c)

Ends == {"accepted", "rejected", "unavailable", "indeterminate"}

RequestInv ==
  \A c \in Command, p \in Parts :
    /\ request[c][p].phase = "absent" => request[c][p] = NoRequest
    /\ request[c][p].phase = "intent" => runs[c][p] = 0
    /\ request[c][p].phase = "terminal" =>
         /\ request[c][p].outcome \in Ends
         /\ request[c][p].outcome = "accepted" => runs[c][p] = 1
         /\ request[c][p].outcome \in {"rejected", "unavailable"} => runs[c][p] = 0

\* The command at which the claim loop is.
LoopInv ==
  /\ at \in Executing =>
       journal[cur].state = "dispatching" /\ journal[cur].part = part
  /\ at = "submitting" /\ request[cur][part] = NoRequest => runs[cur][part] = 0
  /\ at = "admitted" => request[cur][part].phase = "intent"
  /\ at = "dispatched" => request[cur][part].phase = "dispatch_intent" /\ runs[cur][part] = 0
  /\ at = "executed" => request[cur][part].phase = "dispatch_intent" /\ runs[cur][part] = 1
  /\ at = "answered" =>
       /\ result \in Ends
       /\ result = "accepted" => runs[cur][part] = 1
       /\ result \in {"rejected", "unavailable"} => runs[cur][part] = 0
  /\ at = "completing" =>
       IF result = "full" THEN Unrecorded(cur)
       ELSE journal[cur].state = "completed" /\ journal[cur].outcome = result
  /\ at = "told" => row[cur] = "done" /\ journal[cur].state # "dispatching"
  /\ at = "claimed" /\ batch = {} =>
       \A c \in Command :
         /\ runs[c][1] = 1 => row[c] = "done"
         /\ \A o \in Outcomes : <<c, o>> \in lateTold => row[c] = "done"

\* What the web was told, or may still be.
ToldInv ==
  \A c \in Command :
    /\ answer[c] \notin {"none", "full"} =>
         Over(c) /\ (answer[c] = "accepted" \/ c \notin substituted => Truth(c, answer[c]))
    /\ \A o \in Outcomes : <<c, o>> \in lateTold =>
         /\ row[c] \in {"claimed", "done"}
         /\ o # "full" => Over(c) /\ Truth(c, o)

Room == Entries <= Capacity

\* Nothing goes on in a daemon that is down.
Down == ~up => ~connected /\ at = "idle"

IInv == Types /\ RowInv /\ JournalInv /\ RequestInv /\ LoopInv /\ ToldInv /\ Room /\ Down

-----------------------------------------------------------------------------
(* Values and types *)

\* What the values of the journal and of the request rows are told apart by.
LEMMA Fields ==
  /\ NoEntry.state = "none"
  /\ \A p : Dispatching(p).state = "dispatching" /\ Dispatching(p).part = p
  /\ \A o : Completed(o).state = "completed" /\ Completed(o).outcome = o
  /\ NoRequest.phase = "absent"
  /\ \A x : InPhase(x).phase = x
  /\ \A o : Terminal(o).phase = "terminal" /\ Terminal(o).outcome = o
BY DEF NoEntry, Dispatching, Completed, NoRequest, InPhase, Terminal

\* The values that are written are of their types.
LEMMA Values ==
  /\ NoEntry \in Entry /\ \A p \in Parts : Dispatching(p) \in Entry
  /\ \A o \in Outcomes : Completed(o) \in Entry
  /\ NoRequest \in RequestRow
  /\ InPhase("intent") \in RequestRow /\ InPhase("dispatch_intent") \in RequestRow
  /\ \A o \in Outcomes : Terminal(o) \in RequestRow
BY DEF NoEntry, Dispatching, Completed, NoRequest, InPhase, Terminal, Entry, RequestRow, Parts, Outcomes

\* A command has one part or two.
LEMMA LastIsPart == \A c : Last(c) \in Parts
BY DEF Last, Parts

\* A part that is not the last is the first of two.
LEMMA LastIsTwo == \A c : \A p \in Parts : p < Last(c) => p = 1 /\ Last(c) = 2
BY DEF Last, Parts

\* Where the claim loop goes next has its type.
LEMMA LoopValues ==
  ASSUME LoopTypes
  PROVE  /\ PassEnds => LoopTypes'
         /\ \A c \in Command, o \in Outcomes : InBatch(c) /\ Send(c, o) => LoopTypes'
         /\ \A c \in Command, o \in Outcomes : InBatch(c) /\ Complete(c, o) => LoopTypes'
         /\ \A c \in Command : Done(c) => LoopTypes'
         /\ \A c \in Command, p \in Parts : InBatch(c) /\ Submitting(c, p) => LoopTypes'
         /\ \A step \in Executing : at \in Executing /\ Goto(step) => LoopTypes'
         /\ at = "completing" /\ Goto("told") => LoopTypes'
         /\ \A o \in Outcomes : at \in Executing /\ Answered(o) => LoopTypes'
<1> USE DEF LoopTypes
<1>1. PassEnds => LoopTypes'
  BY DEF PassEnds, Clear, InBatch, Parts, Executing
<1>2. \A c \in Command, o \in Outcomes : InBatch(c) /\ Send(c, o) => LoopTypes'
  BY <1>1 DEF Send, InBatch, Waiting, Executing
<1>3. \A c \in Command, o \in Outcomes : InBatch(c) /\ Complete(c, o) => LoopTypes'
  BY <1>2 DEF Complete, Outcomes
<1>4. \A c \in Command : Done(c) => LoopTypes'
  BY <1>1 DEF Done, Clear, InBatch, Parts, Executing
<1>5. \A c \in Command, p \in Parts : InBatch(c) /\ Submitting(c, p) => LoopTypes'
  BY DEF Submitting, InBatch, Executing
<1>6. \A step \in Executing : at \in Executing /\ Goto(step) => LoopTypes'
  BY DEF Goto, InBatch, Executing
<1>7. at = "completing" /\ Goto("told") => LoopTypes'
  BY DEF Goto, InBatch, Waiting, Executing
<1>8. \A o \in Outcomes : at \in Executing /\ Answered(o) => LoopTypes'
  BY DEF Answered, InBatch, Executing
<1> QED
  BY <1>1, <1>2, <1>3, <1>4, <1>5, <1>6, <1>7, <1>8

\* The types, by group of variables.
LEMMA PlatformTypesStep ==
  ASSUME PlatformTypes, LoopTypes, result # "none" \/ at # "completing", [Next]_vars
  PROVE  PlatformTypes'
<1>1. ASSUME NEW c \in Command, Issue(c) PROVE PlatformTypes'
  BY <1>1 DEF Issue, store, loop, late, faults, PlatformTypes
<1>2. ASSUME NEW c \in Command, Expire(c) PROVE PlatformTypes'
  BY <1>2 DEF Expire, store, loop, late, faults, PlatformTypes, Outcomes
<1>3. ASSUME Claim PROVE PlatformTypes'
  BY <1>3 DEF Claim, HandOut, Claimed, store, late, faults, PlatformTypes
<1>4. ASSUME Tell PROVE PlatformTypes'
  BY <1>4 DEF Tell, Settled, Goto, store, late, faults, PlatformTypes, LoopTypes, Executing
<1>5. ASSUME TellInvalid PROVE PlatformTypes'
  BY <1>5 DEF TellInvalid, Lost, Settled, Goto, store, late, PlatformTypes, LoopTypes, Outcomes
<1>6. ASSUME ClaimLate PROVE PlatformTypes'
  BY <1>6 DEF ClaimLate, HandOut, store, loop, faults, Claimed, PlatformTypes
<1>7. ASSUME NEW c \in Command, NEW o \in Outcomes, TellLate(c, o) PROVE PlatformTypes'
  BY <1>7 DEF TellLate, Settled, store, loop, faults, PlatformTypes
<1>8. CASE \/ Connect \/ Ask \/ Receive \/ Submit \/ Prepare \/ Execute \/ Finish \/ Respond
           \/ TellNothing \/ Forget \/ Drop \/ Crash \/ Restart \/ RestartRebuilt
           \/ \E c \in Command, p \in Parts : Retire(c, p)
           \/ \E b \in batch : Run(b)
           \/ UNCHANGED vars
  <2>1. UNCHANGED <<row, answer, past, substituted>>
    BY <1>8 DEF Connect, Ask, Receive, Submit, Prepare, Execute, Finish, Respond, TellNothing,
        Forget, Drop, Crash, Restart, RestartRebuilt, Retire, Run, vars, platform, store,
        loop, late, faults
  <2> QED
    BY <2>1 DEF PlatformTypes
<1> QED
  BY <1>1, <1>2, <1>3, <1>4, <1>5, <1>6, <1>7, <1>8 DEF Next, Run

LEMMA JournalTypesStep ==
  ASSUME JournalTypes, LoopTypes, result # "none" \/ at # "answered", [Next]_vars
  PROVE  JournalTypes'
<1>1. ASSUME NEW b \in batch, Run(b), RunForgotten(b.id) PROVE JournalTypes'
  BY <1>1, Values
     DEF RunForgotten, Complete, platform, late, faults, Entries, JournalTypes, LoopTypes,
      Outcomes, Parts
<1>2. ASSUME NEW b \in batch, Run(b), RunExpired(b) PROVE JournalTypes'
  BY <1>2, Values
     DEF RunExpired, Complete, platform, late, faults, Entries, JournalTypes, LoopTypes,
      Outcomes, Parts
<1>3. ASSUME NEW b \in batch, Run(b), RunRefused(b) PROVE JournalTypes'
  BY <1>3, Values
     DEF RunRefused, Complete, platform, late, faults, Entries, JournalTypes, LoopTypes,
      Outcomes, Parts
<1>4. ASSUME NEW b \in batch, Run(b), RunNew(b) PROVE JournalTypes'
  BY <1>4, Values
     DEF RunNew, platform, late, faults, Entries, JournalTypes, LoopTypes, Outcomes, Parts
<1>5. ASSUME NEW b \in batch, Run(b), RunReplay(b.id) PROVE JournalTypes'
  BY <1>5, Values DEF RunReplay, Complete, platform, late, faults, Entries, JournalTypes, LoopTypes,
      Outcomes, Parts
<1>6. ASSUME Respond PROVE JournalTypes'
  BY <1>6, Values
     DEF Respond, Last, Complete, platform, late, faults, Unrecorded, Entries, JournalTypes,
      LoopTypes, Parts, Executing
<1>7. ASSUME Forget PROVE JournalTypes'
  BY <1>7, Values DEF Forget, platform, late, faults, JournalTypes, LoopTypes
<1>8. ASSUME RestartRebuilt PROVE JournalTypes'
  BY <1>8, Values DEF RestartRebuilt, Parts, platform, loop, late, faults, JournalTypes
<1>9. CASE \/ Connect \/ Ask \/ Claim \/ Receive \/ Submit \/ Prepare \/ Execute \/ Finish
           \/ Tell \/ TellInvalid \/ TellNothing \/ Drop \/ ClaimLate \/ Crash \/ Restart
           \/ \E c \in Command : Issue(c) \/ Expire(c)
           \/ \E c \in Command, o \in Outcomes : TellLate(c, o)
           \/ \E c \in Command, p \in Parts : Retire(c, p)
           \/ \E b \in batch : Run(b) /\ (RunCompleted(b.id) \/ RunFails(b.id))
           \/ UNCHANGED vars
  <2>1. UNCHANGED journal
    BY <1>9 DEF Connect, Ask, Claim, Receive, Submit, Prepare, Execute, Finish, Tell, TellInvalid,
        TellNothing, Drop, ClaimLate, Crash, Restart, Issue, Expire, TellLate, Retire, Run,
        RunCompleted, RunFails, vars, platform, store, loop, late, faults
  <2> QED
    BY <2>1 DEF JournalTypes
<1> QED
  BY <1>1, <1>2, <1>3, <1>4, <1>5, <1>6, <1>7, <1>8, <1>9 DEF Next, Run

LEMMA RequestTypesStep ==
  ASSUME RequestTypes, LoopTypes, [Next]_vars
  PROVE  RequestTypes'
<1>1. ASSUME Submit PROVE RequestTypes'
  BY <1>1, Values
     DEF Submit, Current, Answered, Becomes, Goto, platform, late, faults, RequestTypes,
      LoopTypes, Executing, Outcomes
<1>2. ASSUME Prepare PROVE RequestTypes'
  BY <1>2, Values
     DEF Prepare, Becomes, Answered, Goto, platform, late, faults, RequestTypes, LoopTypes,
      Executing, Outcomes
<1>3. ASSUME Finish PROVE RequestTypes'
  BY <1>3, Values DEF Finish, Becomes, Answered, platform, late, faults, RequestTypes, LoopTypes,
      Executing, Outcomes
<1>4. ASSUME RestartRebuilt PROVE RequestTypes'
  BY <1>4, Values DEF RestartRebuilt, Parts, platform, loop, late, faults, RequestTypes, LoopTypes,
      Executing, Outcomes
<1>5. ASSUME NEW c \in Command, NEW p \in Parts, Retire(c, p) PROVE RequestTypes'
  BY <1>5, Values
     DEF Retire, platform, loop, late, faults, RequestTypes, LoopTypes, Executing, Outcomes
<1>6. CASE \/ Connect \/ Ask \/ Claim \/ Receive \/ Execute \/ Respond \/ Tell \/ TellInvalid
           \/ TellNothing \/ Forget \/ Drop \/ ClaimLate \/ Crash \/ Restart
           \/ \E c \in Command : Issue(c) \/ Expire(c)
           \/ \E c \in Command, o \in Outcomes : TellLate(c, o)
           \/ \E b \in batch : Run(b)
           \/ UNCHANGED vars
  <2>1. UNCHANGED request
    BY <1>6 DEF Connect, Ask, Claim, Receive, Execute, Respond, Tell, TellInvalid, TellNothing,
        Forget, Drop, ClaimLate, Crash, Restart, Issue, Expire, TellLate, Run, vars,
        platform, store, loop, late, faults
  <2> QED
    BY <2>1 DEF RequestTypes
<1> QED
  BY <1>1, <1>2, <1>3, <1>4, <1>5, <1>6 DEF Next, Run

LEMMA LoopTypesStep ==
  ASSUME LoopTypes, JournalTypes, JournalInv, RequestInv, result # "none" \/ at # "answered", [Next]_vars
  PROVE  LoopTypes'
<1>a. /\ \A c \in Command : journal[c].part \in Parts
      /\ \A c \in Command : journal[c].state = "completed" => journal[c].outcome \in Outcomes
      /\ at \in Executing /\ request[cur][part].phase = "terminal" => request[cur][part].outcome \in Outcomes
  BY DEF JournalTypes, Entry, JournalInv, RequestInv, LoopTypes, Ends, Outcomes
<1>1. ASSUME Ask PROVE LoopTypes'
  BY <1>1, LoopValues DEF Ask, platform, store, late, faults, LoopTypes, InBatch, Waiting, Executing
<1>2. ASSUME Claim PROVE LoopTypes'
  BY <1>2, LoopValues
     DEF Claim, Claimed, store, late, faults, LoopTypes, InBatch, Waiting, Executing
<1>3. ASSUME Receive PROVE LoopTypes'
  BY <1>3, LoopValues
     DEF Receive, Timed, platform, late, faults, LoopTypes, InBatch, Waiting, Executing
<1>4. ASSUME NEW b \in batch, Run(b), RunForgotten(b.id) PROVE LoopTypes'
  BY <1>4, LoopValues
     DEF RunForgotten, Run, platform, late, faults, Entries, LoopTypes, InBatch, Outcomes,
      Parts
<1>5. ASSUME NEW b \in batch, Run(b), RunCompleted(b.id) PROVE LoopTypes'
  BY <1>5, LoopValues, <1>a DEF RunCompleted, Run, platform, late, faults, LoopTypes, InBatch
<1>6. ASSUME NEW b \in batch, Run(b), RunExpired(b) PROVE LoopTypes'
  BY <1>6, LoopValues
     DEF RunExpired, Run, platform, late, faults, Entries, LoopTypes, InBatch, Outcomes,
      Parts
<1>7. ASSUME NEW b \in batch, Run(b), RunRefused(b) PROVE LoopTypes'
  BY <1>7, LoopValues
     DEF RunRefused, Run, platform, late, faults, Entries, LoopTypes, InBatch, Outcomes,
      Parts
<1>8. ASSUME NEW b \in batch, Run(b), RunNew(b) PROVE LoopTypes'
  BY <1>8, LoopValues
     DEF RunNew, Run, platform, late, faults, Entries, LoopTypes, InBatch, Outcomes, Parts
<1>9. ASSUME NEW b \in batch, Run(b), RunReplay(b.id) PROVE LoopTypes'
  BY <1>9, LoopValues, <1>a
     DEF RunReplay, Run, platform, late, faults, Entries, LoopTypes, InBatch, Outcomes, Parts
<1>10. ASSUME NEW b \in batch, Run(b), RunFails(b.id) PROVE LoopTypes'
  BY <1>10, LoopValues DEF RunFails, Run, platform, late, faults, Entries, LoopTypes
<1>11. ASSUME Submit PROVE LoopTypes'
  BY <1>11, LoopValues, <1>a
     DEF Submit, Current, platform, late, faults, LoopTypes, Executing, Outcomes
<1>12. ASSUME Prepare PROVE LoopTypes'
  BY <1>12, LoopValues DEF Prepare, platform, late, faults, LoopTypes, Executing, Outcomes
<1>13. ASSUME Execute PROVE LoopTypes'
  BY <1>13, LoopValues DEF Execute, platform, store, late, faults, LoopTypes, Executing, Outcomes
<1>14. ASSUME Finish PROVE LoopTypes'
  BY <1>14, LoopValues DEF Finish, platform, late, faults, LoopTypes, Executing, Outcomes
<1>15. ASSUME Respond PROVE LoopTypes'
  BY <1>15, LoopValues
     DEF Respond, Last, platform, late, faults, Entries, LoopTypes, Executing, Parts
<1>16. ASSUME Tell PROVE LoopTypes'
  BY <1>16, LoopValues DEF Tell, store, late, faults, LoopTypes
<1>17. ASSUME TellInvalid PROVE LoopTypes'
  BY <1>17, LoopValues DEF TellInvalid, Lost, store, late, LoopTypes
<1>18. ASSUME TellNothing PROVE LoopTypes'
  BY <1>18, LoopValues DEF TellNothing, Lost, platform, store, late, LoopTypes
<1>19. ASSUME Forget PROVE LoopTypes'
  BY <1>19, LoopValues DEF Forget, platform, late, faults, LoopTypes
<1>20. ASSUME Drop PROVE LoopTypes'
  BY <1>20, LoopValues
     DEF Drop, Lost, Executing, Stray, platform, store, LoopTypes, InBatch, Waiting,
      Executing
<1>21. ASSUME Crash PROVE LoopTypes'
  BY <1>21, LoopValues DEF Crash, Stray, platform, store, LoopTypes
<1>22. CASE \/ Connect \/ ClaimLate \/ Restart \/ RestartRebuilt
            \/ \E c \in Command : Issue(c) \/ Expire(c)
            \/ \E c \in Command, o \in Outcomes : TellLate(c, o)
            \/ \E c \in Command, p \in Parts : Retire(c, p)
            \/ UNCHANGED vars
  <2>1. UNCHANGED <<at, batch, cur, part, result>>
    BY <1>22 DEF Connect, ClaimLate, Restart, RestartRebuilt, Issue, Expire, TellLate, Retire, vars,
        platform, store, loop, late, faults
  <2> QED
    BY <2>1 DEF LoopTypes, InBatch
<1> QED
  BY <1>1, <1>2, <1>3, <1>4, <1>5, <1>6, <1>7, <1>8, <1>9, <1>10, <1>11, <1>12, <1>13,
      <1>14, <1>15, <1>16, <1>17, <1>18, <1>19, <1>20, <1>21, <1>22 DEF Next, Run

LEMMA RunTypesStep ==
  ASSUME RunTypes, LoopTypes, LoopInv, [Next]_vars
  PROVE  RunTypes'
<1>1. ASSUME Execute PROVE RunTypes'
  BY <1>1 DEF Execute, Goto, platform, store, late, faults, RunTypes, LoopTypes, LoopInv,
      Executing
<1>2. CASE \/ Connect \/ Ask \/ Claim \/ Receive \/ Submit \/ Prepare \/ Finish \/ Respond
           \/ Tell \/ TellInvalid \/ TellNothing \/ Forget \/ Drop \/ ClaimLate \/ Crash
           \/ Restart \/ RestartRebuilt
           \/ \E c \in Command : Issue(c) \/ Expire(c)
           \/ \E c \in Command, o \in Outcomes : TellLate(c, o)
           \/ \E c \in Command, p \in Parts : Retire(c, p)
           \/ \E b \in batch : Run(b)
           \/ UNCHANGED vars
  <2>1. UNCHANGED runs
    BY <1>2 DEF Connect, Ask, Claim, Receive, Submit, Prepare, Finish, Respond, Tell, TellInvalid,
        TellNothing, Forget, Drop, ClaimLate, Crash, Restart, RestartRebuilt, Issue,
        Expire, TellLate, Retire, Run, vars, platform, store, loop, late, faults
  <2> QED
    BY <2>1 DEF RunTypes
<1> QED
  BY <1>1, <1>2 DEF Next, Run

-----------------------------------------------------------------------------
(* The platform, its rows and the batch *)

\* The platform never takes an answer back, nor a row from its host.
LEMMA DoneStep ==
  ASSUME PlatformTypes, NEW s \in Command, [Next]_vars
  PROVE  /\ row[s] = "done" => row'[s] = "done" /\ answer'[s] = answer[s]
         /\ row[s] \in {"claimed", "done"} => row'[s] \in {"claimed", "done"}
<1> DEFINE Kept == /\ row[s] = "done" => row'[s] = "done" /\ answer'[s] = answer[s]
                   /\ row[s] \in {"claimed", "done"} => row'[s] \in {"claimed", "done"}
<1>1. ASSUME NEW c \in Command, Issue(c) PROVE Kept
  BY <1>1 DEF Issue, store, loop, late, faults, PlatformTypes
<1>2. ASSUME NEW c \in Command, Expire(c) PROVE Kept
  BY <1>2 DEF Expire, store, loop, late, faults, PlatformTypes
<1>3. ASSUME Claim PROVE Kept
  BY <1>3 DEF Claim, HandOut, Claimed, store, late, faults, PlatformTypes
<1>4. ASSUME Tell PROVE Kept
  BY <1>4 DEF Tell, Settled, Goto, store, late, faults, PlatformTypes
<1>5. ASSUME TellInvalid PROVE Kept
  BY <1>5 DEF TellInvalid, Lost, Settled, Goto, store, late, PlatformTypes
<1>6. ASSUME ClaimLate PROVE Kept
  BY <1>6 DEF ClaimLate, HandOut, store, loop, faults, Claimed, PlatformTypes
<1>7. ASSUME NEW c \in Command, NEW o \in Outcomes, TellLate(c, o) PROVE Kept
  BY <1>7 DEF TellLate, Settled, store, loop, faults, PlatformTypes
<1>8. CASE \/ Connect \/ Ask \/ Receive \/ Submit \/ Prepare \/ Execute \/ Finish \/ Respond
           \/ TellNothing \/ Forget \/ Drop \/ Crash \/ Restart \/ RestartRebuilt
           \/ \E c \in Command, p \in Parts : Retire(c, p)
           \/ \E b \in batch : Run(b)
           \/ UNCHANGED vars
  <2>1. UNCHANGED <<row, answer>>
    BY <1>8 DEF Connect, Ask, Receive, Submit, Prepare, Execute, Finish, Respond, TellNothing,
        Forget, Drop, Crash, Restart, RestartRebuilt, Retire, Run, vars, platform, store,
        loop, late, faults
  <2> QED
    BY <2>1 DEF PlatformTypes
<1> QED
  BY <1>1, <1>2, <1>3, <1>4, <1>5, <1>6, <1>7, <1>8 DEF Next, Run

\* A row is issued once.
LEMMA IssueStep ==
  ASSUME PlatformTypes, NEW s \in Command, [Next]_vars
  PROVE  /\ row[s] = "absent" => row'[s] \in {"absent", "pending"}
         /\ row[s] # "absent" => row'[s] # "absent"
<1> DEFINE Appears == /\ row[s] = "absent" => row'[s] \in {"absent", "pending"}
                      /\ row[s] # "absent" => row'[s] # "absent"
<1>1. ASSUME NEW c \in Command, Issue(c) PROVE Appears
  BY <1>1 DEF Issue, store, loop, late, faults, PlatformTypes
<1>2. ASSUME NEW c \in Command, Expire(c) PROVE Appears
  BY <1>2 DEF Expire, store, loop, late, faults, PlatformTypes
<1>3. ASSUME Claim PROVE Appears
  BY <1>3 DEF Claim, HandOut, Claimed, store, late, faults, PlatformTypes
<1>4. ASSUME Tell PROVE Appears
  BY <1>4 DEF Tell, Settled, Goto, store, late, faults, PlatformTypes
<1>5. ASSUME TellInvalid PROVE Appears
  BY <1>5 DEF TellInvalid, Lost, Settled, Goto, store, late, PlatformTypes
<1>6. ASSUME ClaimLate PROVE Appears
  BY <1>6 DEF ClaimLate, HandOut, store, loop, faults, Claimed, PlatformTypes
<1>7. ASSUME NEW c \in Command, NEW o \in Outcomes, TellLate(c, o) PROVE Appears
  BY <1>7 DEF TellLate, Settled, store, loop, faults, PlatformTypes
<1>8. CASE \/ Connect \/ Ask \/ Receive \/ Submit \/ Prepare \/ Execute \/ Finish \/ Respond
           \/ TellNothing \/ Forget \/ Drop \/ Crash \/ Restart \/ RestartRebuilt
           \/ \E c \in Command, p \in Parts : Retire(c, p)
           \/ \E b \in batch : Run(b)
           \/ UNCHANGED vars
  <2>1. UNCHANGED row
    BY <1>8 DEF Connect, Ask, Receive, Submit, Prepare, Execute, Finish, Respond, TellNothing,
        Forget, Drop, Crash, Restart, RestartRebuilt, Retire, Run, vars, platform, store,
        loop, late, faults
  <2> QED
    BY <2>1 DEF PlatformTypes
<1> QED
  BY <1>1, <1>2, <1>3, <1>4, <1>5, <1>6, <1>7, <1>8 DEF Next, Run

\* No way of the claim loop on adds a row to the batch, and the row that is
\* done with leaves it.
LEMMA BatchKept ==
  ASSUME NEW c \in Command, InBatch(c)'
  PROVE  /\ PassEnds => InBatch(c)
         /\ Timed => InBatch(c)
         /\ \A x, o : Send(x, o) => InBatch(c)
         /\ \A x, o : Complete(x, o) => InBatch(c)
         /\ \A x : Done(x) => InBatch(c) /\ c # x
         /\ \A x, p : Submitting(x, p) => InBatch(c)
         /\ \A step : Goto(step) => InBatch(c)
         /\ \A o : Answered(o) => InBatch(c)
<1> USE DEF InBatch
<1>1. PassEnds => InBatch(c)
  BY DEF PassEnds
<1>2. Timed => InBatch(c)
  BY DEF Timed
<1>3. \A x, o : Send(x, o) => InBatch(c)
  BY <1>1 DEF Send
<1>4. \A x, o : Complete(x, o) => InBatch(c)
  BY <1>3 DEF Complete
<1>5. \A x : Done(x) => InBatch(c) /\ c # x
  BY DEF Done, PassEnds
<1>6. /\ \A x, p : Submitting(x, p) => InBatch(c)
      /\ \A step : Goto(step) => InBatch(c)
      /\ \A o : Answered(o) => InBatch(c)
  BY DEF Submitting, Goto, Answered
<1> QED
  BY <1>1, <1>2, <1>3, <1>4, <1>5, <1>6

\* A row comes into the batch only when the platform hands it out.
LEMMA BatchStep ==
  ASSUME PlatformTypes, NEW s \in Command, InBatch(s)', [Next]_vars
  PROVE  InBatch(s) \/ row'[s] = "claimed"
<1> DEFINE Taken == InBatch(s) \/ row'[s] = "claimed"
<1>1. ASSUME Claim PROVE Taken
  BY <1>1 DEF Claim, HandOut, Claimed, store, late, faults, PlatformTypes, InBatch
<1>2. ASSUME Receive PROVE Taken
  BY <1>2, BatchKept DEF Receive, platform, late, faults
<1>3. ASSUME NEW b \in batch, Run(b), RunForgotten(b.id) PROVE Taken
  BY <1>3, BatchKept DEF RunForgotten, Run, platform, late, faults
<1>4. ASSUME NEW b \in batch, Run(b), RunCompleted(b.id) PROVE Taken
  BY <1>4, BatchKept DEF RunCompleted, Run, platform, late, faults
<1>5. ASSUME NEW b \in batch, Run(b), RunExpired(b) PROVE Taken
  BY <1>5, BatchKept DEF RunExpired, Run, platform, late, faults
<1>6. ASSUME NEW b \in batch, Run(b), RunRefused(b) PROVE Taken
  BY <1>6, BatchKept DEF RunRefused, Run, platform, late, faults
<1>7. ASSUME NEW b \in batch, Run(b), RunNew(b) PROVE Taken
  BY <1>7, BatchKept DEF RunNew, Run, platform, late, faults
<1>8. ASSUME NEW b \in batch, Run(b), RunReplay(b.id) PROVE Taken
  BY <1>8, BatchKept DEF RunReplay, Run, platform, late, faults
<1>9. ASSUME NEW b \in batch, Run(b), RunFails(b.id) PROVE Taken
  BY <1>9, BatchKept DEF RunFails, Run, platform, late, faults
<1>10. ASSUME Submit PROVE Taken
  BY <1>10, BatchKept DEF Submit, platform, late, faults
<1>11. ASSUME Prepare PROVE Taken
  BY <1>11, BatchKept DEF Prepare, platform, late, faults
<1>12. ASSUME Execute PROVE Taken
  BY <1>12, BatchKept DEF Execute, platform, store, late, faults
<1>13. ASSUME Finish PROVE Taken
  BY <1>13, BatchKept DEF Finish, platform, late, faults
<1>14. ASSUME Respond PROVE Taken
  BY <1>14, BatchKept DEF Respond, platform, late, faults
<1>15. ASSUME Tell PROVE Taken
  BY <1>15, BatchKept DEF Tell, store, late, faults
<1>16. ASSUME TellInvalid PROVE Taken
  BY <1>16, BatchKept DEF TellInvalid, store, late
<1>17. ASSUME TellNothing PROVE Taken
  BY <1>17, BatchKept DEF TellNothing, platform, store, late
<1>18. ASSUME Forget PROVE Taken
  BY <1>18, BatchKept DEF Forget, platform, late, faults
<1>19. ASSUME Drop PROVE Taken
  BY <1>19, BatchKept DEF Drop, Executing, platform, store, InBatch
<1>20. ASSUME Crash PROVE Taken
  BY <1>20, BatchKept DEF Crash, platform, store
<1>21. CASE \/ Connect \/ Ask \/ ClaimLate \/ Restart \/ RestartRebuilt
            \/ \E c \in Command : Issue(c) \/ Expire(c)
            \/ \E c \in Command, o \in Outcomes : TellLate(c, o)
            \/ \E c \in Command, p \in Parts : Retire(c, p)
            \/ UNCHANGED vars
  <2>1. UNCHANGED batch
    BY <1>21 DEF Connect, Ask, ClaimLate, Restart, RestartRebuilt, Issue, Expire, TellLate, Retire,
        vars, platform, store, loop, late, faults
  <2> QED
    BY <2>1 DEF InBatch
<1> QED
  BY <1>1, <1>2, <1>3, <1>4, <1>5, <1>6, <1>7, <1>8, <1>9, <1>10, <1>11, <1>12, <1>13,
      <1>14, <1>15, <1>16, <1>17, <1>18, <1>19, <1>20, <1>21 DEF Next, Run

\* The effect that Execute counts.
LEMMA ExecuteRuns ==
  ASSUME RunTypes, LoopTypes, LoopInv, Execute, NEW s \in Command, NEW p \in Parts
  PROVE  runs'[s][p] = IF s = cur /\ p = part THEN 1 ELSE runs[s][p]
<1>1. cur \in Command /\ part \in Parts /\ runs[cur][part] = 0
  BY DEF Execute, LoopTypes, LoopInv, Executing
<1> QED
  BY <1>1 DEF Execute, RunTypes

\* An effect is counted from zero to one and never again.
LEMMA EffectStep ==
  ASSUME RunTypes, LoopTypes, LoopInv, NEW s \in Command, NEW q \in Parts, [Next]_vars
  PROVE  runs'[s][q] = runs[s][q] \/ (runs[s][q] = 0 /\ runs'[s][q] = 1)
<1> DEFINE Counted == runs'[s][q] = runs[s][q] \/ (runs[s][q] = 0 /\ runs'[s][q] = 1)
<1>1. ASSUME Execute PROVE Counted
  <2>1. runs[cur][part] = 0
    BY <1>1 DEF Execute, LoopInv
  <2> QED
    BY <1>1, <2>1, ExecuteRuns
<1>2. CASE \/ Connect \/ Ask \/ Claim \/ Receive \/ Submit \/ Prepare \/ Finish \/ Respond
           \/ Tell \/ TellInvalid \/ TellNothing \/ Forget \/ Drop \/ ClaimLate \/ Crash
           \/ Restart \/ RestartRebuilt
           \/ \E c \in Command : Issue(c) \/ Expire(c)
           \/ \E c \in Command, o \in Outcomes : TellLate(c, o)
           \/ \E c \in Command, p \in Parts : Retire(c, p)
           \/ \E b \in batch : Run(b)
           \/ UNCHANGED vars
  <2>1. UNCHANGED runs
    BY <1>2 DEF Connect, Ask, Claim, Receive, Submit, Prepare, Finish, Respond, Tell, TellInvalid,
        TellNothing, Forget, Drop, ClaimLate, Crash, Restart, RestartRebuilt, Issue,
        Expire, TellLate, Retire, Run, vars, platform, store, loop, late, faults
  <2> QED
    BY <2>1
<1> QED
  BY <1>1, <1>2 DEF Next, Run

\* What ran was claimed; what is answered is done.
LEMMA RowStep ==
  ASSUME PlatformTypes, LoopTypes, RunTypes, RowInv, JournalInv, LoopInv, ToldInv, [Next]_vars
  PROVE  RowInv'
<1>a. /\ at = "completing" => result \in Outcomes
      /\ \A c \in Command, o \in Outcomes : <<c, o>> \in lateTold => row[c] \in {"claimed", "done"}
      /\ at \in Executing => journal[cur].part = part
      /\ at = "dispatched" => (part = 2 => runs[cur][1] = 1) /\ (part = 1 => runs[cur][2] = 0)
  BY DEF LoopInv, ToldInv, JournalInv, LoopTypes, Executing, Outcomes
<1>1. ASSUME NEW c \in Command, Issue(c) PROVE RowInv'
  BY <1>1, BatchStep DEF Issue, store, loop, late, faults, PlatformTypes, RowInv
<1>2. ASSUME NEW c \in Command, Expire(c) PROVE RowInv'
  BY <1>2, BatchStep DEF Expire, store, loop, late, faults, PlatformTypes, RowInv, Outcomes
<1>3. ASSUME Claim PROVE RowInv'
  BY <1>3, BatchStep DEF Claim, HandOut, Claimed, store, late, faults, PlatformTypes, RowInv
<1>4. ASSUME Execute PROVE RowInv'
  <2>1. cur \in Command /\ part \in Parts /\ InBatch(cur)
    BY <1>4 DEF Execute, LoopTypes, Executing
  <2> QED
    BY <1>4, <1>a, <2>1, ExecuteRuns, BatchStep
       DEF Execute, Goto, RowInv, RunTypes, Parts, Executing, platform
<1>5. ASSUME Tell PROVE RowInv'
  BY <1>5, BatchStep, <1>a
     DEF Tell, Settled, store, late, faults, PlatformTypes, RowInv, LoopTypes, Outcomes
<1>6. ASSUME TellInvalid PROVE RowInv'
  BY <1>6, BatchStep
     DEF TellInvalid, Settled, store, late, PlatformTypes, RowInv, LoopTypes, Outcomes
<1>7. ASSUME ClaimLate PROVE RowInv'
  BY <1>7, BatchStep DEF ClaimLate, HandOut, store, loop, faults, Claimed, PlatformTypes, RowInv
<1>8. ASSUME NEW c \in Command, NEW o \in Outcomes, TellLate(c, o) PROVE RowInv'
  BY <1>8, BatchStep, <1>a
     DEF TellLate, Settled, store, loop, faults, PlatformTypes, RowInv, Outcomes
<1>9. CASE \/ Connect \/ Ask \/ Receive \/ Submit \/ Prepare \/ Finish \/ Respond
           \/ TellNothing \/ Forget \/ Drop \/ Crash \/ Restart \/ RestartRebuilt
           \/ \E c \in Command, p \in Parts : Retire(c, p)
           \/ \E b \in batch : Run(b)
           \/ UNCHANGED vars
  <2>1. UNCHANGED <<row, answer, runs>>
    BY <1>9 DEF Connect, Ask, Receive, Submit, Prepare, Finish, Respond, TellNothing, Forget, Drop,
        Crash, Restart, RestartRebuilt, Retire, Run, vars, platform, store, loop, late,
        faults
  <2> QED
    BY <2>1, BatchStep DEF RowInv, InBatch
<1> QED
  BY <1>1, <1>2, <1>3, <1>4, <1>5, <1>6, <1>7, <1>8, <1>9 DEF Next, Run

-----------------------------------------------------------------------------
(* The journal, the requests and the claim loop *)

\* What is recorded, if there is room.
LEMMA Recorded ==
  ASSUME JournalTypes, NEW x \in Command, NEW s \in Command
  PROVE  /\ \A o : Complete(x, o) => journal'[s] = journal[s] \/ (s = x /\ journal'[s] = Completed(o))
         /\ \A e : journal' = [journal EXCEPT ![x] = e] => journal'[s] = IF s = x THEN e ELSE journal[s]
<1>1. ASSUME NEW e, journal' = [journal EXCEPT ![x] = e]
      PROVE  journal'[s] = IF s = x THEN e ELSE journal[s]
  BY <1>1 DEF JournalTypes
<1>2. ASSUME NEW o, Complete(x, o)
      PROVE  journal'[s] = journal[s] \/ (s = x /\ journal'[s] = Completed(o))
  <2>1. journal' = journal \/ journal' = [journal EXCEPT ![x] = Completed(o)]
    BY <1>2 DEF Complete
  <2> QED
    BY <2>1, <1>1
<1> QED
  BY <1>1, <1>2

\* The record of a command tells what ran.
LEMMA JournalStep ==
  ASSUME IInv, [Next]_vars
  PROVE  JournalInv'
<1> USE DEF IInv, Types
<1>a. /\ \A b \in batch : b.id \in Command /\ InBatch(b.id)
      /\ at \in Executing \cup {"told"} => cur \in Command
  BY DEF LoopTypes, InBatch
<1>b. \A b \in batch : Unrecorded(b.id) /\ ~Unknown => \A p \in Parts : runs[b.id][p] = 0
  BY <1>a DEF JournalInv, RowInv, RunTypes, Parts
<1>1. ASSUME Receive PROVE JournalInv'
  BY <1>1, BatchStep
     DEF Receive, platform, late, faults, JournalInv, Truth, Unknown, Unrecorded, LoopInv,
      InBatch
<1>2. ASSUME NEW b \in batch, Run(b), RunForgotten(b.id) PROVE JournalInv'
  BY <1>2, BatchStep, DoneStep, Fields, Recorded, LastIsPart, <1>a, <1>b
     DEF RunForgotten, Run, platform, late, faults, JournalInv, Truth, Unknown, Unrecorded,
      Outcomes, InBatch, Parts
<1>3. ASSUME NEW b \in batch, Run(b), RunExpired(b) PROVE JournalInv'
  BY <1>3, BatchStep, DoneStep, Fields, Recorded, LastIsPart, <1>a, <1>b
     DEF RunExpired, Run, platform, late, faults, JournalInv, Truth, Unknown, Unrecorded,
      Outcomes, InBatch, Parts
<1>4. ASSUME NEW b \in batch, Run(b), RunRefused(b) PROVE JournalInv'
  BY <1>4, BatchStep, DoneStep, Fields, Recorded, LastIsPart, <1>a, <1>b
     DEF RunRefused, Run, platform, late, faults, JournalInv, Truth, Unknown, Unrecorded,
      Outcomes, InBatch, Parts
<1>5. ASSUME NEW b \in batch, Run(b), RunNew(b) PROVE JournalInv'
  <2>1. /\ b.id \in Command /\ InBatch(b.id) /\ journal[b.id].state = "none" /\ ~Unknown
        /\ \A p \in Parts : runs[b.id][p] = 0
        /\ UNCHANGED <<row, runs, rebuilt, drained>>
    BY <1>5, <1>a, <1>b, Fields DEF RunNew, Run, platform, Unrecorded
  <2>2. CASE UNCHANGED journal
    BY <2>1, <2>2, BatchStep DEF JournalInv, Truth, Unknown, Unrecorded
  <2>3. CASE journal' = [journal EXCEPT ![b.id] = Dispatching(1)]
    <3>1. \A s \in Command : journal'[s] = IF s = b.id THEN Dispatching(1) ELSE journal[s]
      BY <2>1, <2>3 DEF JournalTypes
    <3> QED
      BY <2>1, <3>1, Fields, BatchStep DEF JournalInv, Truth, Unknown, Unrecorded, Parts
  <2> QED
    BY <1>5, <2>2, <2>3 DEF RunNew
<1>6. ASSUME NEW b \in batch, Run(b), RunReplay(b.id) PROVE JournalInv'
  BY <1>6, BatchStep, DoneStep, Fields, Recorded, LastIsPart, <1>a, <1>b
     DEF RunReplay, Run, platform, late, faults, JournalInv, Truth, Unknown, Unrecorded,
      Outcomes, InBatch, Parts
<1>7. ASSUME Execute PROVE JournalInv'
  <2>1. /\ at = "dispatched"
        /\ cur \in Command
        /\ part \in Parts
        /\ journal[cur].state = "dispatching"
        /\ journal[cur].part = part
    BY <1>7 DEF Execute, LoopTypes, LoopInv, Executing
  <2>2. \A c \in Command : c # cur => Last(c) \in Parts /\ \A p \in Parts : runs'[c][p] = runs[c][p]
    BY ExecuteRuns, LastIsPart, <1>7
  <2>3. \A p \in Parts : runs'[cur][p] = IF p = part THEN 1 ELSE runs[cur][p]
    BY ExecuteRuns, <1>7, <2>1
  <2> QED
    BY <1>7, <2>1, <2>2, <2>3, Fields, BatchStep
       DEF Execute, Goto, store, platform, JournalInv, Truth, Unknown, Unrecorded, Parts
<1>8. ASSUME Respond PROVE JournalInv'
  <2>1. /\ cur \in Command /\ part \in Parts /\ InBatch(cur) /\ ~Unknown /\ result \in Ends
        /\ journal[cur].state = "dispatching" /\ journal[cur].part = part
        /\ result = "accepted" => runs[cur][part] = 1
        /\ result \in {"rejected", "unavailable"} => runs[cur][part] = 0
        /\ part = 1 => runs[cur][2] = 0
        /\ part = 2 => Last(cur) = 2
        /\ UNCHANGED <<row, runs, rebuilt, drained>>
    BY <1>8 DEF Respond, LoopTypes, LoopInv, JournalInv, Executing, platform
  <2>2. CASE result = "accepted" /\ part < Last(cur)
    <3>1. part = 1 /\ Last(cur) = 2
      BY <2>1, <2>2, LastIsTwo
    <3>2. \A s \in Command : journal'[s] = IF s = cur THEN Dispatching(2) ELSE journal[s]
      BY <1>8, <2>1, <2>2, Recorded DEF Respond
    <3> QED
      BY <2>1, <2>2, <3>1, <3>2, Fields, BatchStep DEF JournalInv, Truth, Unknown, Unrecorded
  <2>3. CASE ~(result = "accepted" /\ part < Last(cur))
    <3>1. Truth(cur, result)
      <4>1. result = "accepted" => part = Last(cur)
        BY <2>1, <2>3 DEF Last, Parts
      <4>2. Last(cur) = part \/ (Last(cur) = 2 /\ part = 1) \/ (Last(cur) = 1 /\ part = 2)
        BY <2>1 DEF Last, Parts
      <4> QED
        BY <2>1, <4>1, <4>2 DEF Truth, Ends
    <3>2. \A s \in Command : journal'[s] = journal[s] \/ (s = cur /\ journal'[s] = Completed(result))
      BY <1>8, <2>1, <2>3, Recorded DEF Respond
    <3> QED
      BY <2>1, <3>1, <3>2, Fields, BatchStep
         DEF JournalInv, Truth, Unknown, Unrecorded, Ends, Outcomes
  <2> QED
    BY <2>2, <2>3
<1>9. ASSUME Forget PROVE JournalInv'
  BY <1>9, BatchStep, DoneStep, Fields, Recorded, LastIsPart, <1>a, BatchKept
     DEF Forget, platform, late, faults, JournalInv, Truth, Unknown, Unrecorded, LoopInv,
      RowInv
<1>10. ASSUME RestartRebuilt PROVE JournalInv'
  <2>1. \A c \in Command : journal'[c] = NoEntry
    BY <1>10 DEF RestartRebuilt
  <2> QED
    BY <1>10, <2>1, Fields DEF RestartRebuilt, JournalInv, Unknown
<1>11. CASE \/ Connect \/ Ask \/ Claim \/ Submit \/ Prepare \/ Finish \/ Tell \/ TellInvalid
            \/ TellNothing \/ Drop \/ ClaimLate \/ Crash \/ Restart
            \/ \E c \in Command : Issue(c) \/ Expire(c)
            \/ \E c \in Command, o \in Outcomes : TellLate(c, o)
            \/ \E c \in Command, p \in Parts : Retire(c, p)
            \/ \E b \in batch : Run(b) /\ (RunCompleted(b.id) \/ RunFails(b.id))
            \/ UNCHANGED vars
  <2>1. UNCHANGED <<journal, runs, rebuilt, drained>>
    BY <1>11 DEF Connect, Ask, Claim, Submit, Prepare, Finish, Tell, TellInvalid, TellNothing, Drop,
        ClaimLate, Crash, Restart, Issue, Expire, TellLate, Retire, Run, RunCompleted,
        RunFails, vars, platform, store, loop, late, faults
  <2> QED
    BY <2>1, BatchStep, DoneStep DEF JournalInv, Truth, Unknown, Unrecorded, InBatch
<1> QED
  BY <1>1, <1>2, <1>3, <1>4, <1>5, <1>6, <1>7, <1>8, <1>9, <1>10, <1>11 DEF Next, Run

\* The request row at which the claim loop is.
LEMMA Became ==
  ASSUME RequestTypes, LoopTypes, at \in Executing, NEW v, Becomes(v), NEW c \in Command, NEW p \in Parts
  PROVE  request'[c][p] = IF c = cur /\ p = part THEN v ELSE request[c][p]
BY DEF RequestTypes, LoopTypes, Becomes, Executing

\* The request rows tell what ran.
LEMMA RequestStep ==
  ASSUME RequestTypes, LoopTypes, RunTypes, RequestInv, LoopInv, [Next]_vars
  PROVE  RequestInv'
<1>1. ASSUME Submit PROVE RequestInv'
  <2>1. /\ at = "submitting"
        /\ cur \in Command
        /\ part \in Parts
        /\ at \in Executing
        /\ UNCHANGED runs
    BY <1>1 DEF Submit, LoopTypes, Executing
  <2> QED
    BY <1>1, <2>1, Became, Fields DEF Submit, Current, RequestInv, LoopInv, Ends
<1>2. ASSUME Prepare PROVE RequestInv'
  <2>1. /\ at = "admitted"
        /\ cur \in Command
        /\ part \in Parts
        /\ at \in Executing
        /\ UNCHANGED runs
    BY <1>2 DEF Prepare, LoopTypes, Executing
  <2> QED
    BY <1>2, <2>1, Became, Fields DEF Prepare, Current, RequestInv, LoopInv, Ends
<1>3. ASSUME Execute PROVE RequestInv'
  <2>1. /\ cur \in Command
        /\ part \in Parts
        /\ request[cur][part].phase = "dispatch_intent"
        /\ UNCHANGED request
    BY <1>3 DEF Execute, LoopTypes, LoopInv, Executing, store
  <2> QED
    BY <1>3, <2>1, ExecuteRuns DEF RequestInv
<1>4. ASSUME Finish PROVE RequestInv'
  <2>1. /\ at = "executed"
        /\ cur \in Command
        /\ part \in Parts
        /\ at \in Executing
        /\ UNCHANGED runs
    BY <1>4 DEF Finish, LoopTypes, Executing
  <2> QED
    BY <1>4, <2>1, Became, Fields DEF Finish, Current, RequestInv, LoopInv, Ends
<1>5. ASSUME RestartRebuilt PROVE RequestInv'
  <2>1. \A s \in Command, q \in Parts : request'[s][q] = NoRequest
    BY <1>5 DEF RestartRebuilt
  <2> QED
    BY <2>1, Fields DEF RequestInv
<1>6. ASSUME NEW c \in Command, NEW p \in Parts, Retire(c, p) PROVE RequestInv'
  <2>1. \A s \in Command, q \in Parts : request'[s][q] = request[s][q] \/ request'[s][q] = NoRequest
    BY <1>6 DEF Retire, RequestTypes
  <2> QED
    BY <1>6, <2>1, Fields DEF Retire, RequestInv
<1>7. CASE \/ Connect \/ Ask \/ Claim \/ Receive \/ Respond \/ Tell \/ TellInvalid
           \/ TellNothing \/ Forget \/ Drop \/ ClaimLate \/ Crash \/ Restart
           \/ \E c \in Command : Issue(c) \/ Expire(c)
           \/ \E c \in Command, o \in Outcomes : TellLate(c, o)
           \/ \E b \in batch : Run(b)
           \/ UNCHANGED vars
  <2>1. UNCHANGED <<request, runs>>
    BY <1>7 DEF Connect, Ask, Claim, Receive, Respond, Tell, TellInvalid, TellNothing, Forget,
        Drop, ClaimLate, Crash, Restart, Issue, Expire, TellLate, Run, vars, platform,
        store, loop, late, faults
  <2> QED
    BY <2>1 DEF RequestInv
<1> QED
  BY <1>1, <1>2, <1>3, <1>4, <1>5, <1>6, <1>7 DEF Next, Run

\* Where the claim loop goes next.
LEMMA LoopGoes ==
  ASSUME JournalTypes
  PROVE  /\ PassEnds => LoopInv'
         /\ Timed => LoopInv'
         /\ \A x : Done(x) => LoopInv'
         /\ \A x \in Command :
              journal'[x].state = "completed" /\ journal'[x].outcome # "full" /\ Send(x, journal'[x].outcome)
                => LoopInv'
         /\ \A x \in Command : Unrecorded(x) /\ UNCHANGED journal /\ Send(x, "full") => LoopInv'
         /\ \A x \in Command, o \in Outcomes \ {"full"} : Complete(x, o) => LoopInv'
<1> USE DEF LoopInv, Executing
<1>1. PassEnds => LoopInv'
  BY DEF PassEnds
<1>2. Timed => LoopInv'
  BY DEF Timed
<1>3. \A x : Done(x) => LoopInv'
  BY <1>1 DEF Done
<1>4. \A x \in Command :
        journal'[x].state = "completed" /\ journal'[x].outcome # "full" /\ Send(x, journal'[x].outcome)
          => LoopInv'
  BY <1>1 DEF Send
<1>5. \A x \in Command : Unrecorded(x) /\ UNCHANGED journal /\ Send(x, "full") => LoopInv'
  BY <1>1 DEF Send, Unrecorded
<1>6. ASSUME NEW x \in Command, NEW o \in Outcomes \ {"full"}, Complete(x, o)
      PROVE  LoopInv'
  <2>1. CASE HasRoom(x)
    <3>1. journal'[x] = Completed(o) /\ Send(x, o)
      BY <1>6, <2>1 DEF Complete, JournalTypes
    <3>2. journal'[x].state = "completed" /\ journal'[x].outcome = o
      BY <3>1, Fields
    <3> QED
      BY <3>1, <3>2, <1>4
  <2>2. CASE ~HasRoom(x)
    BY <1>6, <2>2, <1>5 DEF Complete, HasRoom
  <2> QED
    BY <2>1, <2>2
<1> QED
  BY <1>1, <1>2, <1>3, <1>4, <1>5, <1>6

\* The claim loop is at a command whose record, row and effect are what its
\* step says.
LEMMA LoopStep ==
  ASSUME IInv, [Next]_vars
  PROVE  LoopInv'
<1> USE DEF IInv, Types
<1>a. \A b \in batch : b.id \in Command
  BY DEF LoopTypes
<1>1. ASSUME Ask PROVE LoopInv'
  BY <1>1 DEF Ask, LoopInv, Executing
<1>2. ASSUME Claim PROVE LoopInv'
  <2>1. at' = "claimed" /\ UNCHANGED <<runs, lateTold>>
    BY <1>2 DEF Claim, late
  <2>2. ASSUME NEW c \in Command, batch' = {} PROVE row[c] \notin {"pending", "claimed"} /\ row'[c] = row[c]
    BY <1>2, <2>2 DEF Claim, HandOut, Claimed
  <2> QED
    BY <2>1, <2>2 DEF LoopInv, Executing, RowInv, ToldInv
<1>3. ASSUME Receive PROVE LoopInv'
  BY <1>3, LoopGoes DEF Receive
<1>4. ASSUME NEW b \in batch, Run(b), RunForgotten(b.id) PROVE LoopInv'
  BY <1>4, <1>a, LoopGoes DEF Run, Outcomes, RunForgotten
<1>5. ASSUME NEW b \in batch, Run(b), RunCompleted(b.id) PROVE LoopInv'
  BY <1>5, <1>a, LoopGoes DEF RunCompleted, JournalInv
<1>6. ASSUME NEW b \in batch, Run(b), RunExpired(b) PROVE LoopInv'
  BY <1>6, <1>a, LoopGoes DEF Run, Outcomes, RunExpired
<1>7. ASSUME NEW b \in batch, Run(b), RunRefused(b) PROVE LoopInv'
  BY <1>7, <1>a, LoopGoes DEF Run, Outcomes, RunRefused
<1>8. ASSUME NEW b \in batch, Run(b), RunNew(b) PROVE LoopInv'
  <2>1. CASE HasRoom(b.id)
    <3>1. journal'[b.id] = Dispatching(1) /\ Submitting(b.id, 1) /\ UNCHANGED <<request, runs>>
      BY <1>8, <1>a, <2>1 DEF RunNew, Run, JournalTypes
    <3>2. runs[b.id][1] = 0
      BY <1>8, <1>a DEF RunNew, JournalInv, InBatch, RunTypes, Parts
    <3> QED
      BY <3>1, <3>2, Fields DEF Submitting, LoopInv, Executing
  <2>2. CASE ~HasRoom(b.id)
    BY <1>8, <1>a, <2>2, LoopGoes DEF RunNew
  <2> QED
    BY <2>1, <2>2
<1>9. ASSUME NEW b \in batch, Run(b), RunReplay(b.id) PROVE LoopInv'
  <2>1. CASE request[b.id][journal[b.id].part] = NoRequest
    BY <1>9, <1>a, <2>1, LoopGoes DEF RunReplay, Outcomes
  <2>2. CASE request[b.id][journal[b.id].part] # NoRequest
    <3>1. /\ journal[b.id].state = "dispatching"
          /\ Submitting(b.id, journal[b.id].part)
          /\ UNCHANGED <<journal, request, runs>>
      BY <1>9, <2>2 DEF RunReplay, Run
    <3> QED
      BY <2>2, <3>1 DEF Submitting, LoopInv, Executing
  <2> QED
    BY <2>1, <2>2
<1>10. ASSUME NEW b \in batch, Run(b), RunFails(b.id) PROVE LoopInv'
  BY <1>10, LoopGoes DEF RunFails
<1>11. ASSUME Submit PROVE LoopInv'
  <2>1. /\ at = "submitting"
        /\ cur \in Command
        /\ part \in Parts
        /\ at \in Executing
        /\ UNCHANGED <<journal, runs>>
    BY <1>11 DEF Submit, LoopTypes, Executing
  <2> QED
    BY <1>11, <2>1, Became, Fields
       DEF Submit, Current, Answered, Goto, RequestInv, LoopInv, Ends, Executing
<1>12. ASSUME Prepare PROVE LoopInv'
  <2>1. /\ at = "admitted"
        /\ cur \in Command
        /\ part \in Parts
        /\ at \in Executing
        /\ UNCHANGED <<journal, runs>>
    BY <1>12 DEF Prepare, LoopTypes, Executing
  <2> QED
    BY <1>12, <2>1, Became, Fields
       DEF Prepare, Current, Answered, Goto, RequestInv, LoopInv, Ends, Executing
<1>13. ASSUME Execute PROVE LoopInv'
  <2>1. cur \in Command /\ part \in Parts /\ UNCHANGED <<journal, request>>
    BY <1>13 DEF Execute, LoopTypes, Executing, store
  <2> QED
    BY <1>13, <2>1, ExecuteRuns DEF Execute, Goto, LoopInv, Executing
<1>14. ASSUME Finish PROVE LoopInv'
  <2>1. /\ at = "executed"
        /\ cur \in Command
        /\ part \in Parts
        /\ at \in Executing
        /\ UNCHANGED <<journal, runs>>
    BY <1>14 DEF Finish, LoopTypes, Executing
  <2> QED
    BY <1>14, <2>1, Became, Fields
       DEF Finish, Current, Answered, Goto, RequestInv, LoopInv, Ends, Executing
<1>15. ASSUME Respond PROVE LoopInv'
  <2>1. /\ cur \in Command /\ part \in Parts /\ result \in Outcomes \ {"full"}
        /\ journal[cur].part = part /\ journal[cur].state = "dispatching"
        /\ part = 1 => runs[cur][2] = 0
        /\ UNCHANGED <<request, runs>>
    BY <1>15 DEF Respond, LoopTypes, LoopInv, JournalInv, Executing, Ends, Outcomes
  <2>2. CASE result = "accepted" /\ part < Last(cur)
    <3>1. part = 1
      BY <2>1, <2>2 DEF Last, Parts
    <3>2. journal'[cur] = Dispatching(2) /\ Submitting(cur, 2)
      BY <1>15, <2>1, <2>2 DEF Respond, JournalTypes
    <3> QED
      BY <2>1, <3>1, <3>2, Fields DEF Submitting, LoopInv, Executing
  <2>3. CASE ~(result = "accepted" /\ part < Last(cur))
    BY <1>15, <2>1, <2>3, LoopGoes DEF Respond
  <2> QED
    BY <2>2, <2>3
<1>16. ASSUME Tell PROVE LoopInv'
  <2>1. /\ at = "completing"
        /\ cur \in Command
        /\ Goto("told")
        /\ UNCHANGED journal
        /\ Settled(cur, result)
        /\ row[cur] \in {"claimed", "done"}
    BY <1>16 DEF Tell, LoopTypes, LoopInv, RowInv, Executing, store
  <2>2. row'[cur] = "done" /\ journal[cur].state # "dispatching"
    BY <2>1, Fields DEF Settled, PlatformTypes, LoopInv, Unrecorded
  <2> QED
    BY <2>1, <2>2 DEF Goto, LoopInv, Executing
<1>17. ASSUME TellInvalid PROVE LoopInv'
  <2>1. /\ at = "completing"
        /\ cur \in Command
        /\ Goto("told")
        /\ UNCHANGED journal
        /\ Settled(cur, "rejected")
        /\ row[cur] \in {"claimed", "done"}
    BY <1>17 DEF TellInvalid, LoopTypes, LoopInv, RowInv, Executing, store
  <2>2. row'[cur] = "done" /\ journal[cur].state # "dispatching"
    BY <2>1, Fields DEF Settled, PlatformTypes, LoopInv, Unrecorded
  <2> QED
    BY <2>1, <2>2 DEF Goto, LoopInv, Executing
<1>18. ASSUME TellNothing PROVE LoopInv'
  BY <1>18, LoopGoes DEF TellNothing
<1>19. ASSUME Forget PROVE LoopInv'
  BY <1>19, LoopGoes DEF Forget
<1>20. ASSUME Drop PROVE LoopInv'
  <2>1. CASE at \in Executing
    BY <1>20, <2>1 DEF Drop, platform, store, LoopInv, Executing
  <2>2. CASE at \notin Executing
    BY <1>20, <2>2, LoopGoes DEF Drop
  <2> QED
    BY <2>1, <2>2
<1>21. ASSUME Crash PROVE LoopInv'
  BY <1>21, LoopGoes DEF Crash
<1>22. ASSUME RestartRebuilt PROVE LoopInv'
  BY <1>22 DEF RestartRebuilt, Down, loop, LoopInv, Executing
<1>23. ASSUME NEW c \in Command, NEW p \in Parts, Retire(c, p) PROVE LoopInv'
  <2>1. /\ UNCHANGED <<row, at, batch, cur, part, result, journal, runs, lateTold>>
        /\ (cur \in Command => request'[cur] = request[cur])
    BY <1>23 DEF Retire, platform, loop, late, RequestTypes
  <2> QED
    BY <1>23, <2>1 DEF LoopInv, LoopTypes, Executing, Unrecorded
<1>24. CASE \/ Connect \/ ClaimLate \/ Restart
            \/ \E c \in Command : Issue(c) \/ Expire(c)
            \/ \E c \in Command, o \in Outcomes : TellLate(c, o)
            \/ UNCHANGED vars
  <2>1. /\ UNCHANGED <<at, batch, cur, part, result, journal, request, runs>>
        /\ lateTold' \subseteq lateTold
    BY <1>24 DEF Connect, ClaimLate, Restart, Issue, Expire, TellLate, vars, platform, store, loop,
        late, faults
  <2> QED
    BY <2>1, DoneStep DEF LoopInv, LoopTypes, Executing, Unrecorded
<1> QED
  BY <1>1, <1>2, <1>3, <1>4, <1>5, <1>6, <1>7, <1>8, <1>9, <1>10, <1>11, <1>12, <1>13,
      <1>14, <1>15, <1>16, <1>17, <1>18, <1>19, <1>20, <1>21, <1>22, <1>23, <1>24 DEF Next, Run

\* Nothing is on its way in a daemon that is down.
LEMMA DownStep ==
  ASSUME Down, [Next]_vars
  PROVE  Down'
<1>1. ASSUME Connect PROVE Down'
  BY <1>1 DEF Connect, Down, loop
<1>2. ASSUME Ask PROVE Down'
  BY <1>2 DEF Ask, Down
<1>3. ASSUME Claim PROVE Down'
  BY <1>3 DEF Claim, Down
<1>4. ASSUME Receive PROVE Down'
  BY <1>4 DEF Receive, Down
<1>5. ASSUME NEW b \in batch, Run(b), RunForgotten(b.id) PROVE Down'
  BY <1>5 DEF RunForgotten, Run, Down
<1>6. ASSUME NEW b \in batch, Run(b), RunCompleted(b.id) PROVE Down'
  BY <1>6 DEF RunCompleted, Run, Down
<1>7. ASSUME NEW b \in batch, Run(b), RunExpired(b) PROVE Down'
  BY <1>7 DEF RunExpired, Run, Down
<1>8. ASSUME NEW b \in batch, Run(b), RunRefused(b) PROVE Down'
  BY <1>8 DEF RunRefused, Run, Down
<1>9. ASSUME NEW b \in batch, Run(b), RunNew(b) PROVE Down'
  BY <1>9 DEF RunNew, Run, Down
<1>10. ASSUME NEW b \in batch, Run(b), RunReplay(b.id) PROVE Down'
  BY <1>10 DEF RunReplay, Run, Down
<1>11. ASSUME NEW b \in batch, Run(b), RunFails(b.id) PROVE Down'
  BY <1>11 DEF RunFails, Run, Down, PassEnds
<1>12. ASSUME Submit PROVE Down'
  BY <1>12 DEF Submit, Down
<1>13. ASSUME Prepare PROVE Down'
  BY <1>13 DEF Prepare, Down
<1>14. ASSUME Execute PROVE Down'
  BY <1>14 DEF Execute, Down
<1>15. ASSUME Finish PROVE Down'
  BY <1>15 DEF Finish, Down
<1>16. ASSUME Respond PROVE Down'
  BY <1>16 DEF Respond, Down
<1>17. ASSUME Tell PROVE Down'
  BY <1>17 DEF Tell, Down
<1>18. ASSUME TellInvalid PROVE Down'
  BY <1>18 DEF TellInvalid, Down
<1>19. ASSUME TellNothing PROVE Down'
  BY <1>19 DEF TellNothing, Down
<1>20. ASSUME Forget PROVE Down'
  BY <1>20 DEF Forget, Down
<1>21. ASSUME Drop PROVE Down'
  BY <1>21 DEF Drop, Down, PassEnds
<1>22. ASSUME Crash PROVE Down'
  BY <1>22 DEF Crash, Down, PassEnds
<1>23. ASSUME Restart PROVE Down'
  BY <1>23 DEF Restart, Down, loop
<1>24. ASSUME RestartRebuilt PROVE Down'
  BY <1>24 DEF RestartRebuilt, Down, loop
<1>25. CASE \/ ClaimLate
            \/ \E c \in Command : Issue(c) \/ Expire(c)
            \/ \E c \in Command, o \in Outcomes : TellLate(c, o)
            \/ \E c \in Command, p \in Parts : Retire(c, p)
            \/ UNCHANGED vars
  <2>1. UNCHANGED <<up, connected, at>>
    BY <1>25 DEF ClaimLate, Issue, Expire, TellLate, Retire, vars, platform, store, loop, late,
        faults
  <2> QED
    BY <2>1 DEF Down
<1> QED
  BY <1>1, <1>2, <1>3, <1>4, <1>5, <1>6, <1>7, <1>8, <1>9, <1>10, <1>11, <1>12, <1>13,
      <1>14, <1>15, <1>16, <1>17, <1>18, <1>19, <1>20, <1>21, <1>22, <1>23, <1>24, <1>25 DEF Next, Run

-----------------------------------------------------------------------------
(* Answers *)

\* What is over stays over, unless an empty batch ends the doubt about a
\* store that forgot: nothing that is still to be answered is then left.
LEMMA OverStep ==
  ASSUME IInv, NEW s \in Command, Over(s), at = "claimed" /\ batch = {} => row[s] = "done", [Next]_vars
  PROVE  Over(s)'
<1> USE DEF IInv, Types
<1>a. \A b \in batch : b.id \in Command
  BY DEF LoopTypes
<1>b. row[s] = "done" /\ ~InBatch(s) => row'[s] = "done" /\ ~InBatch(s)'
  BY DoneStep, BatchStep
<1>1. ASSUME Receive PROVE Over(s)'
  <2>1. batch = {} => ~InBatch(s) /\ row[s] = "done"
    BY <1>1 DEF Receive, InBatch
  <2>2. ~Unknown' => ~Unknown \/ batch = {}
    BY <1>1 DEF Receive, Unknown
  <2> QED
    BY <1>1, <1>b, <2>1, <2>2 DEF Receive, Over
<1>2. ASSUME NEW b \in batch, Run(b), RunForgotten(b.id) PROVE Over(s)'
  BY <1>2, <1>a, <1>b, Fields, Recorded DEF Run, RunForgotten, Over, Unrecorded, Unknown
<1>3. ASSUME NEW b \in batch, Run(b), RunExpired(b) PROVE Over(s)'
  BY <1>3, <1>a, <1>b, Fields, Recorded DEF Run, RunExpired, Over, Unrecorded, Unknown
<1>4. ASSUME NEW b \in batch, Run(b), RunRefused(b) PROVE Over(s)'
  BY <1>4, <1>a, <1>b, Fields, Recorded DEF Run, RunRefused, Over, Unrecorded, Unknown
<1>5. ASSUME NEW b \in batch, Run(b), RunNew(b) PROVE Over(s)'
  BY <1>5, <1>a, <1>b, Fields, Recorded DEF Run, RunNew, Over, Unrecorded, Unknown
<1>6. ASSUME NEW b \in batch, Run(b), RunReplay(b.id) PROVE Over(s)'
  BY <1>6, <1>a, <1>b, Fields, Recorded DEF Run, RunReplay, Over, Unrecorded, Unknown
<1>7. ASSUME Respond PROVE Over(s)'
  <2>1. cur \in Command /\ journal[cur].state = "dispatching"
    BY <1>7 DEF Respond, LoopTypes, LoopInv, Executing
  <2> QED
    BY <1>7, <1>b, <2>1, Fields, Recorded DEF Respond, Over, Unknown
<1>8. ASSUME Forget PROVE Over(s)'
  <2>1. cur \in Command /\ row[cur] = "done" /\ Done(cur)
    BY <1>8 DEF Forget, LoopTypes, LoopInv
  <2>2. s = cur => row[s] = "done" /\ ~InBatch(s)'
    BY <2>1, BatchKept
  <2>3. row'[s] = row[s] /\ UNCHANGED <<rebuilt, drained>> /\ (s # cur => journal'[s] = journal[s])
    BY <1>8, <2>1 DEF Forget, platform, JournalTypes
  <2> QED
    BY <1>b, <2>2, <2>3 DEF Over, Unknown
<1>9. ASSUME RestartRebuilt PROVE Over(s)'
  BY <1>9 DEF RestartRebuilt, Over, Unknown
<1>10. CASE \/ Connect \/ Ask \/ Claim \/ Submit \/ Prepare \/ Execute \/ Finish \/ Tell
            \/ TellInvalid \/ TellNothing \/ Drop \/ ClaimLate \/ Crash \/ Restart
            \/ \E c \in Command : Issue(c) \/ Expire(c)
            \/ \E c \in Command, o \in Outcomes : TellLate(c, o)
            \/ \E c \in Command, p \in Parts : Retire(c, p)
            \/ \E b \in batch : Run(b) /\ (RunCompleted(b.id) \/ RunFails(b.id))
            \/ UNCHANGED vars
  <2>1. UNCHANGED <<journal, rebuilt, drained>>
    BY <1>10 DEF Connect, Ask, Claim, Submit, Prepare, Execute, Finish, Tell, TellInvalid,
        TellNothing, Drop, ClaimLate, Crash, Restart, Issue, Expire, TellLate, Retire, Run,
        RunCompleted, RunFails, vars, platform, store, loop, late, faults
  <2> QED
    BY <2>1, <1>b DEF Over, Unknown, InBatch
<1> QED
  BY <1>1, <1>2, <1>3, <1>4, <1>5, <1>6, <1>7, <1>8, <1>9, <1>10 DEF Next, Run

\* Nothing of a command that is over runs.
LEMMA RunsStep ==
  ASSUME IInv, NEW s \in Command, Over(s), [Next]_vars
  PROVE  runs'[s][Last(s)] = runs[s][Last(s)]
<1> DEFINE Still == runs'[s][Last(s)] = runs[s][Last(s)]
<1> USE DEF IInv, Types
<1>1. ASSUME Execute PROVE Still
  <2>1. /\ cur \in Command
        /\ InBatch(cur)
        /\ part \in Parts
        /\ journal[cur].state = "dispatching"
        /\ ~Unknown
    BY <1>1 DEF Execute, LoopTypes, LoopInv, JournalInv, Executing
  <2>2. s # cur /\ Last(s) \in Parts
    BY <2>1 DEF Over, Last, Parts
  <2> QED
    BY <1>1, <2>1, <2>2, ExecuteRuns
<1>2. CASE \/ Connect \/ Ask \/ Claim \/ Receive \/ Submit \/ Prepare \/ Finish \/ Respond
           \/ Tell \/ TellInvalid \/ TellNothing \/ Forget \/ Drop \/ ClaimLate \/ Crash
           \/ Restart \/ RestartRebuilt
           \/ \E c \in Command : Issue(c) \/ Expire(c)
           \/ \E c \in Command, o \in Outcomes : TellLate(c, o)
           \/ \E c \in Command, p \in Parts : Retire(c, p)
           \/ \E b \in batch : Run(b)
           \/ UNCHANGED vars
  <2>1. UNCHANGED runs
    BY <1>2 DEF Connect, Ask, Claim, Receive, Submit, Prepare, Finish, Respond, Tell, TellInvalid,
        TellNothing, Forget, Drop, ClaimLate, Crash, Restart, RestartRebuilt, Issue,
        Expire, TellLate, Retire, Run, vars, platform, store, loop, late, faults
  <2> QED
    BY <2>1
<1> QED
  BY <1>1, <1>2 DEF Next, Run

\* What answers a command, if anything does.
Answers(s) ==
  \/ answer'[s] = answer[s]
  \/ row[s] = "pending" /\ row'[s] = "done" /\ answer'[s] = "expired" /\ UNCHANGED <<batch, runs>>
  \/ /\ UNCHANGED runs
     /\ \/ at = "completing" /\ cur = s /\ answer'[s] = result
        \/ at = "completing" /\ cur = s /\ result # "full" /\ answer'[s] = "rejected" /\ s \in substituted'
        \/ \E o \in Outcomes : <<s, o>> \in lateTold /\ answer'[s] = o

\* Answers come from the expiry, from the claim loop and from late outcomes.
LEMMA AnswerStep ==
  ASSUME PlatformTypes, LoopTypes, NEW s \in Command, [Next]_vars
  PROVE  Answers(s)
<1>1. ASSUME NEW c \in Command, Expire(c) PROVE Answers(s)
  BY <1>1 DEF Expire, Settled, PlatformTypes, Answers, loop
<1>2. ASSUME Tell PROVE Answers(s)
  BY <1>2 DEF Tell, Settled, PlatformTypes, Answers
<1>3. ASSUME TellInvalid PROVE Answers(s)
  BY <1>3 DEF TellInvalid, Settled, PlatformTypes, Answers
<1>4. ASSUME NEW c \in Command, NEW o \in Outcomes, TellLate(c, o) PROVE Answers(s)
  BY <1>4 DEF TellLate, Settled, PlatformTypes, Answers
<1>5. CASE \/ Connect \/ Ask \/ Claim \/ Receive \/ Submit \/ Prepare \/ Execute \/ Finish
           \/ Respond \/ TellNothing \/ Forget \/ Drop \/ ClaimLate \/ Crash \/ Restart
           \/ RestartRebuilt
           \/ \E c \in Command : Issue(c)
           \/ \E c \in Command, p \in Parts : Retire(c, p)
           \/ \E b \in batch : Run(b)
           \/ UNCHANGED vars
  <2>1. UNCHANGED answer
    BY <1>5 DEF Connect, Ask, Claim, Receive, Submit, Prepare, Execute, Finish, Respond,
        TellNothing, Forget, Drop, ClaimLate, Crash, Restart, RestartRebuilt, Issue,
        Retire, Run, vars, platform, store, loop, late, faults
  <2> QED
    BY <2>1 DEF Answers
<1> QED
  BY <1>1, <1>2, <1>3, <1>4, <1>5 DEF Next, Run

\* A substitution is remembered.
LEMMA SubstitutedStep ==
  ASSUME PlatformTypes, [Next]_vars
  PROVE  substituted \subseteq substituted'
<1>1. ASSUME TellInvalid PROVE substituted \subseteq substituted'
  BY <1>1 DEF TellInvalid
<1>2. CASE \/ Connect \/ Ask \/ Claim \/ Receive \/ Submit \/ Prepare \/ Execute \/ Finish
           \/ Respond \/ Tell \/ TellNothing \/ Forget \/ Drop \/ ClaimLate \/ Crash
           \/ Restart \/ RestartRebuilt
           \/ \E c \in Command : Issue(c) \/ Expire(c)
           \/ \E c \in Command, o \in Outcomes : TellLate(c, o)
           \/ \E c \in Command, p \in Parts : Retire(c, p)
           \/ \E b \in batch : Run(b)
           \/ UNCHANGED vars
  <2>1. UNCHANGED substituted
    BY <1>2 DEF Connect, Ask, Claim, Receive, Submit, Prepare, Execute, Finish, Respond, Tell,
        TellNothing, Forget, Drop, ClaimLate, Crash, Restart, RestartRebuilt, Issue,
        Expire, TellLate, Retire, Run, vars, platform, store, loop, late, faults
  <2> QED
    BY <2>1
<1> QED
  BY <1>1, <1>2 DEF Next, Run

\* What arrives late was being completed.
LEMMA LateStep ==
  ASSUME NEW s, NEW x, <<s, x>> \in lateTold', [Next]_vars
  PROVE  <<s, x>> \in lateTold \/ (at = "completing" /\ cur = s /\ result = x)
<1> DEFINE Known == <<s, x>> \in lateTold \/ (at = "completing" /\ cur = s /\ result = x)
<1>1. ASSUME Drop PROVE Known
  BY <1>1 DEF Drop, Stray
<1>2. ASSUME NEW c \in Command, NEW o \in Outcomes, TellLate(c, o) PROVE Known
  BY <1>2 DEF TellLate
<1>3. ASSUME Crash PROVE Known
  BY <1>3 DEF Crash, Stray
<1>4. CASE \/ Connect \/ Ask \/ Claim \/ Receive \/ Submit \/ Prepare \/ Execute \/ Finish
           \/ Respond \/ Tell \/ TellInvalid \/ TellNothing \/ Forget \/ ClaimLate \/ Restart
           \/ RestartRebuilt
           \/ \E c \in Command : Issue(c) \/ Expire(c)
           \/ \E c \in Command, p \in Parts : Retire(c, p)
           \/ \E b \in batch : Run(b)
           \/ UNCHANGED vars
  <2>1. UNCHANGED lateTold
    BY <1>4 DEF Connect, Ask, Claim, Receive, Submit, Prepare, Execute, Finish, Respond, Tell,
        TellInvalid, TellNothing, Forget, ClaimLate, Restart, RestartRebuilt, Issue,
        Expire, Retire, Run, vars, platform, store, loop, late, faults
  <2> QED
    BY <2>1
<1> QED
  BY <1>1, <1>2, <1>3, <1>4 DEF Next, Run

\* The answers, and the outcomes that are still on their way, are true.
LEMMA ToldStep ==
  ASSUME IInv, [Next]_vars PROVE ToldInv'
<1> USE DEF IInv, Types
<1> SUFFICES ASSUME NEW s \in Command
             PROVE  /\ answer'[s] \notin {"none", "full"} =>
                         Over(s)' /\ (answer'[s] = "accepted" \/ s \notin substituted' => Truth(s, answer[s])')
                    /\ \A o \in Outcomes : <<s, o>> \in lateTold' =>
                         /\ row'[s] \in {"claimed", "done"}
                         /\ o # "full" => Over(s)' /\ Truth(s, o)'
  BY DEF ToldInv
<1>1. /\ row[s] \in {"claimed", "done"} => row'[s] \in {"claimed", "done"}
      /\ at = "claimed" /\ batch = {} => (\A o \in Outcomes : <<s, o>> \in lateTold => row[s] = "done")
  BY DoneStep DEF LoopInv
<1>2. ASSUME NEW o \in Outcomes, Over(s), Truth(s, o), at = "claimed" /\ batch = {} => row[s] = "done"
      PROVE  Over(s)' /\ Truth(s, o)'
  BY <1>2, OverStep, RunsStep DEF Truth
<1>3. ASSUME at = "completing", cur = s, result # "full"
      PROVE  result \in Outcomes /\ Over(s) /\ Truth(s, result)
  BY <1>3 DEF LoopInv, JournalInv, Over
<1>4. ASSUME answer'[s] \notin {"none", "full"}
      PROVE  Over(s)' /\ (answer'[s] = "accepted" \/ s \notin substituted' => Truth(s, answer[s])')
  <2>1. CASE answer'[s] = answer[s]
    <3>1. row[s] = "done" /\ Over(s) /\ answer[s] \in Outcomes
      BY <1>4, <2>1 DEF RowInv, ToldInv, PlatformTypes
    <3>2. Over(s)' /\ runs'[s][Last(s)] = runs[s][Last(s)]
      BY <3>1, OverStep, RunsStep
    <3>3. s \notin substituted' => s \notin substituted
      BY SubstitutedStep
    <3> QED
      BY <1>4, <2>1, <3>2, <3>3 DEF ToldInv, Truth
  <2>2. CASE /\ row[s] = "pending"
             /\ row'[s] = "done"
             /\ answer'[s] = "expired"
             /\ UNCHANGED <<batch, runs>>
    <3>1. ~InBatch(s)' /\ Over(s)'
      BY <2>2 DEF RowInv, InBatch, Over
    <3>2. runs'[s][Last(s)] = 0
      BY <2>2 DEF RowInv, RunTypes, Last, Parts
    <3> QED
      BY <2>2, <3>1, <3>2 DEF Truth
  <2>3. CASE at = "completing" /\ cur = s /\ answer'[s] = result
    BY <1>2, <1>3, <1>4, <2>3
  <2>4. CASE /\ at = "completing"
             /\ cur = s
             /\ result # "full"
             /\ answer'[s] = "rejected"
             /\ s \in substituted'
    BY <1>2, <1>3, <2>4
  <2>5. CASE \E o \in Outcomes : <<s, o>> \in lateTold /\ answer'[s] = o
    <3>1. PICK o \in Outcomes : <<s, o>> \in lateTold /\ answer'[s] = o
      BY <2>5
    <3> QED
      BY <1>1, <1>2, <1>4, <3>1 DEF ToldInv
  <2> QED
    BY <2>1, <2>2, <2>3, <2>4, <2>5, AnswerStep DEF Answers
<1>5. ASSUME NEW o \in Outcomes, <<s, o>> \in lateTold'
      PROVE  /\ row'[s] \in {"claimed", "done"}
             /\ o # "full" => Over(s)' /\ Truth(s, o)'
  <2>1. CASE <<s, o>> \in lateTold
    BY <1>1, <1>2, <2>1 DEF ToldInv
  <2>2. CASE at = "completing" /\ cur = s /\ result = o
    <3>1. row[s] \in {"claimed", "done"}
      BY <2>2 DEF LoopTypes, RowInv
    <3> QED
      BY <1>1, <1>2, <1>3, <2>2, <3>1
  <2> QED
    BY <1>5, <2>1, <2>2, LateStep
<1> QED
  BY <1>4, <1>5

-----------------------------------------------------------------------------
(* The capacity of the journal *)

\* What the journal holds.
Recs == {c \in Command : journal[c] # NoEntry}

\* A step that leaves the records as they are, or adds one where there is room.
RoomKept(x) == Recs' \subseteq Recs \/ (Recs' \subseteq Recs \cup {x} /\ Entries < Capacity)

\* An entry is written only over another or where there is room.
LEMMA Recording ==
  ASSUME JournalTypes, NEW x \in Command
  PROVE  /\ \A e : HasRoom(x) /\ journal' = [journal EXCEPT ![x] = e] => RoomKept(x)
         /\ \A o : Complete(x, o) => RoomKept(x)
<1>1. ASSUME NEW e, HasRoom(x), journal' = [journal EXCEPT ![x] = e]
      PROVE  RoomKept(x)
  <2>1. \A c \in Command : c # x => journal'[c] = journal[c]
    BY <1>1 DEF JournalTypes
  <2>2. Recs' \subseteq Recs \cup {x}
    BY <2>1 DEF Recs
  <2>3. ~Unrecorded(x) => x \in Recs
    BY DEF Unrecorded, Recs
  <2> QED
    BY <1>1, <2>2, <2>3 DEF HasRoom, RoomKept
<1>2. ASSUME NEW o, Complete(x, o)
      PROVE  RoomKept(x)
  <2>1. CASE HasRoom(x)
    BY <1>1, <1>2, <2>1 DEF Complete
  <2>2. CASE ~HasRoom(x)
    BY <1>2, <2>2 DEF Complete, RoomKept, Recs
  <2> QED
    BY <2>1, <2>2
<1> QED
  BY <1>1, <1>2

\* A step adds at most one entry.
LEMMA RecordStep ==
  ASSUME JournalTypes, LoopTypes, LoopInv, [Next]_vars
  PROVE  (\E x \in Command : RoomKept(x)) \/ Recs' \subseteq Recs
<1> DEFINE RecordedWell == (\E x \in Command : RoomKept(x)) \/ Recs' \subseteq Recs
<1>a. \A b \in batch : b.id \in Command
  BY DEF LoopTypes
<1>1. ASSUME NEW b \in batch, Run(b), RunForgotten(b.id) PROVE RecordedWell
  <2>1. RoomKept(b.id) \/ UNCHANGED journal
    BY <1>1, <1>a, Recording DEF RunForgotten
  <2> QED
    BY <1>a, <2>1 DEF Recs
<1>2. ASSUME NEW b \in batch, Run(b), RunExpired(b) PROVE RecordedWell
  <2>1. RoomKept(b.id) \/ UNCHANGED journal
    BY <1>2, <1>a, Recording DEF RunExpired
  <2> QED
    BY <1>a, <2>1 DEF Recs
<1>3. ASSUME NEW b \in batch, Run(b), RunRefused(b) PROVE RecordedWell
  <2>1. RoomKept(b.id) \/ UNCHANGED journal
    BY <1>3, <1>a, Recording DEF RunRefused
  <2> QED
    BY <1>a, <2>1 DEF Recs
<1>4. ASSUME NEW b \in batch, Run(b), RunNew(b) PROVE RecordedWell
  <2>1. RoomKept(b.id) \/ UNCHANGED journal
    BY <1>4, <1>a, Recording DEF RunNew
  <2> QED
    BY <1>a, <2>1 DEF Recs
<1>5. ASSUME NEW b \in batch, Run(b), RunReplay(b.id) PROVE RecordedWell
  <2>1. RoomKept(b.id) \/ UNCHANGED journal
    BY <1>5, <1>a, Recording DEF RunReplay, Submitting
  <2> QED
    BY <1>a, <2>1 DEF Recs
<1>6. ASSUME Respond PROVE RecordedWell
  <2>1. cur \in Command /\ ~Unrecorded(cur)
    BY <1>6, Fields DEF Respond, LoopTypes, LoopInv, Unrecorded, Executing
  <2>2. RoomKept(cur)
    BY <1>6, <2>1, Recording DEF Respond, HasRoom
  <2> QED
    BY <2>1, <2>2
<1>7. ASSUME Forget PROVE RecordedWell
  <2>1. \A c \in Command : journal'[c] = journal[c] \/ journal'[c] = NoEntry
    BY <1>7 DEF Forget, JournalTypes
  <2> QED
    BY <2>1 DEF Recs
<1>8. ASSUME RestartRebuilt PROVE RecordedWell
  <2>1. \A c \in Command : journal'[c] = NoEntry
    BY <1>8 DEF RestartRebuilt
  <2> QED
    BY <2>1 DEF Recs
<1>9. CASE \/ Connect \/ Ask \/ Claim \/ Receive \/ Submit \/ Prepare \/ Execute \/ Finish
           \/ Tell \/ TellInvalid \/ TellNothing \/ Drop \/ ClaimLate \/ Crash \/ Restart
           \/ \E c \in Command : Issue(c) \/ Expire(c)
           \/ \E c \in Command, o \in Outcomes : TellLate(c, o)
           \/ \E c \in Command, p \in Parts : Retire(c, p)
           \/ \E b \in batch : Run(b) /\ (RunCompleted(b.id) \/ RunFails(b.id))
           \/ UNCHANGED vars
  <2>1. UNCHANGED journal
    BY <1>9 DEF Connect, Ask, Claim, Receive, Submit, Prepare, Execute, Finish, Tell, TellInvalid,
        TellNothing, Drop, ClaimLate, Crash, Restart, Issue, Expire, TellLate, Retire, Run,
        RunCompleted, RunFails, vars, platform, store, loop, late, faults
  <2> QED
    BY <2>1 DEF Recs
<1> QED
  BY <1>1, <1>2, <1>3, <1>4, <1>5, <1>6, <1>7, <1>8, <1>9 DEF Next, Run

\* The journal stays within its capacity.
LEMMA RoomStep ==
  ASSUME JournalTypes, LoopTypes, LoopInv, Room, [Next]_vars PROVE Room'
<1>1. IsFiniteSet(Recs) /\ Entries = Cardinality(Recs) /\ Entries' = Cardinality(Recs')
  BY RemoteCommandsAssumption, FS_Subset DEF Recs, Entries
<1>2. Cardinality(Recs) \in Nat /\ Cardinality(Recs) <= Capacity /\ Capacity \in Nat
  BY <1>1, FS_CardinalityType, RemoteCommandsAssumption DEF Room
<1>3. CASE Recs' \subseteq Recs
  <2>1. Cardinality(Recs') <= Cardinality(Recs) /\ Cardinality(Recs') \in Nat
    BY <1>1, <1>3, FS_Subset, FS_CardinalityType
  <2> QED
    BY <1>1, <1>2, <2>1 DEF Room
<1>4. ASSUME NEW x \in Command, Recs' \subseteq Recs \cup {x}, Entries < Capacity
      PROVE  Room'
  <2>1. IsFiniteSet(Recs \cup {x}) /\ Cardinality(Recs \cup {x}) <= Cardinality(Recs) + 1
    BY <1>1, <1>2, FS_AddElement
  <2>2. /\ Cardinality(Recs') <= Cardinality(Recs \cup {x})
        /\ Cardinality(Recs') \in Nat /\ Cardinality(Recs \cup {x}) \in Nat
    BY <1>4, <2>1, FS_Subset, FS_CardinalityType
  <2> QED
    BY <1>1, <1>2, <1>4, <2>1, <2>2 DEF Room
<1> QED
  BY <1>3, <1>4, RecordStep DEF RoomKept

-----------------------------------------------------------------------------
(* The theorems *)

\* The invariant holds at first.
LEMMA InitInv == Init => IInv
<1> SUFFICES ASSUME Init PROVE IInv
  OBVIOUS
<1>1. \A c \in Command : /\ row[c] = "absent" /\ answer[c] = "none" /\ journal[c] = NoEntry
                         /\ \A p \in Parts : runs[c][p] = 0 /\ request[c][p] = NoRequest
  BY DEF Init
<1>2. NoEntry \in Entry /\ NoRequest \in RequestRow
  BY DEF NoEntry, Entry, NoRequest, RequestRow, Parts
<1>3. Types
  BY <1>2
     DEF Init, Types, PlatformTypes, JournalTypes, RequestTypes, LoopTypes, RunTypes, Parts,
         Executing
<1>4. RowInv /\ JournalInv
  BY <1>1, Fields DEF Init, RowInv, JournalInv, InBatch, Parts
<1>5. RequestInv /\ LoopInv /\ ToldInv /\ Down
  BY <1>1, Fields DEF Init, RequestInv, LoopInv, ToldInv, Down, Executing
<1>6. Room
  <2>1. {c \in Command : journal[c] # NoEntry} = {}
    BY <1>1
  <2> QED
    BY <2>1, FS_EmptySet, RemoteCommandsAssumption DEF Room, Entries
<1> QED
  BY <1>3, <1>4, <1>5, <1>6 DEF IInv

\* Every step keeps it.
LEMMA Inductive ==
  ASSUME IInv, [Next]_vars PROVE IInv'
<1>1. (result # "none" \/ at # "completing") /\ (result # "none" \/ at # "answered")
  BY DEF IInv, Types, LoopTypes, LoopInv, JournalInv, Outcomes, Ends
<1>2. Types'
  BY <1>1, PlatformTypesStep, JournalTypesStep, RequestTypesStep, LoopTypesStep, RunTypesStep
     DEF IInv, Types
<1>3. RowInv' /\ JournalInv' /\ RequestInv' /\ LoopInv' /\ ToldInv'
  BY RowStep, JournalStep, RequestStep, LoopStep, ToldStep DEF IInv, Types
<1>4. Room' /\ Down'
  BY RoomStep, DownStep DEF IInv, Types
<1> QED
  BY <1>2, <1>3, <1>4 DEF IInv

\* The inductive invariant.
THEOREM RemoteCommandsInvariant == Spec => []IInv
<1>1. IInv /\ [Next]_vars => IInv'
  BY Inductive
<1> QED
  BY <1>1, InitInv, PTL DEF Spec

\* The types of the state; the journal never holds more than its capacity.
THEOREM RemoteCommandsTypes == Spec => []TypeOK
<1>1. IInv => TypeOK
  <2>1. ASSUME IInv PROVE TypeOK
    <3>1. \A c \in Command : /\ journal[c].state \in {"none", "dispatching", "completed"}
                             /\ journal[c].outcome \in Outcomes \cup {"none"}
      BY <2>1 DEF IInv, Types, JournalTypes, Entry
    <3>2. \A c \in Command, p \in Parts :
            request[c][p].phase \in {"absent", "intent", "dispatch_intent", "terminal"}
      BY <2>1 DEF IInv, Types, RequestTypes, RequestRow
    <3>3. connected => up
      BY <2>1 DEF IInv, Down
    <3> QED
      BY <2>1, <3>1, <3>2, <3>3 DEF IInv, Types, PlatformTypes, LoopTypes, Room, TypeOK
  <2> QED
    BY <2>1
<1> QED
  BY <1>1, RemoteCommandsInvariant, PTL

\* A command of the web runs at most once, and its prompt only after its
\* session was created: commands.ts, command-journal.ts and receiveRemote
\* together, under any number of lost calls, deaths and rebuilds.
THEOREM CommandsRunOnce == Spec => []RunsOnce
<1>1. IInv /\ TypeOK => RunsOnce
  BY DEF IInv, Types, RunTypes, RowInv, RunsOnce, Parts
<1> QED
  BY <1>1, RemoteCommandsInvariant, RemoteCommandsTypes, PTL

\* What the platform is told of a command is what became of it.
THEOREM CommandsTruthful == Spec => []Truthful
<1>1. IInv => Truthful
  BY DEF IInv, ToldInv, Truth, Truthful
<1> QED
  BY <1>1, RemoteCommandsInvariant, PTL

-----------------------------------------------------------------------------
(* The refinement: for the web a command is a request of module Commands *)

Stage(c) == IF row[c] = "absent" THEN "new"
            ELSE IF row[c] = "done" /\ answer[c] # "full" THEN "settled"
            ELSE "taken"
Verdict(c) == CASE answer[c] = "expired" -> "rejected"
                [] answer[c] = "full" -> "none"
                [] OTHER -> answer[c]

\* Every step leaves a command as it is, or is a step of the contract.
LEMMA StepMoves ==
  ASSUME IInv, IInv', [Next]_vars, NEW c \in Command
  PROVE  \/ Contract!Step(c)
         \/ /\ Stage(c)' = Stage(c) /\ Verdict(c)' = Verdict(c)
            /\ runs'[c][Last(c)] = runs[c][Last(c)]
<1> USE DEF IInv, Types
<1>1. /\ row[c] \in {"absent", "pending", "claimed", "done"}
      /\ row'[c] \in {"absent", "pending", "claimed", "done"}
      /\ row[c] = "done" <=> answer[c] # "none"
      /\ row'[c] = "done" <=> answer'[c] # "none"
      /\ row[c] = "done" => row'[c] = "done" /\ answer'[c] = answer[c]
      /\ row[c] = "absent" => row'[c] \in {"absent", "pending"}
      /\ row[c] # "absent" => row'[c] # "absent"
  BY DoneStep, IssueStep DEF PlatformTypes, RowInv
<1>2. /\ \/ runs'[c][Last(c)] = runs[c][Last(c)]
         \/ runs[c][Last(c)] = 0 /\ runs'[c][Last(c)] = 1
      /\ row[c] \in {"absent", "pending"} => runs[c][Last(c)] = 0
      /\ row'[c] \in {"absent", "pending"} => runs'[c][Last(c)] = 0
  <2>1. Last(c) \in Parts
    BY LastIsPart
  <2>2. /\ row[c] \in {"absent", "pending"} => runs[c][1] = 0 /\ runs[c][2] = 0
        /\ row'[c] \in {"absent", "pending"} => runs'[c][1] = 0 /\ runs'[c][2] = 0
    BY DEF RowInv, RunTypes, Parts
  <2> QED
    BY <2>1, <2>2, EffectStep DEF Parts
<1>3. CASE row[c] = "absent"
  BY <1>1, <1>2, <1>3 DEF Stage, Verdict, Contract!Step, Contract!Take
<1>4. CASE row[c] \in {"pending", "claimed"} /\ row'[c] # "done"
  BY <1>1, <1>2, <1>4 DEF Stage, Verdict, Contract!Step, Contract!Execute
<1>5. CASE row[c] \in {"pending", "claimed"} /\ row'[c] = "done"
  <2>1. ASSUME NEW o \in Outcomes, answer'[c] = o, runs'[c] = runs[c],
               o # "full" => o = "rejected" \/ Truth(c, o)
        PROVE  \/ Contract!Step(c)
               \/ /\ Stage(c)' = Stage(c) /\ Verdict(c)' = Verdict(c)
                  /\ runs'[c][Last(c)] = runs[c][Last(c)]
    BY <1>1, <1>5, <2>1 DEF Truth, Outcomes, Stage, Verdict, Contract!Step, Contract!Settle
  <2>2. answer'[c] # answer[c]
    BY <1>1, <1>5
  <2>3. CASE row[c] = "pending" /\ answer'[c] = "expired" /\ UNCHANGED runs
    BY <1>2, <2>1, <2>3 DEF Truth, Outcomes
  <2>4. CASE UNCHANGED runs /\ at = "completing" /\ cur = c /\ answer'[c] = result
    <3>1. result # "none" /\ result \in Outcomes \cup {"none"}
      BY <1>1, <1>5, <2>4 DEF LoopTypes
    <3>2. result # "full" => Truth(c, result)
      BY <2>4 DEF LoopInv, JournalInv
    <3> QED
      BY <2>1, <2>4, <3>1, <3>2
  <2>5. CASE UNCHANGED runs /\ answer'[c] = "rejected"
    BY <2>1, <2>5 DEF Outcomes
  <2>6. CASE UNCHANGED runs /\ \E o \in Outcomes : <<c, o>> \in lateTold /\ answer'[c] = o
    <3>1. PICK o \in Outcomes : <<c, o>> \in lateTold /\ answer'[c] = o
      BY <2>6
    <3> QED
      BY <2>1, <2>6, <3>1 DEF ToldInv
  <2> QED
    BY <2>2, <2>3, <2>4, <2>5, <2>6, AnswerStep DEF Answers
<1>6. CASE row[c] = "done" /\ answer[c] = "full"
  BY <1>1, <1>2, <1>6 DEF Stage, Verdict, Contract!Step, Contract!Execute
<1>7. CASE row[c] = "done" /\ answer[c] # "full"
  <2>1. Over(c)
    BY <1>1, <1>7 DEF ToldInv
  <2> QED
    BY <1>1, <1>7, <2>1, RunsStep DEF Stage, Verdict
<1> QED
  BY <1>1, <1>3, <1>4, <1>5, <1>6, <1>7

\* For the web the daemon implements the contract that durable admission
\* implements for the clients of the daemon.
THEOREM CommandsRefinement == Spec => ImplementsCommands
<1>1. Init => Contract!Init
  <2>1. \A c \in Command : Last(c) \in Parts
    BY LastIsPart
  <2> QED
    BY <2>1 DEF Init, Contract!Init
<1>2. IInv /\ IInv' /\ [Next]_vars => [Contract!Next]_(Contract!vars)
  <2>1. ASSUME IInv, IInv', [Next]_vars, NEW c \in Command
        PROVE  Contract!Step(c) \/ Contract!view(c)' = Contract!view(c)
    BY <2>1, StepMoves DEF Stage, Verdict, Contract!view
  <2> QED
    BY <2>1 DEF Contract!Next
<1> QED
  BY <1>1, <1>2, RemoteCommandsInvariant, PTL DEF Spec, ImplementsCommands, Contract!Spec
=============================================================================
