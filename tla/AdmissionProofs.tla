--------------------------- MODULE AdmissionProofs ---------------------------
(***************************************************************************)
(* Proofs about Admission for every set of requests, callers, identities   *)
(* and lanes, every limit and any number of crashes.                       *)
(***************************************************************************)
EXTENDS Admission, FiniteSetTheorems, WellFoundedInduction, TLAPS

\* The row, the promise and the history of a request agree.
RowInv(r) ==
  /\ phase[r] \in {"absent", "intent"} => runs[r] = 0
  /\ phase[r] # "terminal" => outcome[r] = "none"
  /\ phase[r] = "terminal" => outcome[r] \in Outcomes
  /\ runs[r] <= 1
  /\ outcome[r] = "accepted" => runs[r] = 1
  /\ outcome[r] = "unavailable" => runs[r] = 0
  /\ r \in pending => phase[r] # "absent" /\ r \notin aged
  /\ r \in pending /\ phase[r] = "dispatch_intent" /\ pc[r] # "failed" => runs[r] = 1
  /\ up /\ phase[r] \in {"intent", "dispatch_intent"} => r \in pending
  /\ phase[r] = "absent" => r \notin aged

\* Who waits, waits for a pending promise of the identity it submitted.
CallInv(c) ==
  call[c].status = "waiting" => call[c].id \in pending /\ body[call[c].id] = call[c].body

IInv ==
  /\ TypeOK
  /\ ~up => pending = {}
  /\ \A r \in Request : RowInv(r)
  /\ \A c \in Client : CallInv(c)
-----------------------------------------------------------------------------
\* Process death leaves every variable of the process at its initial value.
LEMMA MemoryLostType ==
  ASSUME TypeOK, MemoryLost
  PROVE  /\ up' = FALSE /\ pending' = {}
         /\ pc' \in [Request -> {"idle", "preparing", "settling", "failed"}]
         /\ ahead' \in [Request -> SUBSET Request]
         /\ bytes' \in Int /\ duplicates' \in Int
         /\ call' \in [Client -> Calls]
         /\ crashes' \in 0 .. MaxCrashes
  <1>1. up' = FALSE /\ pending' = {} /\ bytes' \in Int /\ duplicates' \in Int
    BY DEF MemoryLost
  <1>2. pc' \in [Request -> {"idle", "preparing", "settling", "failed"}]
    BY DEF MemoryLost
  <1>3. ahead' \in [Request -> SUBSET Request]
    BY DEF MemoryLost
  <1>4. call' \in [Client -> Calls]
    BY DEF MemoryLost, TypeOK, Calls
  <1>5. crashes' \in 0 .. MaxCrashes
    BY AdmissionAssumption DEF AdmissionAssumption, MemoryLost, TypeOK
  <1> QED BY <1>1, <1>2, <1>3, <1>4, <1>5

\* The initial states satisfy the inductive invariant.
LEMMA InitIInv == Init => IInv
  BY AdmissionAssumption
     DEF AdmissionAssumption, Init, IInv, TypeOK, RowInv, CallInv, Phases, Outcomes, Calls, NoCall, NoBody

\* Submission of a new ID, and what its commit prunes.
LEMMA SubmitNewIInv ==
  ASSUME IInv, NEW c \in Client, NEW r \in Request, NEW b \in Body, SubmitNew(c, r, b)
  PROVE  IInv'
  <1>1. TypeOK'
    BY AdmissionAssumption
       DEF AdmissionAssumption, IInv, SubmitNew, TypeOK, Forgotten, Without, Prunable, Waiting,
           Phases, Outcomes, Calls, NoCall, NoBody
  <1>2. (~up => pending = {})'
    BY DEF SubmitNew, IInv
  <1>3. \A q \in Request : RowInv(q)'
    BY DEF IInv, TypeOK, SubmitNew, RowInv, Forgotten, Without, Prunable, Phases, Outcomes
  <1>4. \A d \in Client : CallInv(d)'
    BY DEF IInv, TypeOK, SubmitNew, CallInv, RowInv, Forgotten, Without, Prunable, Waiting, Calls, NoCall, Idle
  <1> QED
    BY <1>1, <1>2, <1>3, <1>4 DEF IInv

\* A settled, duplicate or refused submission changes no row.
LEMMA SubmitOldIInv ==
  ASSUME IInv, NEW c \in Client, NEW r \in Request, NEW b \in Body,
         SubmitRetained(c, r, b) \/ SubmitDuplicate(c, r, b) \/ SubmitRefused(c, r, b)
  PROVE  IInv'
  <1>1. CASE SubmitRetained(c, r, b)
    BY <1>1 DEF IInv, TypeOK, SubmitRetained, Retained, SameIdentity, Answered, RowInv, CallInv, Calls, NoCall, store, memory
  <1>2. CASE SubmitDuplicate(c, r, b)
    BY <1>2, AdmissionAssumption
       DEF AdmissionAssumption, IInv, TypeOK, SubmitDuplicate, SameIdentity, Waiting, RowInv, CallInv, Calls, NoCall, store
  <1>3. CASE SubmitRefused(c, r, b)
    <2>1. PICK told \in {"conflict", "refused"} : call' = [call EXCEPT ![c] = Answered(r, b, told)]
      BY <1>3 DEF SubmitRefused
    <2> QED
      BY <1>3, <2>1 DEF IInv, TypeOK, SubmitRefused, Answered, RowInv, CallInv, Calls, NoCall, store, memory
  <1> QED
    BY <1>1, <1>2, <1>3

\* The steps of a handler: dispatch, answer, deletion, return, failure.
LEMMA HandlerIInv ==
  ASSUME IInv, NEW r \in Request, Effect(r) \/ DispatchFails(r) \/ HandlerReturns(r)
  PROVE  IInv'
  <1>1. CASE Dispatch(r)
    BY <1>1 DEF IInv, TypeOK, Dispatch, AtDispatch, Working, Handling, MayDispatch, RowInv, CallInv, Phases, Outcomes, memory
  <1>2. CASE Answer(r)
    BY <1>2 DEF IInv, TypeOK, Answer, Handling, RowInv, CallInv, Phases, Outcomes, memory
  <1>3. CASE Delete(r)
    <2>1. TypeOK'
      <3>1. session' \in [Lane -> {"open", "closed", "deleted"}]
        BY <1>3, AdmissionAssumption DEF AdmissionAssumption, IInv, TypeOK, Delete
      <3>2. phase' \in [Request -> Phases] /\ runs' \in [Request -> Nat]
        BY <1>3 DEF IInv, TypeOK, Delete, Phases
      <3> QED BY <1>3, <3>1, <3>2 DEF IInv, TypeOK, Delete, memory
    <2>2. \A q \in Request : RowInv(q)'
      BY <1>3 DEF IInv, TypeOK, Delete, Working, Handling, RowInv, Phases, Outcomes, memory
    <2> QED
      BY <1>3, <2>1, <2>2 DEF IInv, Delete, CallInv, memory
  <1>4. CASE DispatchFails(r)
    BY <1>4 DEF IInv, TypeOK, DispatchFails, AtDispatch, Working, Handling, MayDispatch, RowInv, CallInv, Phases, Outcomes
  <1>5. CASE HandlerReturns(r)
    BY <1>5 DEF IInv, TypeOK, HandlerReturns, Handling, RowInv, CallInv, store
  <1> QED
    BY <1>1, <1>2, <1>3, <1>4, <1>5 DEF Effect

\* Settlement stores an outcome the history bears out.
LEMMA FinishIInv ==
  ASSUME IInv, NEW r \in Request, NEW response \in {"accepted", "rejected", "error"},
         Finish(r, response)
  PROVE  IInv'
  <1>1. Reported(r, response) \in Outcomes
    BY DEF IInv, TypeOK, RowInv, Finish, Reported, Phases, Outcomes
  <1>2. TypeOK'
    <2>1. call' \in [Client -> Calls]
      <3> SUFFICES ASSUME NEW d \in Client PROVE call'[d] \in Calls
        BY DEF Finish
      <3>1. CASE d \in CallersOf(r)
        <4>1. call[d] \in [status : {"waiting"}, id : Request, body : Body, role : {"owner", "duplicate"}]
          BY <3>1 DEF CallersOf, Waits, IInv, TypeOK, Calls, NoCall
        <4> QED BY <3>1, <4>1, <1>1 DEF Finish, Answered, Calls
      <3>2. CASE d \notin CallersOf(r)
        BY <3>2 DEF Finish, IInv, TypeOK
      <3> QED BY <3>1, <3>2
    <2>2. bytes' \in Int /\ duplicates' \in Int
      <3>1. Cardinality(DoublesOf(r)) \in Nat
        BY AdmissionAssumption, FS_Subset, FS_CardinalityType DEF AdmissionAssumption, DoublesOf
      <3> QED BY <3>1, AdmissionAssumption DEF AdmissionAssumption, Finish, HeldBytes, IInv, TypeOK
    <2> QED BY <1>1, <2>1, <2>2 DEF Finish, IInv, TypeOK, Phases, Outcomes
  <1>3. (~up => pending = {})'
    BY DEF Finish, IInv
  <1>4. \A q \in Request : RowInv(q)'
    BY <1>1 DEF IInv, TypeOK, Finish, Reported, RowInv, Phases, Outcomes
  <1>5. \A d \in Client : CallInv(d)'
    BY DEF IInv, TypeOK, Finish, CallInv, CallersOf, Waits, Answered, Calls, NoCall
  <1> QED
    BY <1>2, <1>3, <1>4, <1>5 DEF IInv

\* Process death keeps rows and history, recovery decides what it left open.
LEMMA CrashIInv ==
  ASSUME IInv, Crash \/ Restart \/ \E r \in Request : CrashInDispatch(r)
  PROVE  IInv'
  <1>1. CASE Crash
    <2>1. TypeOK'
      BY <1>1, MemoryLostType DEF IInv, TypeOK, Crash, store
    <2>2. \A r \in Request : RowInv(r)'
      BY <1>1 DEF IInv, TypeOK, Crash, MemoryLost, RowInv, store
    <2>3. \A c \in Client : CallInv(c)'
      BY <1>1 DEF IInv, TypeOK, Crash, MemoryLost, Idle, CallInv, NoCall
    <2> QED BY <1>1, <2>1, <2>2, <2>3 DEF IInv, Crash, MemoryLost
  <1>2. CASE Restart
    <2>1. TypeOK'
      BY <1>2 DEF IInv, TypeOK, RowInv, Restart, Recovered, RecoveredPhase, Forgotten, Without, Phases, Outcomes, NoBody
    <2>2. \A r \in Request : RowInv(r)'
      BY <1>2 DEF IInv, TypeOK, RowInv, Restart, Recovered, RecoveredPhase, Forgotten, Without, Phases, Outcomes
    <2>3. \A c \in Client : CallInv(c)'
      BY <1>2 DEF IInv, TypeOK, CallInv, Restart
    <2> QED BY <1>2, <2>1, <2>2, <2>3 DEF IInv, Restart
  <1>3. ASSUME NEW r \in Request, CrashInDispatch(r) PROVE IInv'
    <2>1. TypeOK'
      BY <1>3, MemoryLostType DEF IInv, TypeOK, CrashInDispatch, Phases
    <2>2. \A q \in Request : RowInv(q)'
      BY <1>3 DEF IInv, TypeOK, CrashInDispatch, AtDispatch, MayDispatch, MemoryLost, RowInv, Phases, Outcomes
    <2>3. \A c \in Client : CallInv(c)'
      BY <1>3 DEF IInv, TypeOK, CrashInDispatch, MemoryLost, Idle, CallInv, NoCall
    <2> QED BY <1>3, <2>1, <2>2, <2>3 DEF IInv, CrashInDispatch, MemoryLost
  <1> QED
    BY <1>1, <1>2, <1>3

\* Time, compaction and session changes.
LEMMA BackgroundIInv ==
  ASSUME IInv, Compact \/ (\E r \in Request : Age(r)) \/ (\E l \in Lane : SwitchSession(l))
  PROVE  IInv'
  <1>1. CASE Compact
    BY <1>1 DEF IInv, TypeOK, Compact, Prunable, Forgotten, Without, RowInv, CallInv, Phases, Outcomes, Calls, NoCall, NoBody, memory
  <1>2. ASSUME NEW r \in Request, Age(r) PROVE IInv'
    BY <1>2 DEF IInv, TypeOK, Age, RowInv, CallInv, store, memory
  <1>3. ASSUME NEW l \in Lane, SwitchSession(l) PROVE IInv'
    BY <1>3 DEF IInv, TypeOK, SwitchSession, RowInv, CallInv, memory
  <1> QED
    BY <1>1, <1>2, <1>3
-----------------------------------------------------------------------------
\* Every step preserves the inductive invariant.
LEMMA StepIInv == IInv /\ [Next]_vars => IInv'
  <1> SUFFICES ASSUME IInv, [Next]_vars PROVE IInv'
    OBVIOUS
  <1>1. ASSUME NEW c \in Client, NEW r \in Request, NEW b \in Body, Submit(c, r, b)
        PROVE  IInv'
    BY <1>1, SubmitNewIInv, SubmitOldIInv DEF Submit
  <1>2. ASSUME NEW r \in Request, Effect(r) \/ DispatchFails(r) \/ HandlerReturns(r)
        PROVE  IInv'
    BY <1>2, HandlerIInv
  <1>3. ASSUME NEW r \in Request, Settle(r) PROVE IInv'
    BY <1>3, FinishIInv DEF Settle
  <1>4. CASE Crash \/ Restart \/ \E r \in Request : CrashInDispatch(r)
    BY <1>4, CrashIInv
  <1>5. CASE Compact \/ (\E r \in Request : Age(r)) \/ (\E l \in Lane : SwitchSession(l))
    BY <1>5, BackgroundIInv
  <1>6. CASE UNCHANGED vars
    BY <1>6 DEF IInv, TypeOK, RowInv, CallInv, vars, store, memory
  <1> QED
    BY <1>1, <1>2, <1>3, <1>4, <1>5, <1>6 DEF Next

LEMMA InvariantIInv == Spec => []IInv
  BY InitIInv, StepIInv, PTL DEF Spec

\* Variables keep their types: rows, promises and callers never leave the
\* states the code knows (admission.ts, control-store.ts).
THEOREM TypeCorrect == Spec => []TypeOK
  BY InvariantIInv, PTL DEF IInv

\* While its row is retained a request is executed at most once, under any
\* retries, second dispatches and process deaths.
THEOREM AtMostOnce == Spec => []ExecutedAtMostOnce
  <1>1. IInv => ExecutedAtMostOnce
    BY DEF IInv, RowInv, ExecutedAtMostOnce
  <1> QED BY <1>1, InvariantIInv, PTL

\* A stored outcome tells the truth about the effect it reports.
THEOREM Evidence == Spec => []OutcomeIsEvidence
  <1>1. IInv => OutcomeIsEvidence
    BY DEF IInv, TypeOK, RowInv, OutcomeIsEvidence, Phases
  <1> QED BY <1>1, InvariantIInv, PTL
-----------------------------------------------------------------------------
\* A terminal row keeps its outcome and its identity until it is forgotten.
THEOREM Final == Spec => OutcomeIsFinal
  <1> DEFINE Kept(r) == \/ phase'[r] = "absent"
                        \/ phase'[r] = "terminal" /\ outcome'[r] = outcome[r] /\ body'[r] = body[r]
  <1>1. ASSUME IInv, [Next]_vars, NEW r \in Request, phase[r] = "terminal"
        PROVE  Kept(r)
    <2>1. ASSUME NEW c \in Client, NEW q \in Request, NEW b \in Body, Submit(c, q, b)
          PROVE  Kept(r)
      <3>1. CASE SubmitNew(c, q, b)
        BY <1>1, <3>1 DEF IInv, TypeOK, SubmitNew, Without
      <3>2. CASE SubmitRetained(c, q, b) \/ SubmitDuplicate(c, q, b) \/ SubmitRefused(c, q, b)
        BY <1>1, <3>2 DEF SubmitRetained, SubmitDuplicate, SubmitRefused, store
      <3> QED BY <2>1, <3>1, <3>2 DEF Submit
    <2>2. ASSUME NEW q \in Request, Effect(q) \/ DispatchFails(q) \/ HandlerReturns(q)
          PROVE  Kept(r)
      BY <1>1, <2>2 DEF IInv, TypeOK, Effect, Dispatch, Answer, Delete, DispatchFails, HandlerReturns, AtDispatch, MayDispatch, store
    <2>3. ASSUME NEW q \in Request, Settle(q) PROVE Kept(r)
      BY <1>1, <2>3 DEF IInv, TypeOK, Settle, Finish, Reported
    <2>4. CASE Crash \/ Restart
      BY <1>1, <2>4 DEF IInv, TypeOK, Crash, Restart, Recovered, RecoveredPhase, Without, store
    <2>5. ASSUME NEW q \in Request, CrashInDispatch(q) \/ Age(q) PROVE Kept(r)
      BY <1>1, <2>5 DEF IInv, TypeOK, CrashInDispatch, AtDispatch, MayDispatch, Age, store
    <2>6. CASE Compact \/ (\E l \in Lane : SwitchSession(l)) \/ UNCHANGED vars
      BY <1>1, <2>6 DEF IInv, TypeOK, Compact, Without, SwitchSession, vars, store
    <2> QED BY <1>1, <2>1, <2>2, <2>3, <2>4, <2>5, <2>6 DEF Next
  <1>2. IInv /\ [Next]_vars =>
          [\A r \in Request : phase[r] = "terminal" => Kept(r)]_vars
    BY <1>1
  <1> QED BY <1>2, InvariantIInv, PTL DEF Spec, OutcomeIsFinal

\* Whoever is answered with an outcome is told the stored one, of its identity.
THEOREM Told == Spec => ToldTheRecord
  <1> DEFINE Recorded(c) ==
        call'[c] # call[c] /\ call'[c].status = "answered" /\ call'[c].told \in Outcomes =>
          /\ phase'[call'[c].id] = "terminal"
          /\ outcome'[call'[c].id] = call'[c].told
          /\ body'[call'[c].id] = call'[c].body
  <1>1. ASSUME IInv, [Next]_vars, NEW c \in Client
        PROVE  Recorded(c)
    <2>1. ASSUME NEW d \in Client, NEW r \in Request, NEW b \in Body, SubmitNew(d, r, b)
          PROVE  Recorded(c)
      BY <1>1, <2>1 DEF IInv, TypeOK, SubmitNew, Waiting
    <2>2. ASSUME NEW d \in Client, NEW r \in Request, NEW b \in Body, SubmitRetained(d, r, b)
          PROVE  Recorded(c)
      BY <1>1, <2>2 DEF IInv, TypeOK, SubmitRetained, Retained, SameIdentity, Answered, store
    <2>3. ASSUME NEW d \in Client, NEW r \in Request, NEW b \in Body, SubmitDuplicate(d, r, b)
          PROVE  Recorded(c)
      BY <1>1, <2>3 DEF IInv, TypeOK, SubmitDuplicate, Waiting
    <2>4. ASSUME NEW d \in Client, NEW r \in Request, NEW b \in Body, SubmitRefused(d, r, b)
          PROVE  Recorded(c)
      <3>1. PICK told \in {"conflict", "refused"} : call' = [call EXCEPT ![d] = Answered(r, b, told)]
        BY <2>4 DEF SubmitRefused
      <3> QED BY <1>1, <3>1 DEF IInv, TypeOK, Answered, Outcomes
    <2>5. ASSUME NEW r \in Request, NEW response \in {"accepted", "rejected", "error"}, Finish(r, response)
          PROVE  Recorded(c)
      BY <1>1, <2>5 DEF IInv, TypeOK, CallInv, Finish, CallersOf, Waits, Answered
    <2>6. CASE Crash \/ \E r \in Request : CrashInDispatch(r)
      BY <1>1, <2>6 DEF IInv, TypeOK, Crash, CrashInDispatch, MemoryLost, NoCall
    <2>7. ASSUME call' = call PROVE Recorded(c)
      BY <2>7
    <2>8. ASSUME NEW r \in Request,
                 Effect(r) \/ DispatchFails(r) \/ HandlerReturns(r) \/ Age(r)
          PROVE  call' = call
      BY <2>8 DEF Effect, Dispatch, Answer, Delete, DispatchFails, HandlerReturns, Age
    <2>9. (\E l \in Lane : SwitchSession(l)) \/ Compact \/ Restart \/ UNCHANGED vars => call' = call
      BY DEF SwitchSession, Compact, Restart, vars
    <2> QED BY <1>1, <2>1, <2>2, <2>3, <2>4, <2>5, <2>6, <2>7, <2>8, <2>9 DEF Next, Submit, Settle
  <1>2. IInv /\ [Next]_vars => [\A c \in Client : Recorded(c)]_vars
    BY <1>1
  <1> QED BY <1>2, InvariantIInv, PTL DEF Spec, ToldTheRecord
-----------------------------------------------------------------------------
(* Sums, counted in units.                                                 *)

\* Finitely many summands have finitely many units.
LEMMA WeightType ==
  ASSUME NEW S, IsFiniteSet(S), NEW f, \A x \in S : f[x] \in Nat
  PROVE  IsFiniteSet(Units(S, f)) /\ Weight(S, f) \in Nat
  <1> DEFINE row == [x \in S |-> {x} \X (1 .. f[x])]
             Rows == {row[x] : x \in S}
  <1>1. row \in Surjection(S, Rows)
    BY DEF Surjection
  <1>2. IsFiniteSet(Rows)
    BY <1>1, FS_Surjection
  <1>3. ASSUME NEW R \in Rows PROVE IsFiniteSet(R)
    <2>1. PICK x \in S : R = {x} \X (1 .. f[x])
      OBVIOUS
    <2>2. IsFiniteSet({x})
      BY Zenon, FS_Singleton
    <2>3. 1 \in Int /\ f[x] \in Int
      OBVIOUS
    <2>4. IsFiniteSet(1 .. f[x])
      BY Zenon, <2>3, FS_Interval
    <2> QED BY <2>1, <2>2, <2>4, FS_Product
  <1>4. Units(S, f) = UNION Rows
    BY DEF Units
  <1> HIDE DEF Rows
  <1>5. IsFiniteSet(Units(S, f))
    BY <1>2, <1>3, <1>4, FS_UNION
  <1> QED BY <1>5, FS_CardinalityType DEF Weight

\* A sum over nothing.
LEMMA WeightEmpty == \A f : Weight({}, f) = 0
  BY FS_EmptySet DEF Weight, Units

\* A sum depends on the summands only.
LEMMA WeightSame ==
  ASSUME NEW S, NEW f, NEW g, \A x \in S : f[x] = g[x]
  PROVE  Weight(S, f) = Weight(S, g)
  <1>1. Units(S, f) = Units(S, g)
    BY DEF Units
  <1> QED BY <1>1 DEF Weight

\* A sum over a set is one over a part and one over the rest.
LEMMA WeightSplit ==
  ASSUME NEW S, IsFiniteSet(S), NEW f, \A x \in S : f[x] \in Nat, NEW D \in SUBSET S
  PROVE  /\ Weight(S, f) = Weight(S \ D, f) + Weight(D, f)
         /\ Weight(D, f) \in Nat /\ Weight(S \ D, f) \in Nat
         /\ Weight(D, f) <= Weight(S, f)
  <1>1. IsFiniteSet(D) /\ IsFiniteSet(S \ D)
    BY FS_Subset
  <1>2. /\ IsFiniteSet(Units(D, f)) /\ Weight(D, f) \in Nat
        /\ IsFiniteSet(Units(S \ D, f)) /\ Weight(S \ D, f) \in Nat
    BY <1>1, WeightType
  <1>3. Units(S, f) = Units(S \ D, f) \cup Units(D, f)
    BY DEF Units
  <1>4. Units(S \ D, f) \cap Units(D, f) = {}
    BY DEF Units
  <1>5. Cardinality(Units(S, f)) = Cardinality(Units(S \ D, f)) + Cardinality(Units(D, f)) - Cardinality({})
    BY <1>2, <1>3, <1>4, FS_Union
  <1>6. Cardinality({}) = 0
    BY FS_EmptySet
  <1> QED BY <1>2, <1>5, <1>6 DEF Weight

\* A sum of equal summands.
LEMMA WeightEven ==
  ASSUME NEW S, IsFiniteSet(S), NEW f, NEW k \in Nat, \A x \in S : f[x] = k
  PROVE  Weight(S, f) = Cardinality(S) * k
  <1>1. Units(S, f) = S \X (1 .. k)
    BY DEF Units
  <1>2. IsFiniteSet(1 .. k) /\ Cardinality(1 .. k) = k
    BY FS_Interval
  <1> QED BY <1>1, <1>2, FS_Product DEF Weight

\* One summand more.
LEMMA WeightAdd ==
  ASSUME NEW S, IsFiniteSet(S), NEW x, x \notin S, NEW f, \A y \in S \cup {x} : f[y] \in Nat
  PROVE  Weight(S \cup {x}, f) = Weight(S, f) + f[x]
  <1>1. IsFiniteSet(S \cup {x}) /\ IsFiniteSet({x}) /\ Cardinality({x}) = 1
    BY FS_AddElement, FS_Singleton
  <1>2. Weight(S \cup {x}, f) = Weight((S \cup {x}) \ {x}, f) + Weight({x}, f)
    BY <1>1, WeightSplit
  <1>3. (S \cup {x}) \ {x} = S
    OBVIOUS
  <1>4. Weight({x}, f) = 1 * f[x]
    BY <1>1, WeightEven
  <1> QED BY <1>2, <1>3, <1>4
-----------------------------------------------------------------------------
(* The counters of admission, and what they keep free.                     *)

\* The duplicates that wait for requests which may not use the headroom.
Ordinary == {c \in Doubling : call[c].id \notin Safety}

\* The counters are those of what is outstanding, and what may not use the
\* headroom fits without it.
ReserveInv ==
  /\ Accounting
  /\ Cardinality(pending \ Safety) < MaxPending
  /\ Weight(pending \ Safety, Size) + Weight(Ordinary, Doubled) + SafetyBytes <= MaxBytes

\* What is outstanding is finite, and each of it has a size.
LEMMA Outstanding ==
  ASSUME TypeOK
  PROVE  /\ IsFiniteSet(pending) /\ IsFiniteSet(Doubling) /\ Ordinary \subseteq Doubling
         /\ \A r \in Request : Size[r] \in Nat
         /\ \A c \in Doubling : c \in Client /\ call[c].id \in Request /\ Doubled[c] = Size[call[c].id]
         /\ \A c \in Doubling : Doubled[c] \in Nat
  <1>1. IsFiniteSet(pending) /\ IsFiniteSet(Doubling)
    BY AdmissionAssumption, FS_Subset DEF AdmissionAssumption, TypeOK, Doubling
  <1>2. \A r \in Request : Size[r] \in Nat
    BY AdmissionAssumption DEF AdmissionAssumption
  <1>3. \A c \in Doubling : c \in Client /\ call[c].id \in Request
    BY DEF TypeOK, Doubling, Calls, NoCall
  <1> QED BY <1>1, <1>2, <1>3 DEF Doubled, Ordinary

\* The sums of what is outstanding are numbers, and those of its parts smaller.
LEMMA Sums ==
  ASSUME TypeOK
  PROVE  /\ Weight(pending, Size) \in Nat /\ Weight(Doubling, Doubled) \in Nat
         /\ Weight(pending \ Safety, Size) \in Nat /\ Weight(Ordinary, Doubled) \in Nat
         /\ Weight(pending \ Safety, Size) <= Weight(pending, Size)
         /\ Weight(Ordinary, Doubled) <= Weight(Doubling, Doubled)
         /\ Cardinality(pending \ Safety) \in Nat /\ Cardinality(pending) \in Nat
         /\ Cardinality(pending \ Safety) <= Cardinality(pending)
         /\ Cardinality(Doubling) \in Nat
         /\ IsFiniteSet(pending \ Safety) /\ IsFiniteSet(Ordinary)
  <1>1. \A r \in pending : Size[r] \in Nat
    BY Outstanding DEF TypeOK
  <1>2. Weight(pending \ Safety, Size) \in Nat /\ Weight(pending \ Safety, Size) <= Weight(pending, Size)
    BY <1>1, Outstanding, WeightSplit
  <1>3. Weight(Ordinary, Doubled) \in Nat /\ Weight(Ordinary, Doubled) <= Weight(Doubling, Doubled)
    BY Outstanding, WeightSplit
  <1>4. Weight(pending, Size) \in Nat /\ Weight(Doubling, Doubled) \in Nat
    BY <1>1, Outstanding, WeightType
  <1>5. /\ Cardinality(pending \ Safety) \in Nat /\ Cardinality(pending) \in Nat
        /\ Cardinality(pending \ Safety) <= Cardinality(pending)
        /\ Cardinality(Doubling) \in Nat
        /\ IsFiniteSet(pending \ Safety) /\ IsFiniteSet(Ordinary)
    BY Outstanding, FS_Subset, FS_CardinalityType
  <1> QED BY <1>2, <1>3, <1>4, <1>5

\* Duplicates that stay, wait for what they waited for.
LEMMA DoublesStand ==
  ASSUME Doubling' = Doubling, \A c \in Doubling : call'[c] = call[c]
  PROVE  /\ Cardinality(Doubling)' = Cardinality(Doubling)
         /\ Weight(Doubling, Doubled)' = Weight(Doubling, Doubled)
         /\ Weight(Ordinary, Doubled)' = Weight(Ordinary, Doubled)
  <1>1. Doubled' = Doubled /\ Ordinary' = Ordinary
    BY DEF Doubled, Ordinary
  <1> QED BY <1>1

\* Steps that neither admit nor settle.
LEMMA ReserveStands ==
  ASSUME ReserveInv, UNCHANGED <<pending, bytes, duplicates>>,
         Doubling' = Doubling, \A c \in Doubling : call'[c] = call[c]
  PROVE  ReserveInv'
  BY DoublesStand DEF ReserveInv, Accounting

\* A submission that is answered at once holds nothing.
LEMMA AnsweredStands ==
  ASSUME IInv, NEW c \in Client, Idle(c), NEW r, NEW b, NEW o, call' = [call EXCEPT ![c] = Answered(r, b, o)]
  PROVE  Doubling' = Doubling /\ \A d \in Doubling : call'[d] = call[d]
  <1>1. c \notin Doubling
    BY DEF Doubling, Idle
  <1>2. \A d \in Client \ {c} : call'[d] = call[d]
    BY DEF IInv, TypeOK
  <1>3. call'[c] = Answered(r, b, o)
    BY DEF IInv, TypeOK
  <1> QED BY <1>1, <1>2, <1>3 DEF Doubling, Answered

\* A new request is admitted within its limits.
LEMMA NewReserve ==
  ASSUME IInv, ReserveInv, NEW c \in Client, NEW r \in Request, NEW b \in Body, SubmitNew(c, r, b)
  PROVE  ReserveInv'
  <1>1. /\ pending' = pending \cup {r} /\ r \notin pending
        /\ bytes' = bytes + Size[r] /\ duplicates' = duplicates
    BY DEF SubmitNew, IInv, RowInv
  <1>2. Doubling' = Doubling /\ \A d \in Doubling : call'[d] = call[d]
    <2>1. c \notin Doubling
      BY DEF SubmitNew, Doubling, Idle
    <2>2. \A d \in Client \ {c} : call'[d] = call[d]
      BY DEF IInv, TypeOK, SubmitNew
    <2>3. call'[c] = Waiting(r, b, "owner")
      BY DEF IInv, TypeOK, SubmitNew
    <2> QED BY <2>1, <2>2, <2>3 DEF Doubling, Waiting
  <1>3. TypeOK /\ \A q \in Request : Size[q] \in Nat
    BY Outstanding DEF IInv
  <1>4. Weight(pending', Size) = Weight(pending, Size) + Size[r]
    BY <1>1, <1>3, Outstanding, WeightAdd DEF TypeOK
  <1>5. Accounting'
    BY <1>1, <1>2, <1>3, <1>4, Sums, DoublesStand DEF Accounting, ReserveInv
  <1>6. CASE r \in Safety
    <2>1. pending' \ Safety = pending \ Safety
      BY <1>1, <1>6
    <2> QED BY <1>2, <1>5, <2>1, DoublesStand DEF ReserveInv
  <1>7. CASE r \notin Safety
    <2>1. pending' \ Safety = (pending \ Safety) \cup {r}
      BY <1>1, <1>7
    <2>2. Weight(pending' \ Safety, Size) = Weight(pending \ Safety, Size) + Size[r]
      BY <1>1, <1>3, <2>1, Sums, WeightAdd DEF TypeOK
    <2>3. Cardinality(pending' \ Safety) = Cardinality(pending \ Safety) + 1
      BY <1>1, <1>3, <2>1, Sums, FS_AddElement
    <2>4. Cardinality(pending) < MaxPending - 1 /\ bytes + Size[r] <= MaxBytes - SafetyBytes
      BY <1>7 DEF SubmitNew, FitsPending, FitsBytes, PendingLimit, ByteLimit
    <2>5. Cardinality(pending' \ Safety) < MaxPending
      BY <1>3, <2>3, <2>4, Sums, AdmissionAssumption DEF AdmissionAssumption
    <2>6. Weight(pending' \ Safety, Size) + Weight(Ordinary, Doubled) + SafetyBytes <= MaxBytes
      BY <1>3, <2>2, <2>4, Sums, AdmissionAssumption DEF AdmissionAssumption, ReserveInv, Accounting
    <2> QED BY <1>2, <1>5, <2>5, <2>6, DoublesStand DEF ReserveInv
  <1> QED BY <1>6, <1>7

\* A duplicate is admitted within the limits of what it waits for.
LEMMA DuplicateReserve ==
  ASSUME IInv, ReserveInv, NEW c \in Client, NEW r \in Request, NEW b \in Body,
         SubmitDuplicate(c, r, b)
  PROVE  ReserveInv'
  <1>1. pending' = pending /\ bytes' = bytes + Size[r] /\ duplicates' = duplicates + 1
    BY DEF SubmitDuplicate
  <1>2. c \notin Doubling
    BY DEF SubmitDuplicate, Doubling, Idle
  <1>3. /\ \A d \in Client \ {c} : call'[d] = call[d]
        /\ call'[c] = Waiting(r, b, "duplicate")
    BY DEF IInv, TypeOK, SubmitDuplicate
  <1>4. Doubling' = Doubling \cup {c}
    BY <1>3 DEF Doubling, Waiting
  <1>5. TypeOK /\ \A q \in Request : Size[q] \in Nat
    BY Outstanding DEF IInv
  <1>6. /\ \A d \in Doubling : Doubled'[d] = Doubled[d]
        /\ Doubled'[c] = Size[r]
        /\ \A d \in Doubling \cup {c} : Doubled'[d] \in Nat
    <2>1. \A d \in Doubling : Doubled'[d] = Doubled[d] /\ Doubled[d] \in Nat
      BY <1>2, <1>3, <1>4, <1>5, Outstanding DEF Doubled
    <2>2. Doubled'[c] = Size[r]
      BY <1>3, <1>4 DEF Doubled, Waiting
    <2> QED BY <1>5, <2>1, <2>2
  <1>7. PICK f : f = Doubled'
    OBVIOUS
  <1>8. Weight(Doubling \cup {c}, f) = Weight(Doubling, Doubled) + Size[r]
    <2>1. Weight(Doubling \cup {c}, f) = Weight(Doubling, f) + f[c]
      BY <1>2, <1>5, <1>6, <1>7, Outstanding, WeightAdd
    <2>2. Weight(Doubling, f) = Weight(Doubling, Doubled)
      BY <1>6, <1>7, WeightSame
    <2> QED BY <1>6, <1>7, <2>1, <2>2
  <1>9. Cardinality(Doubling') = Cardinality(Doubling) + 1
    BY <1>2, <1>4, <1>5, Outstanding, FS_AddElement
  <1>10. Accounting'
    BY <1>1, <1>4, <1>5, <1>7, <1>8, <1>9, Sums DEF Accounting, ReserveInv
  <1>11. Weight(Ordinary, f) = Weight(Ordinary, Doubled)
    BY <1>6, <1>7, WeightSame DEF Ordinary
  <1>12. CASE r \in Safety
    <2>1. Ordinary' = Ordinary
      BY <1>2, <1>3, <1>4, <1>12 DEF Ordinary, Waiting, Doubling
    <2> QED BY <1>1, <1>7, <1>10, <1>11, <2>1 DEF ReserveInv
  <1>13. CASE r \notin Safety
    <2>1. Ordinary' = Ordinary \cup {c} /\ c \notin Ordinary
      BY <1>2, <1>3, <1>4, <1>13 DEF Ordinary, Waiting, Doubling
    <2>2. Weight(Ordinary \cup {c}, f) = Weight(Ordinary, f) + f[c]
      BY <1>5, <1>6, <1>7, <2>1, Sums, WeightAdd DEF Ordinary
    <2>3. bytes + Size[r] <= MaxBytes - SafetyBytes
      BY <1>13 DEF SubmitDuplicate, FitsBytes, ByteLimit
    <2>4. Weight(pending \ Safety, Size) + Weight(Ordinary', f) + SafetyBytes <= MaxBytes
      BY <1>5, <1>6, <1>7, <1>11, <2>1, <2>2, <2>3, Sums, AdmissionAssumption
         DEF AdmissionAssumption, ReserveInv, Accounting
    <2> QED BY <1>1, <1>7, <1>10, <2>4 DEF ReserveInv
  <1> QED BY <1>12, <1>13

\* A settled request gives back what it and its duplicates held.
LEMMA FinishReserve ==
  ASSUME IInv, ReserveInv, NEW r \in Request, NEW response \in {"accepted", "rejected", "error"},
         Finish(r, response)
  PROVE  ReserveInv'
  <1> DEFINE gone == DoublesOf(r)
             n == Cardinality(gone)
  <1>1. /\ pending' = pending \ {r} /\ r \in pending
        /\ bytes' = bytes - Size[r] * (1 + n) /\ duplicates' = duplicates - n
    BY DEF Finish, HeldBytes
  <1>2. TypeOK /\ \A q \in Request : Size[q] \in Nat
    BY Outstanding DEF IInv
  <1>3. gone \in SUBSET Doubling /\ \A c \in gone : Doubled[c] = Size[r]
    BY DEF DoublesOf, Waits, Doubling, Doubled
  <1>4. /\ \A c \in Client : c \in CallersOf(r) => call'[c].status = "answered"
        /\ \A c \in Client : c \notin CallersOf(r) => call'[c] = call[c]
        /\ \A c \in Doubling : c \in CallersOf(r) <=> c \in gone
    BY DEF Finish, Answered, CallersOf, DoublesOf, Waits, Doubling
  <1>5. Doubling' = Doubling \ gone
    BY <1>4 DEF Doubling
  <1>6. \A c \in Doubling \ gone : call'[c] = call[c] /\ Doubled'[c] = Doubled[c]
    BY <1>2, <1>4, <1>5, Outstanding DEF Doubled
  <1> HIDE DEF gone
  <1>7. IsFiniteSet(gone) /\ n \in Nat /\ Cardinality(Doubling \ gone) = Cardinality(Doubling) - n
    <2>1. IsFiniteSet(Doubling)
      BY <1>2, Outstanding
    <2>2. IsFiniteSet(gone)
      BY <1>3, <2>1, FS_Subset
    <2>3. Doubling \cap gone = gone
      BY <1>3
    <2>4. Cardinality(Doubling \ gone) = Cardinality(Doubling) - Cardinality(Doubling \cap gone)
      BY Zenon, <2>1, FS_Difference
    <2> QED BY <2>2, <2>3, <2>4, FS_CardinalityType
  <1> HIDE DEF n
  <1>8. PICK f : f = Doubled'
    OBVIOUS
  <1>9. Weight(Doubling \ gone, f) = Weight(Doubling, Doubled) - n * Size[r]
    <2>1. Weight(gone, Doubled) = n * Size[r]
      BY <1>2, <1>3, <1>7, WeightEven DEF n
    <2>2. /\ Weight(Doubling, Doubled) = Weight(Doubling \ gone, Doubled) + Weight(gone, Doubled)
          /\ Weight(gone, Doubled) \in Nat /\ Weight(Doubling \ gone, Doubled) \in Nat
      BY <1>2, <1>3, Outstanding, WeightSplit
    <2>3. Weight(Doubling \ gone, f) = Weight(Doubling \ gone, Doubled)
      BY <1>6, <1>8, WeightSame
    <2> QED BY <2>1, <2>2, <2>3
  <1>10. Weight(pending \ {r}, Size) = Weight(pending, Size) - Size[r]
    <2>1. (pending \ {r}) \cup {r} = pending /\ IsFiniteSet(pending \ {r})
      BY <1>1, <1>2, Outstanding, FS_Subset
    <2>2. Weight((pending \ {r}) \cup {r}, Size) = Weight(pending \ {r}, Size) + Size[r]
      BY <1>2, <2>1, WeightAdd DEF TypeOK
    <2>3. Weight(pending \ {r}, Size) \in Nat
      BY <1>2, <2>1, WeightType DEF TypeOK
    <2>4. Weight(pending, Size) = Weight(pending \ {r}, Size) + Size[r]
      BY Zenon, <2>1, <2>2
    <2>5. Size[r] \in Nat
      BY <1>2
    <2> QED BY <2>3, <2>4, <2>5
  <1>11. Accounting'
    <2>1. duplicates' = Cardinality(Doubling')
      BY <1>1, <1>5, <1>7 DEF ReserveInv, Accounting
    <2>2. PICK s \in Nat : s = Size[r]
      BY <1>2
    <2>3. PICK d \in Int : d = n * s
      BY <1>7, <2>2
    <2>4. s * (1 + n) = s + d
      BY <1>7, <2>2, <2>3
    <2>5. bytes' = Weight(pending \ {r}, Size) + Weight(Doubling \ gone, f)
      BY <1>1, <1>2, <1>9, <1>10, <2>2, <2>3, <2>4, Sums DEF ReserveInv, Accounting
    <2> QED BY <1>1, <1>5, <1>8, <2>1, <2>5 DEF Accounting
  <1>12. Ordinary' = Ordinary \ gone
    BY <1>5, <1>6 DEF Ordinary
  <1>13. Weight(Ordinary \ gone, f) \in Nat /\ Weight(Ordinary \ gone, f) <= Weight(Ordinary, Doubled)
    <2>1. Weight(Ordinary \ gone, f) = Weight(Ordinary \ gone, Doubled)
      BY <1>6, <1>8, WeightSame DEF Ordinary
    <2>2. Weight(Ordinary \ gone, Doubled) \in Nat /\ Weight(Ordinary \ gone, Doubled) <= Weight(Ordinary, Doubled)
      BY <1>2, Sums, Outstanding, WeightSplit
    <2> QED BY <2>1, <2>2
  <1>14. /\ Weight((pending \ Safety) \ {r}, Size) \in Nat
         /\ Weight((pending \ Safety) \ {r}, Size) <= Weight(pending \ Safety, Size)
         /\ Cardinality((pending \ Safety) \ {r}) \in Nat
         /\ Cardinality((pending \ Safety) \ {r}) <= Cardinality(pending \ Safety)
    BY <1>2, Sums, WeightSplit, FS_Subset, FS_CardinalityType DEF TypeOK
  <1>15. pending' \ Safety = (pending \ Safety) \ {r}
    BY <1>1
  <1>16. Cardinality(pending' \ Safety) < MaxPending
    <2>1. Cardinality(pending \ Safety) \in Nat /\ Cardinality(pending \ Safety) < MaxPending
      BY <1>2, Sums DEF ReserveInv
    <2> QED BY <1>14, <1>15, <2>1, AdmissionAssumption DEF AdmissionAssumption
  <1>17. Weight(pending' \ Safety, Size) + Weight(Ordinary', f) + SafetyBytes <= MaxBytes
    <2>1. /\ Weight(pending \ Safety, Size) \in Nat /\ Weight(Ordinary, Doubled) \in Nat
          /\ Weight(pending \ Safety, Size) + Weight(Ordinary, Doubled) + SafetyBytes <= MaxBytes
      BY <1>2, Sums DEF ReserveInv
    <2>2. Weight((pending \ Safety) \ {r}, Size) + Weight(Ordinary \ gone, f) + SafetyBytes <= MaxBytes
      BY <1>13, <1>14, <2>1, AdmissionAssumption DEF AdmissionAssumption
    <2> QED BY Zenon, <1>12, <1>15, <2>2
  <1> QED BY <1>8, <1>11, <1>16, <1>17 DEF ReserveInv

\* Every step keeps the counters right and the headroom free.
LEMMA ReserveStep == IInv /\ ReserveInv /\ [Next]_vars => ReserveInv'
  <1> SUFFICES ASSUME IInv, ReserveInv, [Next]_vars PROVE ReserveInv'
    OBVIOUS
  <1>1. ASSUME UNCHANGED <<pending, bytes, duplicates, call>> PROVE ReserveInv'
    BY <1>1, ReserveStands DEF Doubling
  <1>2. ASSUME NEW c \in Client, NEW r \in Request, NEW b \in Body, Submit(c, r, b)
        PROVE  ReserveInv'
    <2>1. CASE SubmitNew(c, r, b)
      BY <2>1, NewReserve
    <2>2. CASE SubmitDuplicate(c, r, b)
      BY <2>2, DuplicateReserve
    <2>3. CASE SubmitRetained(c, r, b) \/ SubmitRefused(c, r, b)
      <3>1. PICK o : call' = [call EXCEPT ![c] = Answered(r, b, o)]
        BY <2>3 DEF SubmitRetained, SubmitRefused
      <3>2. Idle(c) /\ UNCHANGED <<pending, bytes, duplicates>>
        BY <2>3 DEF SubmitRetained, SubmitRefused, memory
      <3> QED BY <3>1, <3>2, AnsweredStands, ReserveStands
    <2> QED BY <1>2, <2>1, <2>2, <2>3 DEF Submit
  <1>3. ASSUME NEW r \in Request,
               Effect(r) \/ DispatchFails(r) \/ HandlerReturns(r) \/ Age(r)
        PROVE  ReserveInv'
    BY <1>1, <1>3 DEF Effect, Dispatch, Answer, Delete, DispatchFails, HandlerReturns, Age, memory
  <1>4. ASSUME NEW r \in Request, Settle(r) PROVE ReserveInv'
    BY <1>4, FinishReserve DEF Settle
  <1>5. ASSUME MemoryLost PROVE ReserveInv'
    <2>1. Doubling' = {}
      BY <1>5 DEF MemoryLost, Doubling, Idle, NoCall
    <2>2. pending' = {} /\ bytes' = 0 /\ duplicates' = 0
      BY <1>5 DEF MemoryLost
    <2>3. pending' \ Safety = {} /\ Ordinary' = {}
      BY <2>1, <2>2 DEF Ordinary
    <2>4. Cardinality({}) = 0 /\ Weight({}, Size) = 0 /\ Weight({}, Doubled') = 0
      BY WeightEmpty, FS_EmptySet
    <2> QED BY <2>1, <2>2, <2>3, <2>4, AdmissionAssumption DEF ReserveInv, Accounting, AdmissionAssumption
  <1>6. CASE Crash \/ \E r \in Request : CrashInDispatch(r)
    BY <1>5, <1>6 DEF Crash, CrashInDispatch
  <1>7. CASE Compact \/ Restart \/ (\E l \in Lane : SwitchSession(l)) \/ UNCHANGED vars
    BY <1>1, <1>7 DEF Compact, Restart, SwitchSession, vars, memory
  <1> QED BY <1>2, <1>3, <1>4, <1>6, <1>7 DEF Next

\* Whoever waits, waits for something pending; without safety requests all of
\* it is ordinary.
LEMMA ReserveSuffices == IInv /\ ReserveInv => SafetyHeadroom
  <1> SUFFICES ASSUME IInv, ReserveInv,
                      (pending \cup {call[c].id : c \in {d \in Client : call[d].status = "waiting"}})
                        \cap Safety = {}
               PROVE  Cardinality(pending) < MaxPending /\ bytes + SafetyBytes <= MaxBytes
    BY DEF SafetyHeadroom, ReserveInv
  <1>1. pending \ Safety = pending
    OBVIOUS
  <1>2. Ordinary = Doubling
    BY DEF Ordinary, Doubling
  <1> QED BY <1>1, <1>2 DEF ReserveInv, Accounting

\* Ordinary traffic, its duplicates included, never fills the headroom kept for
\* cancellation and answers, and the counters that decide it are exact
\* (admission.ts submit, finish).
THEOREM Headroom == Spec => []SafetyHeadroom
  <1>1. Init => ReserveInv
    <2> SUFFICES ASSUME Init PROVE ReserveInv
      OBVIOUS
    <2>1. pending = {} /\ Doubling = {} /\ bytes = 0 /\ duplicates = 0
      BY DEF Init, Doubling, NoCall
    <2>2. pending \ Safety = {} /\ Ordinary = {}
      BY <2>1 DEF Ordinary
    <2>3. Cardinality({}) = 0 /\ Weight({}, Size) = 0 /\ Weight({}, Doubled) = 0
      BY WeightEmpty, FS_EmptySet
    <2> QED BY <2>1, <2>2, <2>3, AdmissionAssumption DEF ReserveInv, Accounting, AdmissionAssumption
  <1> QED BY <1>1, ReserveStep, ReserveSuffices, InvariantIInv, PTL DEF Spec
-----------------------------------------------------------------------------
(* Order within a lane.  `ahead` never names a settled promise, and whoever *)
(* is behind a request that still prepares has not been dispatched.         *)

LaneInv ==
  \A q, r \in Request :
    r \in ahead[q] =>
      /\ r \in pending /\ q \in pending /\ r # q
      /\ pc[r] = "preparing" => pc[q] = "preparing" /\ phase[q] = "intent"

LEMMA LaneStep == IInv /\ LaneInv /\ [Next]_vars => LaneInv'
  <1> SUFFICES ASSUME IInv, LaneInv, [Next]_vars PROVE LaneInv'
    OBVIOUS
  <1>1. ASSUME NEW c \in Client, NEW r \in Request, NEW b \in Body, SubmitNew(c, r, b)
        PROVE  LaneInv'
    BY <1>1 DEF IInv, TypeOK, RowInv, LaneInv, SubmitNew, Without, Prunable
  <1>2. ASSUME NEW r \in Request, Effect(r) \/ DispatchFails(r)
        PROVE  LaneInv'
    <2>1. Working(r)
      BY <1>2 DEF Effect, Dispatch, Answer, Delete, DispatchFails, AtDispatch, Working
    <2>2. \A q \in Request : q # r => phase'[q] = phase[q] /\ pc'[q] = pc[q]
      BY <1>2 DEF IInv, TypeOK, Effect, Dispatch, Answer, Delete, DispatchFails, memory
    <2>3. pending' = pending /\ ahead' = ahead /\ (pc'[r] = pc[r] \/ pc'[r] = "failed")
      BY <1>2 DEF IInv, TypeOK, Effect, Dispatch, Answer, Delete, DispatchFails, memory
    <2>4. CASE pc[r] = "preparing" /\ AtHead(r)
      BY <2>2, <2>3, <2>4 DEF LaneInv, AtHead
    <2>5. CASE pc[r] = "settling"
      BY <2>2, <2>3, <2>5 DEF LaneInv
    <2> QED BY <2>1, <2>4, <2>5 DEF Working, Handling
  <1>3. ASSUME NEW r \in Request, HandlerReturns(r) PROVE LaneInv'
    BY <1>3 DEF IInv, TypeOK, LaneInv, HandlerReturns, Handling, AtHead, store
  <1>4. ASSUME NEW r \in Request, Settle(r) PROVE LaneInv'
    BY <1>4 DEF IInv, TypeOK, LaneInv, Settle, Finish
  <1>5. CASE Crash \/ \E r \in Request : CrashInDispatch(r)
    BY <1>5 DEF LaneInv, Crash, CrashInDispatch, MemoryLost
  <1>6. CASE Restart
    BY <1>6 DEF IInv, LaneInv, Restart
  <1>7. CASE Compact
    BY <1>7 DEF IInv, TypeOK, LaneInv, Compact, Without, Prunable, memory
  <1>8. ASSUME UNCHANGED <<phase, pending, pc, ahead>> PROVE LaneInv'
    BY <1>8 DEF LaneInv
  <1>9. ASSUME NEW c \in Client, NEW r \in Request, NEW b \in Body,
               SubmitRetained(c, r, b) \/ SubmitDuplicate(c, r, b) \/ SubmitRefused(c, r, b)
        PROVE  UNCHANGED <<phase, pending, pc, ahead>>
    BY <1>9 DEF SubmitRetained, SubmitDuplicate, SubmitRefused, store, memory
  <1>10. ASSUME (\E r \in Request : Age(r)) \/ (\E l \in Lane : SwitchSession(l)) \/ UNCHANGED vars
         PROVE  UNCHANGED <<phase, pending, pc, ahead>>
    BY <1>10 DEF Age, SwitchSession, vars, store, memory
  <1> QED
    BY <1>1, <1>2, <1>3, <1>4, <1>5, <1>6, <1>7, <1>8, <1>9, <1>10 DEF Next, Submit

\* The commands and answers of a lane start in the order of their admission.
THEOREM Ordered == Spec => LaneOrder
  <1> DEFINE InTurn(r) == Kind[r] \in {"command", "answer"} /\ runs'[r] > runs[r] =>
        \A q \in Request : r \in ahead[q] => phase[q] = "intent" /\ pc[q] = "preparing"
  <1>1. Init => LaneInv
    BY DEF Init, LaneInv
  <1>2. ASSUME IInv, LaneInv, [Next]_vars, NEW r \in Request
        PROVE  InTurn(r)
    <2>1. CASE Effect(r)
      BY <1>2, <2>1 DEF Effect, Dispatch, Answer, Delete, AtDispatch, Handling, LaneInv
    <2>2. ASSUME NEW q \in Request, q # r, Effect(q) PROVE runs'[r] = runs[r]
      BY <2>2, <1>2 DEF IInv, TypeOK, Effect, Dispatch, Answer, Delete
    <2>3. ASSUME NEW S, Forgotten(S) PROVE runs'[r] \in {0, runs[r]}
      BY <2>3 DEF Forgotten, Without
    <2>4. runs'[r] \in {0, runs[r]} => InTurn(r)
      BY <1>2 DEF IInv, TypeOK
    <2>5. ASSUME NEW c \in Client, NEW q \in Request, NEW b \in Body, Submit(c, q, b)
          PROVE  InTurn(r)
      BY <2>3, <2>4, <2>5 DEF Submit, SubmitNew, SubmitRetained, SubmitDuplicate, SubmitRefused
    <2>6. ASSUME NEW q \in Request,
                 DispatchFails(q) \/ HandlerReturns(q) \/ Settle(q) \/ CrashInDispatch(q) \/ Age(q)
          PROVE  InTurn(r)
      BY <2>4, <2>6 DEF DispatchFails, HandlerReturns, Settle, Finish, CrashInDispatch, Age
    <2>7. CASE Compact \/ Restart \/ Crash \/ (\E l \in Lane : SwitchSession(l)) \/ UNCHANGED vars
      BY <2>3, <2>4, <2>7 DEF Compact, Restart, Crash, SwitchSession, vars
    <2> QED BY <1>2, <2>1, <2>2, <2>4, <2>5, <2>6, <2>7 DEF Next
  <1>3. IInv /\ LaneInv /\ [Next]_vars => [\A r \in Request : InTurn(r)]_vars
    BY <1>2
  <1> QED BY <1>1, <1>3, LaneStep, InvariantIInv, PTL DEF Spec, LaneOrder
-----------------------------------------------------------------------------
(* Nothing admitted is stuck.  A request waits for those ahead of it, and   *)
(* what is ahead of one of these is ahead of it too: there is no cycle.     *)

\* What is undecided while the daemon runs has a promise, which prepares,
\* settles or has failed; a promise that still prepares has one of its lane,
\* itself or one ahead of it, at the head, whose handler is at work; and a
\* caller waits for a promise.
NothingIsStuck ==
  /\ \A r \in Request : up /\ phase[r] \in {"intent", "dispatch_intent"} => r \in pending
  /\ \A r \in pending : pc[r] \in {"preparing", "settling", "failed"}
  /\ \A r \in pending : pc[r] = "preparing" =>
       \E q \in ahead[r] \cup {r} : Handling(q) /\ LaneOf[q] = LaneOf[r]
  /\ \A c \in Client : call[c].status = "waiting" => up /\ call[c].id \in pending

TurnInv ==
  /\ \A r \in pending : pc[r] # "idle"
  /\ \A q \in Request : \A r \in ahead[q] : LaneOf[r] = LaneOf[q] /\ ahead[r] \subseteq ahead[q]

LEMMA TurnStep == IInv /\ LaneInv /\ TurnInv /\ [Next]_vars => TurnInv'
  <1> SUFFICES ASSUME IInv, LaneInv, TurnInv, [Next]_vars PROVE TurnInv'
    OBVIOUS
  <1>1. ASSUME NEW c \in Client, NEW r \in Request, NEW b \in Body, SubmitNew(c, r, b)
        PROVE  TurnInv'
    <2>1. r \notin pending
      BY <1>1 DEF IInv, RowInv, SubmitNew
    <2>2. \A q \in Request : ahead[q] \subseteq pending
      BY DEF IInv, TypeOK, LaneInv
    <2>3. \A q \in Request : q # r => ahead'[q] = ahead[q] /\ pc'[q] = pc[q]
      BY <1>1 DEF SubmitNew, IInv, TypeOK
    <2>4. ahead'[r] = {q \in pending : LaneOf[q] = LaneOf[r]} /\ pc'[r] = "preparing" /\ pending' = pending \cup {r}
      BY <1>1 DEF SubmitNew, IInv, TypeOK
    <2>5. \A q \in pending' : pc'[q] # "idle"
      BY <2>3, <2>4 DEF TurnInv, IInv, TypeOK
    <2>6. ASSUME NEW q \in Request, NEW p \in ahead'[q]
          PROVE  LaneOf[p] = LaneOf[q] /\ ahead'[p] \subseteq ahead'[q]
      <3>1. p \in pending /\ p # r /\ p \in Request
        BY <2>1, <2>2, <2>3, <2>4, <2>6 DEF IInv, TypeOK
      <3>2. CASE q = r
        BY <2>2, <2>3, <2>4, <2>6, <3>1, <3>2 DEF TurnInv
      <3>3. CASE q # r
        BY <2>3, <2>6, <3>1, <3>3 DEF TurnInv
      <3> QED BY <3>2, <3>3
    <2> QED BY <2>5, <2>6 DEF TurnInv
  <1>2. ASSUME NEW r \in Request, Effect(r) \/ DispatchFails(r) \/ HandlerReturns(r)
        PROVE  TurnInv'
    <2>1. pending' = pending /\ ahead' = ahead
      BY <1>2 DEF Effect, Dispatch, Answer, Delete, DispatchFails, HandlerReturns, memory
    <2>2. pc' \in [Request -> {"idle", "preparing", "settling", "failed"}]
          /\ \A q \in Request : pc'[q] = pc[q] \/ pc'[q] \in {"settling", "failed"}
      BY <1>2 DEF IInv, TypeOK, Effect, Dispatch, Answer, Delete, DispatchFails, HandlerReturns, memory
    <2> QED BY <2>1, <2>2 DEF TurnInv, IInv, TypeOK
  <1>3. ASSUME NEW r \in Request, Settle(r) PROVE TurnInv'
    <2>1. \A q \in Request : ahead'[q] = IF q = r THEN {} ELSE ahead[q] \ {r}
      BY <1>3 DEF Settle, Finish
    <2>2. pending' = pending \ {r} /\ \A q \in Request : q # r => pc'[q] = pc[q]
      BY <1>3 DEF Settle, Finish, IInv, TypeOK
    <2>3. pending \subseteq Request /\ \A q \in Request : ahead[q] \subseteq Request
      BY DEF IInv, TypeOK
    <2>4. \A q \in pending' : pc'[q] # "idle"
      BY <2>2, <2>3 DEF TurnInv
    <2>5. ASSUME NEW q \in Request, NEW p \in ahead'[q]
          PROVE  LaneOf[p] = LaneOf[q] /\ ahead'[p] \subseteq ahead'[q]
      <3>1. q # r /\ p # r /\ p \in ahead[q] /\ p \in Request
        BY <2>1, <2>3, <2>5
      <3>2. LaneOf[p] = LaneOf[q] /\ ahead[p] \subseteq ahead[q]
        BY <3>1 DEF TurnInv
      <3> QED BY <2>1, <3>1, <3>2
    <2> QED BY <2>4, <2>5 DEF TurnInv
  <1>4. CASE Crash \/ \E r \in Request : CrashInDispatch(r)
    BY <1>4 DEF TurnInv, Crash, CrashInDispatch, MemoryLost
  <1>5. ASSUME UNCHANGED <<pending, pc, ahead>> PROVE TurnInv'
    BY <1>5 DEF TurnInv
  <1>6. ASSUME Restart \/ Compact PROVE UNCHANGED <<pending, pc, ahead>>
    BY <1>6 DEF Restart, Compact, memory
  <1>7. ASSUME NEW c \in Client, NEW r \in Request, NEW b \in Body,
               SubmitRetained(c, r, b) \/ SubmitDuplicate(c, r, b) \/ SubmitRefused(c, r, b)
        PROVE  TurnInv'
    BY <1>5, <1>7 DEF SubmitRetained, SubmitDuplicate, SubmitRefused, memory
  <1>8. CASE (\E r \in Request : Age(r)) \/ (\E l \in Lane : SwitchSession(l)) \/ UNCHANGED vars
    BY <1>5, <1>8 DEF Age, SwitchSession, vars, memory
  <1> QED
    BY <1>1, <1>2, <1>3, <1>4, <1>5, <1>6, <1>7, <1>8 DEF Next, Submit

\* Of the promises that prepare among r and those ahead of it, one has no other
\* ahead of it: the one with the fewest ahead.
LEMMA SomebodyLeads ==
  ASSUME IInv, LaneInv, TurnInv, NEW r \in pending, pc[r] = "preparing"
  PROVE  \E q \in ahead[r] \cup {r} : q \in pending /\ pc[q] = "preparing" /\ AtHead(q) /\ LaneOf[q] = LaneOf[r]
  <1> DEFINE Preparing == {q \in ahead[r] \cup {r} : pc[q] = "preparing"}
             Queues == {ahead[q] : q \in Preparing}
  <1>1. r \in Request /\ \A q \in Request : ahead[q] \in SUBSET Request
    BY DEF IInv, TypeOK
  <1>2. Queues \subseteq FiniteSubsetsOf(Request)
    <2>1. FiniteSubsetsOf(Request) = SUBSET Request
      BY FS_FiniteSubsetsOfFinite, AdmissionAssumption DEF AdmissionAssumption
    <2> QED BY <1>1, <2>1
  <1>3. Queues # {}
    BY <1>1
  <1>4. PICK s \in Queues : \A t \in Queues : <<t, s>> \notin StrictSubsetOrdering(Request)
    <2>1. IsWellFoundedOn(StrictSubsetOrdering(Request), FiniteSubsetsOf(Request))
      BY FS_StrictSubsetOrderingWellFounded
    <2> HIDE DEF Queues
    <2> QED BY <1>2, <1>3, <2>1, WFMin, Zenon
  <1>5. PICK q \in Preparing : s = ahead[q]
    OBVIOUS
  <1>6. q \in Request /\ q \in pending /\ LaneOf[q] = LaneOf[r] /\ ahead[q] \subseteq ahead[r]
    BY <1>1 DEF LaneInv, TurnInv
  <1>7. ASSUME NEW p \in ahead[q], pc[p] = "preparing" PROVE FALSE
    <2>1. p \in Request /\ p \in Preparing
      BY <1>1, <1>6, <1>7
    <2>2. ahead[p] \subseteq ahead[q] /\ ahead[p] # ahead[q]
      BY <1>6, <2>1 DEF TurnInv, LaneInv
    <2>3. <<ahead[p], ahead[q]>> \in StrictSubsetOrdering(Request)
      BY <1>1, <1>6, <2>1, <2>2 DEF StrictSubsetOrdering
    <2> QED BY <1>4, <1>5, <2>1, <2>3
  <1> QED BY <1>5, <1>6, <1>7 DEF AtHead

\* No admitted request is stuck: its lane has a handler at work, or its own
\* promise settles, and whoever waits is waiting for it (admission.ts submit,
\* finish).  That handlers return and responses settle is left to fairness.
THEOREM NeverStuck == Spec => []NothingIsStuck
  <1>1. Init => LaneInv /\ TurnInv
    BY DEF Init, LaneInv, TurnInv
  <1>2. ASSUME IInv, LaneInv, TurnInv PROVE NothingIsStuck
    <2>1. \A r \in Request : up /\ phase[r] \in {"intent", "dispatch_intent"} => r \in pending
      BY <1>2 DEF IInv, RowInv
    <2>2. \A r \in pending : up /\ pc[r] \in {"preparing", "settling", "failed"}
      BY <1>2 DEF IInv, TypeOK, TurnInv
    <2>3. ASSUME NEW r \in pending, pc[r] = "preparing"
          PROVE  \E q \in ahead[r] \cup {r} : Handling(q) /\ LaneOf[q] = LaneOf[r]
      BY <1>2, <2>2, <2>3, SomebodyLeads DEF Handling
    <2>4. \A c \in Client : call[c].status = "waiting" => up /\ call[c].id \in pending
      BY <1>2, <2>2 DEF IInv, CallInv
    <2> QED BY <2>1, <2>2, <2>3, <2>4 DEF NothingIsStuck
  <1> QED BY <1>1, <1>2, LaneStep, TurnStep, InvariantIInv, PTL DEF Spec
-----------------------------------------------------------------------------
(* Refinement: a request moves through Commands or stands still.           *)

Moves(r) == Contract!Step(r) \/ Contract!view(r)' = Contract!view(r)

\* A request whose row, outcome and history stand still stands still.
LEMMA StandsStill ==
  ASSUME NEW r \in Request, phase'[r] = phase[r], outcome'[r] = outcome[r], runs'[r] = runs[r]
  PROVE  Moves(r)
  BY DEF Moves, Contract!view

\* A dropped row is forgotten.
LEMMA DroppedMoves ==
  ASSUME TypeOK, NEW r \in Request, phase[r] # "absent",
         phase'[r] = "absent", outcome'[r] = "none", runs'[r] = 0
  PROVE  Moves(r)
  BY DEF TypeOK, Phases, Moves, Contract!Step, Contract!Forget

\* A row that becomes terminal with a truthful outcome is settled.
LEMMA SettledMoves ==
  ASSUME TypeOK, NEW r \in Request, phase[r] \in {"intent", "dispatch_intent"},
         phase'[r] = "terminal", runs'[r] = runs[r], outcome'[r] \in Outcomes,
         outcome'[r] = "accepted" => runs[r] = 1,
         outcome'[r] = "unavailable" => runs[r] = 0
  PROVE  Moves(r)
  BY DEF TypeOK, Moves, Outcomes, Contract!Step, Contract!Settle

LEMMA StepMoves ==
  ASSUME IInv, [Next]_vars, NEW r \in Request
  PROVE  Moves(r)
  <1>1. ASSUME NEW c \in Client, NEW q \in Request, NEW b \in Body, SubmitNew(c, q, b)
        PROVE  Moves(r)
    <2>1. CASE r = q
      BY <1>1, <2>1 DEF IInv, TypeOK, RowInv, SubmitNew, Forgotten, Without, Prunable, Moves,
                        Contract!Step, Contract!Take
    <2>2. CASE r # q /\ r \in Prunable
      BY <1>1, <2>2, DroppedMoves DEF IInv, TypeOK, SubmitNew, Forgotten, Without, Prunable
    <2>3. CASE r # q /\ r \notin Prunable
      BY <1>1, <2>3, StandsStill DEF IInv, TypeOK, SubmitNew, Forgotten, Without
    <2> QED BY <2>1, <2>2, <2>3
  <1>2. ASSUME NEW q \in Request, Dispatch(q) \/ Delete(q) PROVE Moves(r)
    <2>1. CASE r = q
      BY <1>2, <2>1 DEF IInv, TypeOK, RowInv, Dispatch, Delete, AtDispatch, MayDispatch, Moves, Contract!Step, Contract!Execute
    <2>2. CASE r # q
      BY <1>2, <2>2, StandsStill DEF IInv, TypeOK, Dispatch, Delete
    <2> QED BY <2>1, <2>2
  <1>3. ASSUME NEW q \in Request, Answer(q) PROVE Moves(r)
    <2>1. CASE r = q
      BY <1>3, <2>1 DEF IInv, TypeOK, RowInv, Answer, Moves, Contract!Step, Contract!Execute
    <2>2. CASE r # q
      BY <1>3, <2>2, StandsStill DEF IInv, TypeOK, Answer
    <2> QED BY <2>1, <2>2
  <1>4. ASSUME NEW q \in Request, DispatchFails(q) \/ CrashInDispatch(q) PROVE Moves(r)
    BY <1>4 DEF IInv, TypeOK, DispatchFails, CrashInDispatch, AtDispatch, MayDispatch, Moves, Contract!view
  <1>5. ASSUME NEW q \in Request, NEW response \in {"accepted", "rejected", "error"}, Finish(q, response)
        PROVE  Moves(r)
    <2>1. CASE r = q /\ phase[r] # "terminal"
      BY <1>5, <2>1, SettledMoves DEF IInv, TypeOK, RowInv, Finish, Reported, Phases, Outcomes
    <2>2. CASE r # q \/ phase[r] = "terminal"
      BY <1>5, <2>2, StandsStill DEF IInv, TypeOK, Finish, Reported
    <2> QED BY <2>1, <2>2
  <1>6. CASE Restart
    <2>1. CASE r \in aged
      BY <1>6, <2>1, DroppedMoves DEF IInv, TypeOK, RowInv, Restart, Forgotten, Without
    <2>2. CASE r \notin aged /\ phase[r] \in {"intent", "dispatch_intent"}
      BY <1>6, <2>2, SettledMoves DEF IInv, TypeOK, RowInv, Restart, Recovered, RecoveredPhase,
                                      Forgotten, Without, Outcomes
    <2>3. CASE r \notin aged /\ phase[r] \in {"absent", "terminal"}
      BY <1>6, <2>3, StandsStill DEF IInv, TypeOK, Restart, Recovered, RecoveredPhase, Forgotten, Without
    <2> QED BY <2>1, <2>2, <2>3 DEF IInv, TypeOK, Phases
  <1>7. CASE Compact
    <2>1. CASE r \in Prunable
      BY <1>7, <2>1, DroppedMoves DEF IInv, TypeOK, Compact, Forgotten, Without, Prunable
    <2>2. CASE r \notin Prunable
      BY <1>7, <2>2, StandsStill DEF IInv, TypeOK, Compact, Forgotten, Without
    <2> QED BY <2>1, <2>2
  <1>8. ASSUME NEW c \in Client, NEW q \in Request, NEW b \in Body,
               SubmitRetained(c, q, b) \/ SubmitDuplicate(c, q, b) \/ SubmitRefused(c, q, b)
        PROVE  Moves(r)
    BY <1>8, StandsStill DEF SubmitRetained, SubmitDuplicate, SubmitRefused, store
  <1>9. ASSUME NEW q \in Request, HandlerReturns(q) \/ Age(q) PROVE Moves(r)
    BY <1>9, StandsStill DEF HandlerReturns, Age, store
  <1>10. CASE Crash \/ (\E l \in Lane : SwitchSession(l)) \/ UNCHANGED vars
    BY <1>10, StandsStill DEF Crash, SwitchSession, vars, store
  <1> QED
    BY <1>1, <1>2, <1>3, <1>4, <1>5, <1>6, <1>7, <1>8, <1>9, <1>10 DEF Next, Submit, Effect, Settle

\* Admission implements the abstract Commands.
THEOREM Refinement == Spec => ImplementsCommands
  <1>1. Init => Contract!Init
    BY DEF Init, Contract!Init
  <1>2. IInv /\ [Next]_vars => [Contract!Next]_(Contract!vars)
    BY StepMoves DEF Moves, Contract!Next
  <1> QED BY <1>1, <1>2, InvariantIInv, PTL DEF Spec, ImplementsCommands, Contract!Spec
=============================================================================
