---------------------------- MODULE FanoutProofs ----------------------------
(***************************************************************************)
(* What holds of the live feed for every number of connections, every      *)
(* limit and every sequence of events.                                     *)
(*                                                                         *)
(* The model folds sequences: a client folds what it is sent, the cutover  *)
(* folds what was held, the limits are sums.  A fold of the library is a   *)
(* CHOOSE of a function that solves an equation; the first part shows that *)
(* one exists and that the fold is the end of a run, a function on the     *)
(* positions 0 .. Len of the sequence whose every value is made from the   *)
(* one before.  Facts about runs are then proved by the least position at  *)
(* which they would fail.  The second part is about the operations of an   *)
(* outbox and of a client, the third about the steps of the system.        *)
(* The last one follows what is sent: frames are a path through the states *)
(* of the session, from the one a client shows to the one its listener has *)
(* reached, and what is left of the publications leads on to the session.  *)
(***************************************************************************)
EXTENDS Fanout, WellFoundedInduction, SequenceTheorems, TLAPS

Less == {ss \in Nat \X Nat : ss[1] < ss[2]}
\* Every set of numbers has a least element, in the form of the library.
LEMMA LessFounded == IsWellFoundedOn(Less, Nat)
  BY NatLessThanWellFounded, Zenon DEF OpToRel, Less

\* A set that holds 0 and every successor holds every number: what the least
\* element of its complement would contradict.
LEMMA NatSet ==
  ASSUME NEW S, 0 \in S, \A n \in Nat : n \in S => n + 1 \in S
  PROVE  Nat \subseteq S
<1> SUFFICES ASSUME NEW k \in Nat, k \notin S
             PROVE  FALSE
  OBVIOUS
<1> DEFINE T == Nat \ S
<1>1. T \subseteq Nat /\ T # {}
  OBVIOUS
<1> HIDE DEF T
<1>2. PICK x \in T : \A y \in T : ~(<<y, x>> \in Less)
  BY <1>1, LessFounded, WFMin, Zenon
<1>3. \A y \in T : ~(y < x)
  <2> SUFFICES ASSUME NEW y \in T, y < x
               PROVE  FALSE
    OBVIOUS
  <2>1. <<y, x>> \in Nat \X Nat
    BY <1>1
  <2>2. <<y, x>> \in Less
    BY <2>1 DEF Less
  <2> QED
    BY <1>2, <2>2
<1>4. x \in Nat /\ x # 0 /\ x - 1 \in Nat /\ x \notin S
  BY DEF T
<1>5. x - 1 \in S
  BY <1>3, <1>4 DEF T
<1> QED
  BY <1>4, <1>5

\* A non-empty set of positions has a last one and a first one.
LEMMA MaxOf ==
  ASSUME NEW n \in Nat, NEW S \in SUBSET (1 .. n), S # {}
  PROVE  Max(S) \in S /\ \A y \in S : y <= Max(S)
<1> DEFINE Has(m) == \A T \in SUBSET (1 .. m) : T # {} => \E x \in T : \A y \in T : x >= y
<1>1. Has(0)
  <2>1. 1 .. 0 = {}
    OBVIOUS
  <2> QED BY <2>1
<1>2. ASSUME NEW m \in Nat, Has(m)
      PROVE  Has(m + 1)
  <2> SUFFICES ASSUME NEW T \in SUBSET (1 .. (m + 1)), T # {}
               PROVE  \E x \in T : \A y \in T : x >= y
    OBVIOUS
  <2>1. CASE m + 1 \in T
    BY <2>1
  <2>2. CASE m + 1 \notin T
    <3>1. T \in SUBSET (1 .. m)
      BY <2>2
    <3> QED BY <3>1, <1>2
  <2> QED BY <2>1, <2>2
<1>3. Has(n)
  <2> DEFINE Good == {m \in Nat : Has(m)}
  <2> HIDE DEF Has
  <2>1. 0 \in Good /\ \A m \in Nat : m \in Good => m + 1 \in Good
    BY <1>1, <1>2
  <2>2. Nat \subseteq Good
    <3> HIDE DEF Good
    <3> QED BY <2>1, NatSet
  <2> QED BY <2>2
<1>4. \E x \in S : \A y \in S : x >= y
  BY <1>3
<1> QED
  BY <1>4 DEF Max

\* A non-empty set of numbers has a first one.
LEMMA MinOf ==
  ASSUME NEW S \in SUBSET Nat, S # {}
  PROVE  Min(S) \in S /\ \A y \in S : Min(S) <= y
<1>1. PICK x \in S : \A y \in S : ~(<<y, x>> \in Less)
  BY LessFounded, WFMin, Zenon
<1>2. \A y \in S : x =< y
  <2> SUFFICES ASSUME NEW y \in S, y < x
               PROVE  FALSE
    OBVIOUS
  <2>1. <<y, x>> \in Nat \X Nat
    OBVIOUS
  <2>2. <<y, x>> \in Less
    BY <2>1 DEF Less
  <2> QED
    BY <1>1, <2>2
<1>3. \E z \in S : \A y \in S : z =< y
  BY <1>2
<1> QED
  BY <1>3 DEF Min

\* What the function g that a left fold is defined by does, for a fold with
\* the operator F from k over q.
Folding(g, F, k, q) == \A s \in SUBSET DOMAIN q :
  g[s] = IF s = {} THEN k ELSE F[<<g[s \ {Max(s)}], q[Max(s)]>>]

\* Such a function exists.
LEMMA FoldExists ==
  ASSUME NEW W, NEW E, NEW F \in [W \X E -> W], NEW k \in W, NEW q \in Seq(E)
  PROVE  \E g \in [SUBSET DOMAIN q -> W] : Folding(g, F, k, q)
<1> DEFINE Folds(m, g) == \A s \in SUBSET (1 .. m) :
             g[s] = IF s = {} THEN k ELSE F[<<g[s \ {Max(s)}], q[Max(s)]>>]
           Has(m) == m <= Len(q) => \E g \in [SUBSET (1 .. m) -> W] : Folds(m, g)
<1>1. Len(q) \in Nat /\ \A i \in 1 .. Len(q) : q[i] \in E
  OBVIOUS
<1>2. Has(0)
  <2>1. [s \in SUBSET (1 .. 0) |-> k] \in [SUBSET (1 .. 0) -> W]
    OBVIOUS
  <2>2. Folds(0, [s \in SUBSET (1 .. 0) |-> k])
    OBVIOUS
  <2> QED BY <2>1, <2>2
<1>3. ASSUME NEW m \in Nat, Has(m)
      PROVE  Has(m + 1)
  <2> SUFFICES ASSUME m + 1 <= Len(q)
               PROVE  \E g \in [SUBSET (1 .. (m + 1)) -> W] : Folds(m + 1, g)
    OBVIOUS
  <2>1. m <= Len(q)
    BY <1>1
  <2>2. PICK f \in [SUBSET (1 .. m) -> W] : Folds(m, f)
    BY <2>1, <1>3, Zenon
  <2> DEFINE g == [s \in SUBSET (1 .. (m + 1)) |->
                     IF m + 1 \in s THEN F[<<f[s \ {m + 1}], q[m + 1]>>] ELSE f[s]]
  <2>3. g \in [SUBSET (1 .. (m + 1)) -> W]
    <3> SUFFICES ASSUME NEW s \in SUBSET (1 .. (m + 1))
                 PROVE  (IF m + 1 \in s THEN F[<<f[s \ {m + 1}], q[m + 1]>>] ELSE f[s]) \in W
      OBVIOUS
    <3>1. CASE m + 1 \in s
      <4>1. s \ {m + 1} \in SUBSET (1 .. m) /\ q[m + 1] \in E
        BY <1>1
      <4>2. f[s \ {m + 1}] \in W
        BY <4>1
      <4> QED BY <3>1, <4>1, <4>2
    <3>2. CASE m + 1 \notin s
      <4>1. s \in SUBSET (1 .. m)
        BY <3>2
      <4> QED BY <3>2, <4>1
    <3> QED BY <3>1, <3>2
  <2>4. ASSUME NEW s \in SUBSET (1 .. (m + 1))
        PROVE  g[s] = IF s = {} THEN k ELSE F[<<g[s \ {Max(s)}], q[Max(s)]>>]
    <3>1. CASE m + 1 \in s
      <4>1. Max(s) \in s /\ \A y \in s : y <= Max(s)
        <5>1. m + 1 \in Nat /\ s # {}
          BY <3>1
        <5> QED BY <5>1, MaxOf
      <4>2. Max(s) = m + 1
        <5>1. Max(s) \in 1 .. (m + 1) /\ m + 1 <= Max(s)
          BY <4>1, <3>1
        <5> QED BY <5>1
      <4>3. g[s \ {m + 1}] = f[s \ {m + 1}]
        OBVIOUS
      <4>4. g[s] = F[<<f[s \ {m + 1}], q[m + 1]>>]
        BY <3>1
      <4> HIDE DEF g
      <4> QED BY <4>2, <4>3, <4>4, <3>1
    <3>2. CASE m + 1 \notin s
      <4>1. s \in SUBSET (1 .. m)
        BY <3>2
      <4>2. g[s] = f[s]
        BY <3>2
      <4>3. CASE s = {}
        <5>1. f[s] = k
          BY <2>2, <4>1, <4>3
        <5> HIDE DEF g
        <5> QED BY <4>2, <4>3, <5>1
      <4>4. CASE s # {}
        <5>1. Max(s) \in s
          BY <4>1, <4>4, MaxOf
        <5>2. s \ {Max(s)} \in SUBSET (1 .. m) /\ m + 1 \notin s \ {Max(s)}
          BY <4>1, <3>2
        <5>3. g[s \ {Max(s)}] = f[s \ {Max(s)}]
          BY <5>2
        <5>4. f[s] = F[<<f[s \ {Max(s)}], q[Max(s)]>>]
          BY <2>2, <4>1, <4>4
        <5> HIDE DEF g
        <5> QED BY <4>2, <4>4, <5>3, <5>4
      <4> QED BY <4>3, <4>4
    <3> QED BY <3>1, <3>2
  <2> HIDE DEF g
  <2>5. Folds(m + 1, g)
    BY <2>4
  <2> QED BY <2>3, <2>5
<1>4. Has(Len(q))
  <2> DEFINE Good == {m \in Nat : Has(m)}
  <2> HIDE DEF Has
  <2>1. 0 \in Good /\ \A m \in Nat : m \in Good => m + 1 \in Good
    BY <1>2, <1>3
  <2>2. Nat \subseteq Good
    <3> HIDE DEF Good
    <3> QED BY <2>1, NatSet
  <2> QED BY <1>1, <2>2
<1> QED
  <2>1. Len(q) <= Len(q) /\ DOMAIN q = 1 .. Len(q)
    BY <1>1
  <2>2. \E g \in [SUBSET (1 .. Len(q)) -> W] : Folds(Len(q), g)
    BY <2>1, <1>4, Zenon
  <2> QED BY <2>1, <2>2, Zenon DEF Folding

\* The same, where the values are only known to stay in W; and the run of a
\* fold, the value it has after each element.
FoldingIn(W, g, F, k, q) ==
  /\ g[{}] = k
  /\ \A s \in SUBSET DOMAIN q : s # {} /\ g[s \ {Max(s)}] \in W =>
       g[s] = F[<<g[s \ {Max(s)}], q[Max(s)]>>]
RunsTo(W, F, k, q, r) == \E v \in [0 .. Len(q) -> W] :
  /\ v[0] = k /\ r = v[Len(q)]
  /\ \A i \in 1 .. Len(q) : v[i] = F[<<v[i - 1], q[i]>>]

\* What such a function makes of the whole sequence is reached in a run from
\* k, one element at a time.
LEMMA FoldRuns ==
  ASSUME NEW W, NEW E, NEW F \in [W \X E -> W], NEW k \in W, NEW q \in Seq(E), NEW it,
         FoldingIn(W, it, F, k, q)
  PROVE  RunsTo(W, F, k, q, it[DOMAIN q])
<1> DEFINE v == [i \in 0 .. Len(q) |-> it[1 .. i]]
           Has(m) == m <= Len(q) => it[1 .. m] \in W
<1>1. ASSUME NEW i \in 1 .. Len(q), it[1 .. (i - 1)] \in W
      PROVE  it[1 .. i] = F[<<it[1 .. (i - 1)], q[i]>>]
  <2>1. 1 .. i \in SUBSET DOMAIN q /\ i \in 1 .. i /\ i \in Nat
    <3>1. DOMAIN q = 1 .. Len(q) /\ Len(q) \in Nat
      OBVIOUS
    <3>2. \A j \in 1 .. i : j \in 1 .. Len(q)
      BY <3>1
    <3>3. i \in 1 .. i
      BY <3>1
    <3>4. 1 .. i \in SUBSET DOMAIN q
      BY <3>1, <3>2
    <3> QED BY <3>1, <3>3, <3>4
  <2>2. Max(1 .. i) \in 1 .. i /\ \A y \in 1 .. i : y <= Max(1 .. i)
    <3> DEFINE T == 1 .. i
    <3>1. T \in SUBSET (1 .. i) /\ T # {}
      BY <2>1
    <3> HIDE DEF T
    <3>2. Max(T) \in T /\ \A y \in T : y <= Max(T)
      BY <2>1, <3>1, MaxOf
    <3> QED BY <3>2 DEF T
  <2>3. Max(1 .. i) = i
    BY <2>2
  <2>4. (1 .. i) \ {i} = 1 .. (i - 1)
    OBVIOUS
  <2> QED BY <1>1, <2>1, <2>3, <2>4 DEF FoldingIn
<1>2. Has(0)
  <2>1. 1 .. 0 = {}
    OBVIOUS
  <2> QED BY <2>1 DEF FoldingIn
<1>3. ASSUME NEW m \in Nat, Has(m)
      PROVE  Has(m + 1)
  <2> SUFFICES ASSUME m + 1 <= Len(q)
               PROVE  it[1 .. (m + 1)] \in W
    OBVIOUS
  <2>1. m + 1 \in 1 .. Len(q) /\ (m + 1) - 1 = m /\ q[m + 1] \in E
    OBVIOUS
  <2>2. it[1 .. m] \in W
    BY <1>3
  <2>3. it[1 .. (m + 1)] = F[<<it[1 .. m], q[m + 1]>>]
    BY <1>1, <2>1, <2>2
  <2> QED BY <2>1, <2>2, <2>3
<1>4. \A m \in Nat : Has(m)
  <2> DEFINE Good == {m \in Nat : Has(m)}
  <2> HIDE DEF Has
  <2>1. 0 \in Good /\ \A m \in Nat : m \in Good => m + 1 \in Good
    BY <1>2, <1>3
  <2>2. Nat \subseteq Good
    <3> HIDE DEF Good
    <3> QED BY <2>1, NatSet
  <2> QED BY <2>2
<1>5. v \in [0 .. Len(q) -> W]
  BY <1>4
<1>6. v[0] = k
  <2>1. 1 .. 0 = {}
    OBVIOUS
  <2> QED BY <2>1 DEF FoldingIn
<1>7. \A i \in 1 .. Len(q) : v[i] = F[<<v[i - 1], q[i]>>]
  BY <1>1, <1>4
<1>8. it[DOMAIN q] = v[Len(q)]
  <2>1. DOMAIN q = 1 .. Len(q) /\ Len(q) \in 0 .. Len(q)
    OBVIOUS
  <2> QED BY <2>1
<1> HIDE DEF v
<1> QED
  BY <1>5, <1>6, <1>7, <1>8 DEF RunsTo

\* A left fold is what a run of its operator comes to: Digest, Update and
\* the sum of bytes, over any sets their values and elements stay in.
LEMMA DigestFold ==
  ASSUME NEW W, NEW E, NEW k \in W, NEW q \in Seq(E), NEW F \in [W \X E -> W],
         \A w \in W, e \in E : F[<<w, e>>] = Digest(w, e)
  PROVE  RunsTo(W, F, k, q, FoldLeft(Digest, k, q))
<1> DEFINE P(g) == g = [s \in SUBSET DOMAIN q |->
                          IF s = {} THEN k ELSE Digest(g[s \ {Max(s)}], q[Max(s)])]
           it == CHOOSE g : P(g)
<1>1. FoldLeft(Digest, k, q) = it[DOMAIN q]
  BY DEF FoldLeft, MapThenFoldSet
<1>2. \A s \in SUBSET DOMAIN q : s # {} => q[Max(s)] \in E
  <2> SUFFICES ASSUME NEW s \in SUBSET DOMAIN q, s # {}
               PROVE  Max(s) \in 1 .. Len(q)
    OBVIOUS
  <2>1. Len(q) \in Nat /\ s \in SUBSET (1 .. Len(q))
    OBVIOUS
  <2> QED BY <2>1, MaxOf
<1>3. P(it)
  <2>1. PICK g \in [SUBSET DOMAIN q -> W] : Folding(g, F, k, q)
    BY FoldExists
  <2>2. ASSUME NEW s \in SUBSET DOMAIN q, s # {}
        PROVE  g[s] = Digest(g[s \ {Max(s)}], q[Max(s)])
    BY <1>2, <2>1, <2>2 DEF Folding
  <2>3. P(g)
    BY <2>1, <2>2 DEF Folding
  <2> HIDE DEF P
  <2> QED BY <2>3
<1> HIDE DEF it
<1>4. FoldingIn(W, it, F, k, q)
  BY <1>2, <1>3 DEF FoldingIn
<1>5. RunsTo(W, F, k, q, it[DOMAIN q])
  BY <1>4, FoldRuns
<1> QED
  BY <1>1, <1>5

\* What a client makes of the updates it kept is the end of a run of Update.
LEMMA UpdateFold ==
  ASSUME NEW W, NEW E, NEW k \in W, NEW q \in Seq(E), NEW F \in [W \X E -> W],
         \A w \in W, e \in E : F[<<w, e>>] = Update(w, e)
  PROVE  RunsTo(W, F, k, q, FoldLeft(Update, k, q))
<1> DEFINE P(g) == g = [s \in SUBSET DOMAIN q |->
                          IF s = {} THEN k ELSE Update(g[s \ {Max(s)}], q[Max(s)])]
           it == CHOOSE g : P(g)
<1>1. FoldLeft(Update, k, q) = it[DOMAIN q]
  BY DEF FoldLeft, MapThenFoldSet
<1>2. \A s \in SUBSET DOMAIN q : s # {} => q[Max(s)] \in E
  <2> SUFFICES ASSUME NEW s \in SUBSET DOMAIN q, s # {}
               PROVE  Max(s) \in 1 .. Len(q)
    OBVIOUS
  <2>1. Len(q) \in Nat /\ s \in SUBSET (1 .. Len(q))
    OBVIOUS
  <2> QED BY <2>1, MaxOf
<1>3. P(it)
  <2>1. PICK g \in [SUBSET DOMAIN q -> W] : Folding(g, F, k, q)
    BY FoldExists
  <2>2. ASSUME NEW s \in SUBSET DOMAIN q, s # {}
        PROVE  g[s] = Update(g[s \ {Max(s)}], q[Max(s)])
    BY <1>2, <2>1, <2>2 DEF Folding
  <2>3. P(g)
    BY <2>1, <2>2 DEF Folding
  <2> HIDE DEF P
  <2> QED BY <2>3
<1> HIDE DEF it
<1>4. FoldingIn(W, it, F, k, q)
  BY <1>2, <1>3 DEF FoldingIn
<1>5. RunsTo(W, F, k, q, it[DOMAIN q])
  BY <1>4, FoldRuns
<1> QED
  BY <1>1, <1>5

\* The bytes of a sequence of frames are the end of a run of additions.
LEMMA TotalFold ==
  ASSUME NEW E, NEW q \in Seq(E), NEW F \in [Nat \X E -> Nat],
         \A w \in Nat, e \in E : F[<<w, e>>] = w + Bytes(e)
  PROVE  RunsTo(Nat, F, 0, q, Total(q))
<1> DEFINE P(g) == g = [s \in SUBSET DOMAIN q |->
                          IF s = {} THEN 0 ELSE g[s \ {Max(s)}] + Bytes(q[Max(s)])]
           it == CHOOSE g : P(g)
<1>1. Total(q) = it[DOMAIN q]
  BY DEF FoldLeft, MapThenFoldSet, Total
<1>2. \A s \in SUBSET DOMAIN q : s # {} => q[Max(s)] \in E
  <2> SUFFICES ASSUME NEW s \in SUBSET DOMAIN q, s # {}
               PROVE  Max(s) \in 1 .. Len(q)
    OBVIOUS
  <2>1. Len(q) \in Nat /\ s \in SUBSET (1 .. Len(q))
    OBVIOUS
  <2> QED BY <2>1, MaxOf
<1>3. P(it)
  <2>1. PICK g \in [SUBSET DOMAIN q -> Nat] : Folding(g, F, 0, q)
    BY FoldExists
  <2>2. ASSUME NEW s \in SUBSET DOMAIN q, s # {}
        PROVE  g[s] = g[s \ {Max(s)}] + Bytes(q[Max(s)])
    BY <1>2, <2>1, <2>2 DEF Folding
  <2>3. P(g)
    BY <2>1, <2>2 DEF Folding
  <2> HIDE DEF P
  <2> QED BY <2>3
<1> HIDE DEF it
<1>4. FoldingIn(Nat, it, F, 0, q)
  BY <1>2, <1>3 DEF FoldingIn
<1>5. RunsTo(Nat, F, 0, q, it[DOMAIN q])
  BY <1>4, FoldRuns
<1> QED
  BY <1>1, <1>5

\* The cutover again, of which no set of values is known to be closed: every
\* event it takes must still be held.
CutRun(k, q, v) == v[0] = k /\ \A i \in 1 .. Len(q) : v[i] = CutOver(v[i - 1], q[i])

\* The cutover of the held events is the end of a run of CutOver.
LEMMA CutOverFold ==
  ASSUME NEW E, NEW k, NEW q \in Seq(E)
  PROVE  \E v : CutRun(k, q, v) /\ FoldLeft(CutOver, k, q) = v[Len(q)]
<1> DEFINE Step(g, s) == IF s = {} THEN k ELSE CutOver(g[s \ {Max(s)}], q[Max(s)])
           P(g, m) == g = [s \in SUBSET (1 .. m) |-> Step(g, s)]
           Has(m) == \E g : P(g, m)
           it == CHOOSE g : g = [s \in SUBSET DOMAIN q |-> Step(g, s)]
<1>1. FoldLeft(CutOver, k, q) = it[DOMAIN q]
  BY DEF FoldLeft, MapThenFoldSet
<1>2. Has(0)
  <2> DEFINE g == [s \in SUBSET (1 .. 0) |-> k]
  <2>1. \A s \in SUBSET (1 .. 0) : s = {}
    OBVIOUS
  <2>2. P(g, 0)
    BY <2>1
  <2> QED BY <2>2
<1>3. ASSUME NEW m \in Nat, Has(m)
      PROVE  Has(m + 1)
  <2>1. PICK f : P(f, m)
    BY <1>3
  <2> DEFINE g == [s \in SUBSET (1 .. (m + 1)) |->
                     IF m + 1 \in s THEN CutOver(f[s \ {m + 1}], q[m + 1]) ELSE f[s]]
  <2>2. \A s \in SUBSET (1 .. m) : s \in SUBSET (1 .. (m + 1)) /\ m + 1 \notin s
    OBVIOUS
  <2>3. \A s \in SUBSET (1 .. m) : g[s] = f[s]
    BY <2>2
  <2>4. ASSUME NEW s \in SUBSET (1 .. (m + 1))
        PROVE  g[s] = Step(g, s)
    <3>1. CASE m + 1 \in s
      <4>1. Max(s) \in s /\ \A y \in s : y <= Max(s)
        <5>1. m + 1 \in Nat /\ s # {}
          BY <3>1
        <5> QED BY <5>1, MaxOf
      <4>2. Max(s) = m + 1
        <5>1. Max(s) \in 1 .. (m + 1) /\ m + 1 <= Max(s)
          BY <4>1, <3>1
        <5> QED BY <5>1
      <4>3. s \ {m + 1} \in SUBSET (1 .. m)
        OBVIOUS
      <4>4. g[s] = CutOver(f[s \ {m + 1}], q[m + 1])
        BY <3>1
      <4>5. g[s \ {m + 1}] = f[s \ {m + 1}]
        BY <2>3, <4>3
      <4> HIDE DEF g
      <4> QED BY <3>1, <4>2, <4>4, <4>5
    <3>2. CASE m + 1 \notin s
      <4>1. s \in SUBSET (1 .. m)
        BY <3>2
      <4>2. g[s] = f[s]
        BY <2>3, <4>1
      <4>3. f[s] = Step(f, s)
        BY <2>1, <4>1
      <4> HIDE DEF g
      <4>4. CASE s = {}
        BY <4>2, <4>3, <4>4
      <4>5. CASE s # {}
        <5>1. s \ {Max(s)} \in SUBSET (1 .. m)
          BY <4>1
        <5>2. g[s \ {Max(s)}] = f[s \ {Max(s)}]
          BY <2>3, <5>1
        <5> QED BY <4>2, <4>3, <4>5, <5>2
      <4> QED BY <4>4, <4>5
    <3> QED BY <3>1, <3>2
  <2>5. P(g, m + 1)
    <3>1. g = [s \in SUBSET (1 .. (m + 1)) |-> g[s]]
      OBVIOUS
    <3> HIDE DEF g, Step
    <3> QED BY <2>4, <3>1
  <2> QED BY <2>5
<1>4. Has(Len(q))
  <2> DEFINE Good == {m \in Nat : Has(m)}
  <2> HIDE DEF Has
  <2>1. 0 \in Good /\ \A m \in Nat : m \in Good => m + 1 \in Good
    BY <1>2, <1>3
  <2>2. Nat \subseteq Good
    <3> HIDE DEF Good
    <3> QED BY <2>1, NatSet
  <2> QED BY <2>2
<1>5. it = [s \in SUBSET DOMAIN q |-> Step(it, s)]
  <2>1. \E g : g = [s \in SUBSET DOMAIN q |-> Step(g, s)]
    <3>1. DOMAIN q = 1 .. Len(q)
      OBVIOUS
    <3> HIDE DEF Step
    <3> QED BY <1>4, <3>1
  <2> HIDE DEF Step
  <2> QED BY <2>1
<1> HIDE DEF it
<1> DEFINE v == [i \in 0 .. Len(q) |-> it[1 .. i]]
<1>6. v[0] = k
  <2>1. 1 .. 0 = {} /\ {} \in SUBSET DOMAIN q /\ 0 \in 0 .. Len(q)
    OBVIOUS
  <2>2. it[{}] = k
    BY <1>5
  <2> QED BY <2>1, <2>2
<1>7. ASSUME NEW i \in 1 .. Len(q)
      PROVE  v[i] = CutOver(v[i - 1], q[i])
  <2>1. 1 .. i \in SUBSET DOMAIN q /\ i \in 1 .. i /\ i \in Nat
    <3>1. DOMAIN q = 1 .. Len(q) /\ Len(q) \in Nat
      OBVIOUS
    <3>2. \A j \in 1 .. i : j \in 1 .. Len(q)
      BY <3>1
    <3>3. i \in 1 .. i
      BY <3>1
    <3>4. 1 .. i \in SUBSET DOMAIN q
      BY <3>1, <3>2
    <3> QED BY <3>1, <3>3, <3>4
  <2>2. Max(1 .. i) = i
    <3> DEFINE T == 1 .. i
    <3>1. T \in SUBSET (1 .. i) /\ T # {}
      BY <2>1
    <3> HIDE DEF T
    <3>2. Max(T) \in T /\ \A y \in T : y <= Max(T)
      BY <2>1, <3>1, MaxOf
    <3>3. Max(1 .. i) \in 1 .. i /\ \A y \in 1 .. i : y <= Max(1 .. i)
      BY <3>2 DEF T
    <3> QED BY <2>1, <3>3
  <2>3. (1 .. i) \ {i} = 1 .. (i - 1)
    OBVIOUS
  <2>4. it[1 .. i] = CutOver(it[1 .. (i - 1)], q[i])
    <3>1. it[1 .. i] = Step(it, 1 .. i)
      BY <1>5, <2>1
    <3>2. 1 .. i # {}
      BY <2>1
    <3> QED BY <2>2, <2>3, <3>1, <3>2
  <2>5. i \in 0 .. Len(q) /\ i - 1 \in 0 .. Len(q)
    OBVIOUS
  <2> QED BY <2>4, <2>5
<1>8. FoldLeft(CutOver, k, q) = v[Len(q)]
  <2>1. DOMAIN q = 1 .. Len(q) /\ Len(q) \in 0 .. Len(q)
    OBVIOUS
  <2> QED BY <1>1, <2>1
<1> HIDE DEF v
<1>9. CutRun(k, q, v)
  BY <1>6, <1>7 DEF CutRun
<1> QED
  BY <1>8, <1>9

\* A run has one result, and every sequence has one.
LEMMA RunSame ==
  ASSUME NEW W, NEW E, NEW F \in [W \X E -> W], NEW k \in W, NEW q \in Seq(E)
  PROVE  \A r, t : RunsTo(W, F, k, q, r) /\ RunsTo(W, F, k, q, t) => r = t
<1> SUFFICES ASSUME NEW r, NEW t, RunsTo(W, F, k, q, r), RunsTo(W, F, k, q, t)
             PROVE  r = t
  OBVIOUS
<1>1. PICK u \in [0 .. Len(q) -> W] :
        /\ u[0] = k /\ r = u[Len(q)]
        /\ \A i \in 1 .. Len(q) : u[i] = F[<<u[i - 1], q[i]>>]
  BY DEF RunsTo
<1>2. PICK v \in [0 .. Len(q) -> W] :
        /\ v[0] = k /\ t = v[Len(q)]
        /\ \A i \in 1 .. Len(q) : v[i] = F[<<v[i - 1], q[i]>>]
  BY DEF RunsTo
<1> DEFINE Good == {m \in Nat : m <= Len(q) => u[m] = v[m]}
<1>3. 0 \in Good
  BY <1>1, <1>2
<1>4. ASSUME NEW m \in Nat, m \in Good
      PROVE  m + 1 \in Good
  <2>1. CASE m + 1 <= Len(q)
    <3>1. m + 1 \in 1 .. Len(q) /\ (m + 1) - 1 = m /\ u[m] = v[m]
      BY <1>4, <2>1
    <3>2. u[m + 1] = F[<<u[m], q[m + 1]>>] /\ v[m + 1] = F[<<v[m], q[m + 1]>>]
      BY <1>1, <1>2, <3>1
    <3> QED BY <3>1, <3>2
  <2> QED BY <2>1
<1>5. Nat \subseteq Good
  <2> HIDE DEF Good
  <2> QED BY <1>3, <1>4, NatSet
<1> QED BY <1>1, <1>2, <1>5

\* There is a run over every sequence.
LEMMA RunExists ==
  ASSUME NEW W, NEW E, NEW F \in [W \X E -> W], NEW k \in W, NEW q \in Seq(E)
  PROVE  \E r \in W : RunsTo(W, F, k, q, r)
<1>1. PICK g \in [SUBSET DOMAIN q -> W] : Folding(g, F, k, q)
  BY FoldExists
<1>2. FoldingIn(W, g, F, k, q)
  BY <1>1 DEF Folding, FoldingIn
<1>3. RunsTo(W, F, k, q, g[DOMAIN q])
  BY <1>2, FoldRuns
<1> QED BY <1>3

\* Two sequences in a row: their elements, at their places.
LEMMA Glues ==
  ASSUME NEW S, NEW a \in Seq(S), NEW b \in Seq(S)
  PROVE  /\ a \o b \in Seq(S) /\ Len(a \o b) = Len(a) + Len(b) /\ Len(a) \in Nat /\ Len(b) \in Nat
         /\ \A i \in 1 .. Len(a) : (a \o b)[i] = a[i] /\ a[i] \in S
         /\ \A i \in 1 .. Len(b) : (a \o b)[Len(a) + i] = b[i] /\ b[i] \in S
<1>1. Len(a) \in Nat /\ Len(b) \in Nat /\ a \o b \in Seq(S) /\ Len(a \o b) = Len(a) + Len(b)
  OBVIOUS
<1>2. \A i \in 1 .. Len(a) : (a \o b)[i] = a[i] /\ a[i] \in S
  OBVIOUS
<1>3. \A i \in 1 .. Len(b) : (a \o b)[Len(a) + i] = b[i] /\ b[i] \in S
  OBVIOUS
<1> QED BY <1>1, <1>2, <1>3

\* Runs over two sequences make one over both, when a value in between can
\* be taken apart: M joins values the way F adds to one.
LEMMA RunJoin ==
  ASSUME NEW W, NEW E, NEW F \in [W \X E -> W], NEW k \in W, NEW M \in [W \X W -> W],
         \A x \in W : M[<<x, k>>] = x,
         \A x, y \in W, e \in E : F[<<M[<<x, y>>], e>>] = M[<<x, F[<<y, e>>]>>],
         NEW a \in Seq(E), NEW b \in Seq(E), NEW r, NEW t,
         RunsTo(W, F, k, a, r), RunsTo(W, F, k, b, t)
  PROVE  RunsTo(W, F, k, a \o b, M[<<r, t>>])
<1>1. PICK u \in [0 .. Len(a) -> W] :
        /\ u[0] = k /\ r = u[Len(a)]
        /\ \A i \in 1 .. Len(a) : u[i] = F[<<u[i - 1], a[i]>>]
  BY DEF RunsTo
<1>2. PICK v \in [0 .. Len(b) -> W] :
        /\ v[0] = k /\ t = v[Len(b)]
        /\ \A i \in 1 .. Len(b) : v[i] = F[<<v[i - 1], b[i]>>]
  BY DEF RunsTo
<1> DEFINE ab == a \o b
           m == Len(a)
           n == Len(b)
           w == [i \in 0 .. (m + n) |-> IF i <= m THEN u[i] ELSE M[<<r, v[i - m]>>]]
<1>3. /\ ab \in Seq(E) /\ Len(ab) = m + n /\ m \in Nat /\ n \in Nat /\ r \in W
      /\ \A i \in 1 .. m : ab[i] = a[i]
      /\ \A i \in 1 .. n : ab[m + i] = b[i] /\ b[i] \in E
  <2>1. Len(a) \in 0 .. Len(a)
    BY Glues
  <2>2. r \in W
    BY <1>1, <2>1
  <2> QED BY <2>2, Glues
<1> HIDE DEF ab, m, n
<1>4. m \in Nat /\ n \in Nat
  BY <1>3
<1>5. u \in [0 .. m -> W] /\ v \in [0 .. n -> W]
  BY DEF m, n
<1>6. w \in [0 .. (m + n) -> W]
  <2> SUFFICES ASSUME NEW i \in 0 .. (m + n)
               PROVE  (IF i <= m THEN u[i] ELSE M[<<r, v[i - m]>>]) \in W
    OBVIOUS
  <2>1. CASE i <= m
    <3>1. i \in 0 .. m
      BY <1>3, <2>1
    <3> QED BY <1>5, <2>1, <3>1
  <2>2. CASE ~(i <= m)
    <3>1. i - m \in 0 .. n
      BY <1>3, <2>2
    <3>2. v[i - m] \in W
      BY <1>5, <3>1
    <3> QED BY <1>3, <2>2, <3>2
  <2> QED BY <2>1, <2>2
<1>7. w[0] = k
  BY <1>1, <1>3
<1>8. w[m + n] = M[<<r, t>>]
  <2>1. CASE n = 0
    BY <1>1, <1>2, <1>3, <2>1 DEF m, n
  <2>2. CASE n # 0
    <3>1. m + n \in 0 .. (m + n) /\ ~(m + n <= m) /\ (m + n) - m = n
      BY <1>3, <2>2
    <3>2. t = v[n]
      BY <1>2 DEF n
    <3> QED BY <3>1, <3>2
  <2> QED BY <2>1, <2>2
<1>9. ASSUME NEW i \in 1 .. (m + n)
      PROVE  w[i] = F[<<w[i - 1], ab[i]>>]
  <2>1. CASE i <= m
    <3>1. i \in 1 .. m /\ i - 1 <= m /\ i - 1 \in 0 .. (m + n)
      BY <1>3, <2>1
    <3>2. w[i] = u[i] /\ w[i - 1] = u[i - 1]
      BY <2>1, <3>1
    <3> HIDE DEF w
    <3>3. u[i] = F[<<u[i - 1], a[i]>>]
      BY <1>1, <3>1 DEF m
    <3> QED BY <1>3, <3>1, <3>2, <3>3
  <2>2. CASE i = m + 1
    <3>1. i \in 0 .. (m + n) /\ ~(i <= m) /\ i - m = 1 /\ i - 1 = m /\ m \in 0 .. (m + n)
      BY <1>4, <2>2
    <3>2. w[i] = M[<<r, v[1]>>] /\ w[i - 1] = u[m]
      BY <3>1
    <3> HIDE DEF w
    <3>3. 1 \in 1 .. n /\ 1 - 1 = 0
      BY <1>3, <2>2
    <3>4. v[1] = F[<<k, b[1]>>] /\ ab[i] = b[1] /\ b[1] \in E /\ u[m] = r /\ M[<<r, k>>] = r
      BY <1>1, <1>2, <1>3, <2>2, <3>3 DEF m, n
    <3> QED BY <1>3, <3>2, <3>4
  <2>3. CASE i > m + 1
    <3>1. /\ i \in 0 .. (m + n) /\ ~(i <= m) /\ i - m \in 1 .. n /\ (i - 1) - m = (i - m) - 1
          /\ ~(i - 1 <= m) /\ i - 1 \in 0 .. (m + n) /\ i = m + (i - m)
          /\ (i - m) - 1 \in 0 .. n
      BY <1>3, <2>3
    <3>2. w[i] = M[<<r, v[i - m]>>] /\ w[i - 1] = M[<<r, v[(i - m) - 1]>>]
      BY <3>1
    <3> HIDE DEF w
    <3>3. v[i - m] = F[<<v[(i - m) - 1], b[i - m]>>] /\ v[(i - m) - 1] \in W
      BY <1>2, <1>5, <3>1 DEF n
    <3>4. ab[i] = b[i - m] /\ b[i - m] \in E
      BY <1>3, <3>1
    <3> QED BY <1>3, <3>2, <3>3, <3>4
  <2> QED BY <1>3, <2>1, <2>2, <2>3
<1> HIDE DEF w
<1>10. \E x \in [0 .. Len(ab) -> W] :
        /\ x[0] = k /\ M[<<r, t>>] = x[Len(ab)]
        /\ \A i \in 1 .. Len(ab) : x[i] = F[<<x[i - 1], ab[i]>>]
  <2>1. Len(ab) = m + n
    BY <1>3
  <2> QED BY <2>1, <1>6, <1>7, <1>8, <1>9
<1>11. RunsTo(W, F, k, ab, M[<<r, t>>])
  BY <1>10 DEF RunsTo
<1> QED
  BY <1>11 DEF ab

-----------------------------------------------------------------------------
(* What states, frames and outboxes are.                                   *)
State == [rev : Nat, done : Nat, off : Nat, lost : BOOLEAN]
Changes == {"plain", "completed", "lost", "policy"}
RevEvent == [kind : {"rev"}, rev : Nat, change : Changes]
TextEvent == [kind : {"text"}, msg : Nat, from : Nat, len : Nat \ {0}]
Event == RevEvent \cup TextEvent
Frame == Event \cup [kind : {"snap"}, state : State]
Outbox == [held : Seq(Event), queue : Seq(Frame), sending : Seq(Seq(Frame)), bytes : Nat,
           blocked : BOOLEAN, scheduled : BOOLEAN]

\* A frame has at least one byte, and a delta one more than its text.
LEMMA FrameBytes ==
  /\ \A e \in Frame : Bytes(e) \in Nat \ {0}
  /\ \A e \in TextEvent : Bytes(e) = 1 + e.len
  BY DEF Frame, Event, RevEvent, TextEvent, Bytes

\* The bytes of no frame, of one, and of two sequences of frames.
LEMMA TotalRun ==
  ASSUME NEW q \in Seq(Frame), NEW F \in [Nat \X Frame -> Nat],
         \A w \in Nat, e \in Frame : F[<<w, e>>] = w + Bytes(e)
  PROVE  RunsTo(Nat, F, 0, q, Total(q))
  BY TotalFold

\* No frames, no bytes.
LEMMA TotalNone == Total(<<>>) = 0
<1> DEFINE F == [p \in Nat \X Frame |-> p[1] + Bytes(p[2])]
           q == <<>>
<1>1. F \in [Nat \X Frame -> Nat] /\ \A w \in Nat, e \in Frame : F[<<w, e>>] = w + Bytes(e)
  BY FrameBytes
<1>2. q \in Seq(Frame) /\ Len(q) = 0
  OBVIOUS
<1> HIDE DEF F, q
<1>3. RunsTo(Nat, F, 0, q, Total(q))
  BY <1>1, <1>2, TotalRun
<1>4. Total(q) = 0
  BY <1>2, <1>3 DEF RunsTo
<1> QED BY <1>4 DEF q

\* The bytes of a sequence of frames are a number.
LEMMA TotalNat == ASSUME NEW q \in Seq(Frame) PROVE Total(q) \in Nat
<1> DEFINE F == [p \in Nat \X Frame |-> p[1] + Bytes(p[2])]
<1>1. F \in [Nat \X Frame -> Nat] /\ \A w \in Nat, e \in Frame : F[<<w, e>>] = w + Bytes(e)
  BY FrameBytes
<1> HIDE DEF F
<1>2. RunsTo(Nat, F, 0, q, Total(q))
  BY <1>1, TotalRun
<1>3. Len(q) \in 0 .. Len(q)
  OBVIOUS
<1> QED BY <1>2, <1>3 DEF RunsTo

\* The bytes of one frame.
LEMMA TotalOne == ASSUME NEW e \in Frame PROVE Total(<<e>>) = Bytes(e)
<1> DEFINE F == [p \in Nat \X Frame |-> p[1] + Bytes(p[2])]
           q == <<e>>
<1>1. F \in [Nat \X Frame -> Nat] /\ \A w \in Nat, f \in Frame : F[<<w, f>>] = w + Bytes(f)
  BY FrameBytes
<1>2. q \in Seq(Frame) /\ Len(q) = 1 /\ q[1] = e /\ 1 \in 1 .. 1
  OBVIOUS
<1> HIDE DEF F, q
<1>3. RunsTo(Nat, F, 0, q, Total(q))
  BY <1>1, <1>2, TotalRun
<1>4. PICK v \in [0 .. Len(q) -> Nat] :
        /\ v[0] = 0 /\ Total(q) = v[Len(q)]
        /\ \A i \in 1 .. Len(q) : v[i] = F[<<v[i - 1], q[i]>>]
  BY <1>3 DEF RunsTo
<1>5. Total(q) = F[<<0, e>>]
  BY <1>2, <1>4
<1>6. Total(q) = Bytes(e)
  BY <1>1, <1>5, FrameBytes
<1> QED BY <1>6 DEF q

\* The bytes of two sequences of frames add up.
LEMMA TotalJoin ==
  ASSUME NEW a \in Seq(Frame), NEW b \in Seq(Frame)
  PROVE  Total(a \o b) = Total(a) + Total(b)
<1> DEFINE F == [p \in Nat \X Frame |-> p[1] + Bytes(p[2])]
           M == [p \in Nat \X Nat |-> p[1] + p[2]]
           ab == a \o b
<1>1. F \in [Nat \X Frame -> Nat] /\ \A w \in Nat, f \in Frame : F[<<w, f>>] = w + Bytes(f)
  BY FrameBytes
<1>2. M \in [Nat \X Nat -> Nat] /\ \A x, y \in Nat : M[<<x, y>>] = x + y
  OBVIOUS
<1>3. ab \in Seq(Frame)
  OBVIOUS
<1> HIDE DEF F, M, ab
<1>4. /\ RunsTo(Nat, F, 0, a, Total(a)) /\ RunsTo(Nat, F, 0, b, Total(b))
      /\ RunsTo(Nat, F, 0, ab, Total(ab))
  BY <1>1, <1>3, TotalRun
<1>5. \A x \in Nat : M[<<x, 0>>] = x
  BY <1>2
<1>6. \A x, y \in Nat, e \in Frame : F[<<M[<<x, y>>], e>>] = M[<<x, F[<<y, e>>]>>]
  BY <1>1, <1>2, FrameBytes
<1>7. 0 \in Nat
  OBVIOUS
<1>8. RunsTo(Nat, F, 0, a \o b, M[<<Total(a), Total(b)>>])
  BY <1>1, <1>2, <1>4, <1>5, <1>6, <1>7, RunJoin
<1>9. Total(ab) = M[<<Total(a), Total(b)>>]
  BY <1>1, <1>3, <1>4, <1>7, <1>8, RunSame DEF ab
<1> QED BY <1>2, <1>9, TotalNat DEF ab

\* Writes, put together in their order.
LEMMA FlattenRun ==
  ASSUME NEW F \in [Seq(Frame) \X Seq(Frame) -> Seq(Frame)], NEW ss \in Seq(Seq(Frame)),
         \A a, b \in Seq(Frame) : F[<<a, b>>] = a \o b
  PROVE  RunsTo(Seq(Frame), F, <<>>, ss, FlattenSeq(ss))
<1> DEFINE W == Seq(Frame)
           n == Len(ss)
<1>1. <<>> \in W /\ n \in Nat /\ \A i \in 1 .. n : ss[i] \in W
  OBVIOUS
<1> HIDE DEF W
<1>2. PICK r \in W : RunsTo(W, F, <<>>, ss, r)
  BY <1>1, RunExists DEF W
<1>3. PICK v \in [0 .. n -> W] :
        /\ v[0] = <<>> /\ r = v[n]
        /\ \A i \in 1 .. n : v[i] = F[<<v[i - 1], ss[i]>>]
  BY <1>2 DEF RunsTo
<1>4. \A i \in 1 .. n : v[i - 1] \in W
  <2> HIDE DEF n
  <2> SUFFICES ASSUME NEW i \in 1 .. n
               PROVE  i - 1 \in 0 .. n
    OBVIOUS
  <2> QED BY <1>1
<1>5. \A i \in 1 .. n : v[i] = v[i - 1] \o ss[i]
  BY <1>1, <1>3, <1>4 DEF W
<1>6. CASE n = 0
  <2>1. FlattenSeq(ss) = ss
    BY <1>6 DEF FlattenSeq
  <2>2. ss = <<>>
    BY <1>6
  <2> QED BY <2>1, <2>2, <1>2, <1>3, <1>6 DEF W
<1>7. CASE n # 0
  <2> DEFINE P(g) == g = [i \in 1 .. n |-> IF i = 1 THEN ss[i] ELSE g[i - 1] \o ss[i]]
             it == CHOOSE g : P(g)
  <2>1. FlattenSeq(ss) = it[n]
    BY <1>7 DEF FlattenSeq
  <2>2. P([i \in 1 .. n |-> v[i]])
    <3>1. \A i \in 1 .. n : v[i] = IF i = 1 THEN ss[i] ELSE v[i - 1] \o ss[i]
      <4> SUFFICES ASSUME NEW i \in 1 .. n
                   PROVE  v[i] = IF i = 1 THEN ss[i] ELSE v[i - 1] \o ss[i]
        OBVIOUS
      <4>1. CASE i = 1
        <5>1. v[0] \o ss[i] = ss[i]
          BY <1>1, <1>3 DEF W
        <5>2. v[i] = v[i - 1] \o ss[i]
          BY <1>5
        <5>3. i - 1 = 0
          BY <4>1
        <5> QED BY <4>1, <5>1, <5>2, <5>3
      <4>2. CASE i # 1
        BY <1>5, <4>2
      <4> QED BY <4>1, <4>2
    <3>2. \A i \in 1 .. n : i # 1 => i - 1 \in 1 .. n
      BY <1>1
    <3> QED BY <3>1, <3>2
  <2>3. P(it)
    <3> HIDE DEF P
    <3> QED BY <2>2
  <2> HIDE DEF it
  <2> DEFINE Good == {m \in Nat : m + 1 <= n => it[m + 1] = v[m + 1]}
  <2>4. 0 \in Good
    <3>1. it[1] = ss[1] /\ 1 \in 1 .. n
      BY <1>1, <1>7, <2>3
    <3>2. v[1] = v[0] \o ss[1] /\ v[0] \o ss[1] = ss[1]
      <4>1. \A i \in 1 .. n : i = 1 => v[i] = v[0] \o ss[i]
        <5> SUFFICES ASSUME NEW i \in 1 .. n, i = 1
                     PROVE  v[i] = v[0] \o ss[i]
          OBVIOUS
        <5>1. v[i] = v[i - 1] \o ss[i]
          BY <1>5
        <5>2. i - 1 = 0
          OBVIOUS
        <5> QED BY <5>1, <5>2
      <4>2. v[1] = v[0] \o ss[1] /\ ss[1] \in W
        BY <1>1, <3>1, <4>1
      <4>3. v[0] \o ss[1] = ss[1]
        BY <1>3, <4>2 DEF W
      <4> QED BY <4>2, <4>3
    <3> QED BY <3>1, <3>2
  <2>5. ASSUME NEW m \in Nat, m \in Good
        PROVE  m + 1 \in Good
    <3> SUFFICES ASSUME (m + 1) + 1 <= n
                 PROVE  it[(m + 1) + 1] = v[(m + 1) + 1]
      OBVIOUS
    <3>1. (m + 1) + 1 \in 1 .. n /\ (m + 1) + 1 # 1 /\ ((m + 1) + 1) - 1 = m + 1 /\ it[m + 1] = v[m + 1]
      BY <1>1, <2>5
    <3>2. it[(m + 1) + 1] = it[m + 1] \o ss[(m + 1) + 1]
      BY <2>3, <3>1
    <3> QED BY <1>5, <3>1, <3>2
  <2>6. Nat \subseteq Good
    <3> HIDE DEF Good
    <3> QED BY <2>4, <2>5, NatSet
  <2>7. it[n] = v[n]
    <3> HIDE DEF n
    <3>1. n - 1 \in Nat /\ (n - 1) + 1 = n /\ n <= n
      BY <1>1, <1>7
    <3>2. n - 1 \in Good
      BY <2>6, <3>1
    <3> QED BY <3>1, <3>2
  <2> QED BY <1>2, <1>3, <2>1, <2>7 DEF W
<1> QED BY <1>6, <1>7

\* Flattening on the sequences of writes that an outbox has: none, one, two.
LEMMA Flattens ==
  /\ FlattenSeq(<<>>) = <<>>
  /\ \A ss \in Seq(Seq(Frame)) : FlattenSeq(ss) \in Seq(Frame)
  /\ \A s \in Seq(Frame) : FlattenSeq(<<s>>) = s
  /\ \A a, b \in Seq(Seq(Frame)) : FlattenSeq(a \o b) = FlattenSeq(a) \o FlattenSeq(b)
<1> DEFINE W == Seq(Frame)
           F == [p \in W \X W |-> p[1] \o p[2]]
           nil == <<>>
<1>1. nil \in W
  OBVIOUS
<1>2. /\ \A x \in W : x \o nil = x /\ nil \o x = x
      /\ \A x, y, z \in W : (x \o y) \o z = x \o (y \o z) /\ y \o z \in W
  OBVIOUS
<1> HIDE DEF W
<1>3. F \in [W \X W -> W] /\ \A a, b \in W : F[<<a, b>>] = a \o b
  BY <1>2
<1> HIDE DEF F, nil
<1>4. \A ss \in Seq(W) : RunsTo(W, F, nil, ss, FlattenSeq(ss))
  BY <1>3, FlattenRun DEF W, nil
<1>5. FlattenSeq(<<>>) = <<>>
  BY DEF FlattenSeq
<1>6. \A ss \in Seq(W) : FlattenSeq(ss) \in W
  <2> SUFFICES ASSUME NEW ss \in Seq(W)
               PROVE  FlattenSeq(ss) \in W
    OBVIOUS
  <2>1. Len(ss) \in 0 .. Len(ss)
    OBVIOUS
  <2> QED BY <1>4, <2>1 DEF RunsTo
<1>7. ASSUME NEW s \in W
      PROVE  FlattenSeq(<<s>>) = s
  BY DEF FlattenSeq
<1>8. ASSUME NEW a \in Seq(W), NEW b \in Seq(W)
      PROVE  FlattenSeq(a \o b) = FlattenSeq(a) \o FlattenSeq(b)
  <2> DEFINE ab == a \o b
  <2>1. ab \in Seq(W)
    OBVIOUS
  <2> HIDE DEF ab
  <2>2. \A x \in W : F[<<x, nil>>] = x
    BY <1>3, <1>1, <1>2
  <2>3. \A x, y \in W, e \in W : F[<<F[<<x, y>>], e>>] = F[<<x, F[<<y, e>>]>>]
    <3> SUFFICES ASSUME NEW x \in W, NEW y \in W, NEW e \in W
                 PROVE  F[<<F[<<x, y>>], e>>] = F[<<x, F[<<y, e>>]>>]
      OBVIOUS
    <3>1. F[<<x, y>>] = x \o y /\ F[<<y, e>>] = y \o e /\ x \o y \in W /\ y \o e \in W
      BY <1>3, <1>2
    <3>2. F[<<x \o y, e>>] = (x \o y) \o e /\ F[<<x, y \o e>>] = x \o (y \o e)
      BY <1>3, <3>1
    <3> QED BY <1>2, <3>1, <3>2
  <2>4. /\ RunsTo(W, F, nil, a, FlattenSeq(a)) /\ RunsTo(W, F, nil, b, FlattenSeq(b))
        /\ RunsTo(W, F, nil, ab, FlattenSeq(ab))
    BY <1>4, <2>1
  <2>5. RunsTo(W, F, nil, a \o b, F[<<FlattenSeq(a), FlattenSeq(b)>>])
    BY <1>3, <1>1, <2>2, <2>3, <2>4, RunJoin
  <2>6. FlattenSeq(ab) = F[<<FlattenSeq(a), FlattenSeq(b)>>]
    <3>1. RunsTo(W, F, nil, ab, F[<<FlattenSeq(a), FlattenSeq(b)>>])
      BY <2>5 DEF ab
    <3>2. F \in [W \X W -> W] /\ RunsTo(W, F, nil, ab, FlattenSeq(ab))
      BY <1>3, <2>4
    <3>3. \A r, t : RunsTo(W, F, nil, ab, r) /\ RunsTo(W, F, nil, ab, t) => r = t
      BY <1>1, <2>1, <3>2, RunSame
    <3> QED BY <3>1, <3>2, <3>3
  <2> QED BY <1>3, <1>6, <2>6 DEF ab
<1> QED
  BY <1>5, <1>6, <1>7, <1>8 DEF W

-----------------------------------------------------------------------------
(* Listeners.                                                              *)

\* A listener that unsubscribes is gone from the order and nothing else is
\* (a listener is in it once).
LEMMA Unsubscribes ==
  ASSUME NEW o \in Seq(Client), IsInjective(o), NEW c
  PROVE  /\ RemoveFirst(o, c) \in Seq(Client) /\ IsInjective(RemoveFirst(o, c))
         /\ ToSet(RemoveFirst(o, c)) = ToSet(o) \ {c}
<1>1. CASE ~\E i \in 1 .. Len(o) : o[i] = c
  BY <1>1 DEF RemoveFirst, ToSet
<1>2. CASE \E i \in 1 .. Len(o) : o[i] = c
  <2> DEFINE I == {i \in 1 .. Len(o) : o[i] = c}
             m == Min(I)
             r == SubSeq(o, 1, m - 1) \o SubSeq(o, m + 1, Len(o))
             n == Len(o)
  <2>1. RemoveFirst(o, c) = r
    BY <1>2 DEF RemoveFirst, SelectInSeq, RemoveAt
  <2>2. I \in SUBSET Nat /\ I # {}
    BY <1>2
  <2>3. m \in I
    <3> HIDE DEF I
    <3> QED BY <2>2, MinOf
  <2>4. m \in 1 .. n /\ o[m] = c /\ n \in Nat
    BY <2>3
  <2> HIDE DEF I, m
  <2> DEFINE a == SubSeq(o, 1, m - 1)
             b == SubSeq(o, m + 1, n)
  <2>5. /\ a \in Seq(Client) /\ Len(a) = m - 1 /\ \A i \in 1 .. (m - 1) : a[i] = o[i]
    BY <2>4
  <2>6. /\ b \in Seq(Client) /\ Len(b) = n - m /\ \A i \in 1 .. (n - m) : b[i] = o[m + i]
    BY <2>4
  <2>7. r = a \o b
    OBVIOUS
  <2> HIDE DEF a, b, r
  <2>8. /\ r \in Seq(Client) /\ Len(r) = n - 1
        /\ \A i \in 1 .. (n - 1) : r[i] = IF i < m THEN o[i] ELSE o[i + 1]
    <3>1. r \in Seq(Client) /\ Len(r) = n - 1
      <4>1. r \in Seq(Client) /\ Len(r) = Len(a) + Len(b)
        BY <2>5, <2>6, <2>7, Glues, Zenon
      <4>2. (m - 1) + (n - m) = n - 1
        BY <2>4
      <4> QED BY <2>5, <2>6, <4>1, <4>2
    <3>2. ASSUME NEW i \in 1 .. (n - 1)
          PROVE  r[i] = IF i < m THEN o[i] ELSE o[i + 1]
      <4> HIDE DEF n
      <4>1. CASE i < m
        BY <2>4, <2>5, <2>6, <2>7, <4>1
      <4>2. CASE ~(i < m)
        <5>1. i - (m - 1) \in 1 .. (n - m) /\ m + (i - (m - 1)) = i + 1
          BY <2>4, <4>2
        <5>2. r[i] = b[i - (m - 1)]
          BY <2>4, <2>5, <2>6, <2>7, <4>2
        <5> QED BY <2>6, <4>2, <5>1, <5>2
      <4> QED BY <4>1, <4>2
    <3> QED BY <3>1, <3>2
  <2>9. IsInjective(r)
    <3> SUFFICES ASSUME NEW i \in 1 .. (n - 1), NEW j \in 1 .. (n - 1), r[i] = r[j]
                 PROVE  i = j
      BY <2>8 DEF IsInjective
    <3>1. \A x, y \in 1 .. n : o[x] = o[y] => x = y
      BY DEF IsInjective
    <3> HIDE DEF n
    <3>2. i \in 1 .. n /\ j \in 1 .. n /\ i + 1 \in 1 .. n /\ j + 1 \in 1 .. n
      BY <2>4
    <3> QED BY <2>4, <2>8, <3>1, <3>2
  <2>10. ToSet(r) = ToSet(o) \ {c}
    <3>1. \A x, y \in 1 .. n : o[x] = o[y] => x = y
      BY DEF IsInjective
    <3>2. DOMAIN r = 1 .. (n - 1) /\ DOMAIN o = 1 .. n
      BY <2>4, <2>8
    <3> HIDE DEF n
    <3>3. ASSUME NEW i \in 1 .. (n - 1)
          PROVE  r[i] \in ToSet(o) \ {c}
      <4>1. i \in 1 .. n /\ i + 1 \in 1 .. n
        BY <2>4
      <4>2. \E j \in 1 .. n : j # m /\ r[i] = o[j]
        BY <2>4, <2>8, <4>1
      <4> QED BY <2>4, <3>1, <3>2, <4>2 DEF ToSet
    <3>4. ASSUME NEW i \in 1 .. n, o[i] # c
          PROVE  o[i] \in ToSet(r)
      <4>1. CASE i < m
        <5>1. i \in 1 .. (n - 1) /\ r[i] = o[i]
          BY <2>4, <2>8, <4>1
        <5> QED BY <3>2, <5>1 DEF ToSet
      <4>2. CASE i > m
        <5>1. i - 1 \in 1 .. (n - 1) /\ (i - 1) + 1 = i /\ ~(i - 1 < m)
          BY <2>4, <4>2
        <5>2. r[i - 1] = o[i]
          BY <2>8, <5>1
        <5> QED BY <3>2, <5>1, <5>2 DEF ToSet
      <4> QED BY <2>4, <3>4, <4>1, <4>2
    <3> QED BY <3>2, <3>3, <3>4 DEF ToSet
  <2> QED BY <2>1, <2>8, <2>9, <2>10 DEF r, a, b, n
<1> QED BY <1>1, <1>2

\* A listener that is not there yet comes last.
LEMMA Subscribes ==
  ASSUME NEW o \in Seq(Client), IsInjective(o), NEW c \in Client, c \notin ToSet(o)
  PROVE  /\ Append(o, c) \in Seq(Client) /\ IsInjective(Append(o, c))
         /\ ToSet(Append(o, c)) = ToSet(o) \cup {c}
<1> DEFINE r == Append(o, c)
           n == Len(o)
<1>1. /\ r \in Seq(Client) /\ Len(r) = n + 1 /\ n \in Nat /\ r[n + 1] = c
      /\ \A i \in 1 .. n : r[i] = o[i]
  OBVIOUS
<1>2. DOMAIN r = 1 .. (n + 1) /\ DOMAIN o = 1 .. n
  BY <1>1
<1> HIDE DEF r, n
<1>3. \A i \in 1 .. (n + 1) : i \in 1 .. n \/ i = n + 1
  BY <1>1
<1>4. \A i \in 1 .. n : o[i] # c
  BY <1>2 DEF ToSet
<1>5. IsInjective(r)
  BY <1>1, <1>2, <1>3, <1>4 DEF IsInjective
<1>6. ToSet(r) = ToSet(o) \cup {c}
  <2>1. \A i \in 1 .. n : i \in 1 .. (n + 1)
    BY <1>1
  <2>2. n + 1 \in 1 .. (n + 1)
    BY <1>1
  <2> QED BY <1>1, <1>2, <1>3, <2>1, <2>2 DEF ToSet
<1> QED BY <1>1, <1>5, <1>6 DEF r

\* The listener a publication calls is one it has not called.
LEMMA Listens ==
  ASSUME NEW o \in Seq(Client), o = order, Uncalled # {}
  PROVE  /\ Min(Uncalled) \in DOMAIN order /\ Listener \in ToSet(order)
         /\ Listener \in Client /\ Listener \notin stack[1].seen
<1>1. Uncalled \in SUBSET Nat
  BY DEF Uncalled
<1>2. Min(Uncalled) \in Uncalled
  BY <1>1, MinOf
<1>3. PICK m : m = Min(Uncalled) /\ m \in Uncalled
  BY <1>2
<1>4. m \in DOMAIN order /\ order[m] \notin stack[1].seen /\ order[m] \in Client
  BY <1>3 DEF Uncalled
<1>5. order[m] \in ToSet(order)
  BY <1>4 DEF ToSet
<1> QED BY <1>3, <1>4, <1>5 DEF Listener

-----------------------------------------------------------------------------
(* Outboxes.                                                               *)

\* The counters of an outbox are those of its frames, and within the limits.
OutboxOk(o) ==
  /\ o \in Outbox
  /\ o.bytes = Total(o.held) + Total(o.queue) + Total(Unwritten(o))
  /\ Frames(o) <= FrameLimit /\ o.bytes <= ByteLimit

\* Events are frames.
LEMMA EventsAreFrames == Seq(Event) \subseteq Seq(Frame) /\ Event \subseteq Frame
  BY DEF Frame

\* The parts of an outbox: their types, their bytes and their lengths.
LEMMA OutboxParts ==
  ASSUME NEW o \in Outbox
  PROVE  /\ o.held \in Seq(Frame) /\ o.queue \in Seq(Frame) /\ Unwritten(o) \in Seq(Frame)
         /\ Total(o.held) \in Nat /\ Total(o.queue) \in Nat /\ Total(Unwritten(o)) \in Nat
         /\ Total(o.held \o o.queue \o Unwritten(o))
              = Total(o.held) + Total(o.queue) + Total(Unwritten(o))
         /\ Len(o.held) \in Nat /\ Len(o.queue) \in Nat /\ Len(Unwritten(o)) \in Nat
         /\ Frames(o) \in Nat /\ o.bytes \in Nat
<1>1. /\ o.held \in Seq(Frame) /\ o.queue \in Seq(Frame) /\ o.sending \in Seq(Seq(Frame))
  BY EventsAreFrames DEF Outbox
<1>2. Unwritten(o) \in Seq(Frame)
  BY <1>1, Flattens DEF Unwritten
<1>3. o.held \o o.queue \in Seq(Frame)
  BY <1>1
<1>4. Total(o.held \o o.queue) = Total(o.held) + Total(o.queue)
  BY <1>1, TotalJoin
<1>5. Total((o.held \o o.queue) \o Unwritten(o)) = Total(o.held \o o.queue) + Total(Unwritten(o))
  BY <1>2, <1>3, TotalJoin
<1>6. Len(o.held) \in Nat /\ Len(o.queue) \in Nat /\ Len(Unwritten(o)) \in Nat
  BY <1>1, <1>2
<1>7. Frames(o) \in Nat /\ o.bytes \in Nat
  BY <1>6 DEF Frames, Outbox
<1> QED BY <1>1, <1>2, <1>4, <1>5, <1>6, <1>7, TotalNat

\* The outbox of a closed connection is in order.
LEMMA EmptyOk == OutboxOk(Empty) /\ Empty # Overflowed
<1>1. Empty \in Outbox /\ FrameLimit \in Nat /\ ByteLimit \in Nat
  BY FanoutAssumption DEF Empty, Outbox
<1>2. Unwritten(Empty) = <<>>
  BY Flattens DEF Empty, Unwritten
<1> QED BY <1>1, <1>2, TotalNone DEF OutboxOk, Empty, Frames, Overflowed

\* No outbox is the one that overflowed: that one counts -1 bytes.
LEMMA NotOverflowed == \A o \in Outbox : o # Overflowed
  BY DEF Outbox, Overflowed, Empty

\* A sequence that is not empty has a head and a tail.
LEMMA Starts ==
  ASSUME NEW S, NEW q \in Seq(S), q # <<>>
  PROVE  Head(q) \in S /\ Tail(q) \in Seq(S) /\ q = <<Head(q)>> \o Tail(q)
  OBVIOUS

\* What is left behind the first m elements, and behind one more.
LEMMA Rests ==
  ASSUME NEW S, NEW q \in Seq(S), NEW m \in Nat, m + 1 <= Len(q)
  PROVE  /\ SubSeq(q, m + 1, Len(q)) \in Seq(S) /\ SubSeq(q, m + 1, Len(q)) # <<>>
         /\ Head(SubSeq(q, m + 1, Len(q))) = q[m + 1] /\ m + 1 \in 1 .. Len(q)
         /\ Tail(SubSeq(q, m + 1, Len(q))) = SubSeq(q, (m + 1) + 1, Len(q))
<1> DEFINE n == Len(q)
           t == SubSeq(q, m + 1, n)
           r == SubSeq(q, (m + 1) + 1, n)
<1>1. n \in Nat /\ m + 1 \in 1 .. n /\ (m + 1) + 1 \in Nat /\ n - m \in Nat /\ n - m # 0
  OBVIOUS
<1>2. t \in Seq(S) /\ Len(t) = n - m /\ \A i \in 1 .. (n - m) : t[i] = q[m + i]
  BY <1>1
<1>3. r \in Seq(S) /\ Len(r) = (n - m) - 1 /\ \A i \in 1 .. ((n - m) - 1) : r[i] = q[(m + 1) + i]
  <2>1. PICK k \in Nat : k = m + 1
    OBVIOUS
  <2>2. k <= n /\ n - k = (n - m) - 1 /\ n - k \in Nat
    BY <1>1, <2>1
  <2>3. SubSeq(q, k + 1, n) \in Seq(S) /\ Len(SubSeq(q, k + 1, n)) = n - k
        /\ \A i \in 1 .. (n - k) : SubSeq(q, k + 1, n)[i] = q[k + i]
    BY <2>2
  <2>4. r = SubSeq(q, k + 1, n)
    BY <2>1, Zenon
  <2> HIDE DEF r, n
  <2>5. r \in Seq(S) /\ Len(r) = n - k /\ \A i \in 1 .. (n - k) : r[i] = q[k + i]
    BY <2>3, <2>4, Zenon
  <2> QED BY <2>1, <2>2, <2>5, Zenon
<1> HIDE DEF n, t, r
<1>4. t # <<>> /\ Head(t) = q[m + 1]
  BY <1>1, <1>2
<1>5. Tail(t) \in Seq(S) /\ Len(Tail(t)) = (n - m) - 1 /\ \A i \in 1 .. ((n - m) - 1) : Tail(t)[i] = t[i + 1]
  BY <1>1, <1>2, <1>4
<1>6. ASSUME NEW i \in 1 .. ((n - m) - 1)
      PROVE  Tail(t)[i] = r[i]
  <2>1. i + 1 \in 1 .. (n - m) /\ m + (i + 1) = (m + 1) + i
    BY <1>1
  <2>2. Tail(t)[i] = t[i + 1] /\ t[i + 1] = q[m + (i + 1)] /\ r[i] = q[(m + 1) + i]
    BY <1>2, <1>3, <1>5, <2>1
  <2> QED BY <2>1, <2>2
<1>7. Tail(t) = r
  BY <1>1, <1>3, <1>5, <1>6
<1> QED BY <1>1, <1>2, <1>4, <1>7, Zenon DEF n, t, r

\* A sequence that is not empty has a last element and the rest.
LEMMA Ends ==
  ASSUME NEW S, NEW q \in Seq(S), q # <<>>
  PROVE  /\ q[Len(q)] \in S /\ SubSeq(q, 1, Len(q) - 1) \in Seq(S)
         /\ q = SubSeq(q, 1, Len(q) - 1) \o <<q[Len(q)]>>
  OBVIOUS

\* Two queues that differ in their last frame only.
LEMMA Swaps ==
  ASSUME NEW q \in Seq(Frame), q # <<>>, NEW p \in Seq(Frame), Len(p) = Len(q),
         \A i \in 1 .. (Len(q) - 1) : p[i] = q[i]
  PROVE  Total(p) + Bytes(q[Len(q)]) = Total(q) + Bytes(p[Len(q)])
<1>1. p # <<>>
  OBVIOUS
<1>2. SubSeq(q, 1, Len(q) - 1) = SubSeq(p, 1, Len(p) - 1)
  OBVIOUS
<1>3. PICK a \in Seq(Frame), x \in Frame, y \in Frame :
        x = q[Len(q)] /\ y = p[Len(q)] /\ q = a \o <<x>> /\ p = a \o <<y>>
  <2>1. q[Len(q)] \in Frame /\ q = SubSeq(q, 1, Len(q) - 1) \o <<q[Len(q)]>>
    BY Ends
  <2>2. p[Len(p)] \in Frame /\ p = SubSeq(p, 1, Len(p) - 1) \o <<p[Len(p)]>>
    BY <1>1, Ends
  <2>3. SubSeq(q, 1, Len(q) - 1) \in Seq(Frame)
    BY Ends
  <2> QED BY <1>2, <2>1, <2>2, <2>3, Zenon
<1>4. <<x>> \in Seq(Frame) /\ <<y>> \in Seq(Frame)
  OBVIOUS
<1>5. Total(a \o <<x>>) = Total(a) + Bytes(x) /\ Total(a \o <<y>>) = Total(a) + Bytes(y)
  BY <1>4, TotalJoin, TotalOne
<1>6. Total(a) \in Nat /\ Bytes(x) \in Nat /\ Bytes(y) \in Nat
  BY TotalNat, FrameBytes
<1>7. Total(q) = Total(a) + Bytes(x) /\ Total(p) = Total(a) + Bytes(y)
  BY <1>3, <1>5, Zenon
<1>8. (Total(a) + Bytes(y)) + Bytes(x) = (Total(a) + Bytes(x)) + Bytes(y)
  BY <1>6
<1>9. p[Len(q)] = y /\ q[Len(q)] = x
  BY <1>3, Zenon
<1> QED BY <1>7, <1>8, <1>9, Zenon

\* The last frame of a queue grows.
Grown(q, n) == [q EXCEPT ![Len(q)].len = @ + n]

\* The last delta of a queue becomes longer; the queue counts that much more.
LEMMA Grows ==
  ASSUME NEW q \in Seq(Frame), q # <<>>, q[Len(q)] \in TextEvent, NEW n \in Nat \ {0}
  PROVE  /\ Grown(q, n) \in Seq(Frame) /\ Len(Grown(q, n)) = Len(q)
         /\ Total(Grown(q, n)) = Total(q) + n
         /\ Grown(q, n)[Len(q)] = [q[Len(q)] EXCEPT !.len = @ + n]
         /\ Grown(q, n)[Len(q)] \in TextEvent
         /\ \A i \in 1 .. (Len(q) - 1) : Grown(q, n)[i] = q[i]
<1> DEFINE m == Len(q)
           last == q[Len(q)]
           more == [last EXCEPT !.len = @ + n]
<1>1. m \in Nat /\ m # 0 /\ DOMAIN q = 1 .. m /\ m \in 1 .. m
  OBVIOUS
<1>2. more \in TextEvent /\ more.len = last.len + n /\ last.len \in Nat /\ last \in TextEvent
  BY DEF TextEvent
<1>3. more \in Frame /\ last \in Frame
  BY <1>2 DEF Frame, Event
<1> HIDE DEF more
<1>4. DOMAIN Grown(q, n) = 1 .. m /\ Grown(q, n) = [i \in 1 .. m |-> Grown(q, n)[i]]
  BY <1>1 DEF Grown
<1>5. Grown(q, n)[m] = more
  BY <1>1 DEF Grown, more
<1>6. \A i \in 1 .. (m - 1) : Grown(q, n)[i] = q[i]
  <2> SUFFICES ASSUME NEW i \in 1 .. (m - 1)
               PROVE  Grown(q, n)[i] = q[i]
    OBVIOUS
  <2>1. i \in DOMAIN q /\ i # m
    <3> HIDE DEF m, last
    <3> QED BY <1>1
  <2> QED BY <2>1 DEF Grown
<1>7. PICK p : p = Grown(q, n)
  OBVIOUS
<1>8. p \in Seq(Frame) /\ Len(p) = m /\ p[m] = more /\ \A i \in 1 .. (m - 1) : p[i] = q[i]
  <2> HIDE DEF m, last
  <2>1. \A i \in 1 .. m : i = m \/ i \in 1 .. (m - 1)
    BY <1>1
  <2>2. \A i \in 1 .. (m - 1) : q[i] \in Frame
    BY <1>1 DEF m
  <2>3. \A i \in 1 .. m : p[i] \in Frame
    BY <1>3, <1>5, <1>6, <1>7, <2>1, <2>2
  <2>4. p \in [1 .. m -> Frame]
    BY <1>4, <1>7, <2>3
  <2>5. p \in Seq(Frame) /\ Len(p) = m
    BY <1>1, <2>4
  <2> QED BY <1>5, <1>6, <1>7, <2>5
<1> HIDE DEF last
<1>9. Total(p) + Bytes(last) = Total(q) + Bytes(more)
  BY <1>8, Swaps DEF last
<1>10. Bytes(last) = 1 + last.len /\ Bytes(more) = 1 + more.len
  BY <1>2, FrameBytes
<1>11. Total(p) \in Nat /\ Total(q) \in Nat
  BY <1>8, TotalNat
<1>12. Total(p) = Total(q) + n
  <2> HIDE DEF m
  <2>1. \A t, u \in Nat, x \in Nat, k \in Nat : t + (1 + x) = u + (1 + (x + k)) => t = u + k
    OBVIOUS
  <2>2. Total(p) + (1 + last.len) = Total(q) + (1 + (last.len + n))
    BY <1>2, <1>9, <1>10
  <2> QED BY <1>2, <1>11, <2>1, <2>2
<1> QED BY <1>2, <1>7, <1>8, <1>12 DEF more, last

\* What a merge into the last queued frame makes of an outbox.
Merged(o, e, p) ==
  /\ p.queue \in Seq(Frame) /\ Len(p.queue) = Len(o.queue)
  /\ Last(o.queue) \in TextEvent /\ o.queue # <<>>
  /\ p.queue[Len(o.queue)] = [Last(o.queue) EXCEPT !.len = @ + e.len]
  /\ p.queue[Len(o.queue)] \in TextEvent
  /\ \A i \in 1 .. (Len(o.queue) - 1) : p.queue[i] = o.queue[i]
  /\ Total(p.queue) = Total(o.queue) + e.len
  /\ p.sending = o.sending /\ p.held = o.held /\ p.blocked = o.blocked
  /\ p.scheduled = o.scheduled /\ p.bytes = o.bytes

\* Merging a delta into an outbox: what it changes, and what it leaves.
LEMMA Extends ==
  ASSUME NEW o \in Outbox, NEW e \in Frame, Mergeable(o, e)
  PROVE  e \in TextEvent /\ Merged(o, e, Extended(o, e)) /\ Extended(o, e) \in Outbox
<1> DEFINE q == o.queue
           p == Extended(o, e).queue
<1>1. e \in TextEvent
  BY DEF Mergeable, Frame, Event, RevEvent
<1>2. q \in Seq(Frame) /\ q # <<>> /\ q[Len(q)] \in TextEvent
  <2>1. q \in Seq(Frame) /\ q # <<>> /\ q[Len(q)].kind = "text"
    BY DEF Mergeable, Outbox, Last
  <2>2. q[Len(q)] \in Frame
    BY <2>1
  <2> QED BY <2>1, <2>2 DEF Frame, Event, RevEvent
<1>3. p = Grown(q, e.len)
  BY DEF Outbox, Extended, Grown
<1>4. e.len \in Nat \ {0}
  BY <1>1 DEF TextEvent
<1> HIDE DEF p
<1>5. /\ p \in Seq(Frame) /\ Len(p) = Len(q) /\ Total(p) = Total(q) + e.len
      /\ p[Len(q)] = [q[Len(q)] EXCEPT !.len = @ + e.len] /\ p[Len(q)] \in TextEvent
      /\ \A i \in 1 .. (Len(q) - 1) : p[i] = q[i]
  <2>1. PICK n \in Nat \ {0} : n = e.len
    BY <1>4
  <2> HIDE DEF q
  <2>2. p = Grown(q, n)
    BY <1>3, <2>1
  <2> QED BY <1>2, <2>1, <2>2, Grows
<1>6. /\ Extended(o, e).sending = o.sending /\ Extended(o, e).held = o.held
      /\ Extended(o, e).blocked = o.blocked /\ Extended(o, e).scheduled = o.scheduled
      /\ Extended(o, e).bytes = o.bytes
  BY DEF Outbox, Extended
<1>7. Extended(o, e) = [o EXCEPT !.queue = p]
  BY DEF Outbox, Extended, p
<1>8. Extended(o, e) \in Outbox
  BY <1>5, <1>7 DEF Outbox
<1> QED BY <1>1, <1>2, <1>5, <1>6, <1>8 DEF Merged, Last, p

\* A queue that took a frame: behind its last one, or merged into it.
Joined(q, e, p) ==
  \/ p = Append(q, e)
  \/ /\ q # <<>> /\ q[Len(q)] \in TextEvent /\ e \in TextEvent
     /\ q[Len(q)].msg = e.msg /\ e.from = q[Len(q)].from + q[Len(q)].len
     /\ p \in Seq(Frame) /\ Len(p) = Len(q) /\ p[Len(q)] \in TextEvent
     /\ p[Len(q)] = [q[Len(q)] EXCEPT !.len = @ + e.len]
     /\ \A i \in 1 .. (Len(q) - 1) : p[i] = q[i]

\* The queue of a merge is one that the frame joined.
LEMMA ExtendJoins ==
  ASSUME NEW o \in Outbox, NEW e \in Frame, Mergeable(o, e)
  PROVE  Joined(o.queue, e, Extended(o, e).queue)
<1>1. e \in TextEvent /\ Merged(o, e, Extended(o, e))
  BY Extends
<1>2. Last(o.queue).msg = e.msg /\ e.from = Last(o.queue).from + Last(o.queue).len
  BY DEF Mergeable
<1> QED BY <1>1, <1>2 DEF Joined, Merged, Last

\* Appending a frame adds its bytes.
LEMMA TotalAppend ==
  ASSUME NEW q \in Seq(Frame), NEW e \in Frame
  PROVE  Append(q, e) \in Seq(Frame) /\ Total(Append(q, e)) = Total(q) + Bytes(e)
         /\ Len(Append(q, e)) = Len(q) + 1
<1>1. Append(q, e) = q \o <<e>> /\ <<e>> \in Seq(Frame)
  OBVIOUS
<1>2. Total(q \o <<e>>) = Total(q) + Total(<<e>>) /\ Total(<<e>>) = Bytes(e)
  BY <1>1, TotalJoin, TotalOne
<1>3. Append(q, e) \in Seq(Frame) /\ Len(Append(q, e)) = Len(q) + 1
  OBVIOUS
<1> QED BY <1>1, <1>2, <1>3, Zenon

\* Taking the first frame takes its bytes.
LEMMA TotalTail ==
  ASSUME NEW q \in Seq(Frame), q # <<>>
  PROVE  /\ Head(q) \in Frame /\ Tail(q) \in Seq(Frame) /\ Len(Tail(q)) = Len(q) - 1
         /\ Total(q) = Bytes(Head(q)) + Total(Tail(q))
<1>1. q = <<Head(q)>> \o Tail(q) /\ <<Head(q)>> \in Seq(Frame) /\ Tail(q) \in Seq(Frame)
      /\ Head(q) \in Frame /\ Len(Tail(q)) = Len(q) - 1
  OBVIOUS
<1>2. Total(<<Head(q)>> \o Tail(q)) = Total(<<Head(q)>>) + Total(Tail(q))
  BY <1>1, TotalJoin
<1> QED BY <1>1, <1>2, TotalOne

\* Schedule() changes no frame and no counter.
LEMMA Schedules ==
  ASSUME NEW o \in Outbox
  PROVE  /\ Schedule(o) \in Outbox /\ Schedule(o).held = o.held /\ Schedule(o).queue = o.queue
         /\ Schedule(o).sending = o.sending /\ Schedule(o).bytes = o.bytes
         /\ Schedule(o).blocked = o.blocked
         /\ Schedule(o).scheduled = (o.scheduled \/ (~o.blocked /\ o.queue # <<>>))
  BY DEF Outbox, Schedule

\* and keeps an outbox in order.
LEMMA ScheduleOk ==
  ASSUME NEW o, OutboxOk(o)
  PROVE  OutboxOk(Schedule(o))
<1>1. o \in Outbox
  BY DEF OutboxOk
<1> QED BY <1>1, Schedules DEF OutboxOk, Frames, Unwritten

\* An outbox with another queue and another charge.
Loaded(o, q, b) == [o EXCEPT !.queue = q, !.bytes = b]

\* The fields of an outbox with another queue.
LEMMA Loads ==
  ASSUME NEW o \in Outbox, NEW q \in Seq(Frame), NEW b \in Nat
  PROVE  /\ Loaded(o, q, b) \in Outbox /\ Loaded(o, q, b).held = o.held
         /\ Loaded(o, q, b).queue = q /\ Loaded(o, q, b).sending = o.sending
         /\ Loaded(o, q, b).bytes = b /\ Loaded(o, q, b).blocked = o.blocked
         /\ Loaded(o, q, b).scheduled = o.scheduled
  BY DEF Loaded, Outbox

\* A sum of lengths: the oldest held event goes, at most one frame comes.
LEMMA Slack == \A x, y, z, l \in Nat, n \in {0, 1} : (x + 1) + y + z <= l => x + (y + n) + z <= l
  OBVIOUS

\* It is in order if the queue grew by what is counted, within the limits.
LEMMA LoadedOk ==
  ASSUME NEW o, OutboxOk(o), NEW q \in Seq(Frame), NEW n \in Nat, NEW m \in Nat,
         Total(q) = Total(o.queue) + n, Len(q) = Len(o.queue) + m,
         Frames(o) + m <= FrameLimit, o.bytes + n <= ByteLimit
  PROVE  OutboxOk(Loaded(o, q, o.bytes + n))
<1>1. o \in Outbox /\ o.bytes \in Nat /\ o.bytes + n \in Nat
  BY DEF OutboxOk, Outbox
<1>2. PICK p : p = Loaded(o, q, o.bytes + n)
  OBVIOUS
<1>3. /\ p \in Outbox /\ p.held = o.held /\ p.queue = q /\ p.sending = o.sending
      /\ p.bytes = o.bytes + n
  <2>1. PICK b \in Nat : b = o.bytes + n
    BY <1>1
  <2>2. Loaded(o, q, b) = p
    BY <1>2, <2>1, Zenon
  <2>3. /\ Loaded(o, q, b) \in Outbox /\ Loaded(o, q, b).held = o.held
        /\ Loaded(o, q, b).queue = q /\ Loaded(o, q, b).sending = o.sending
        /\ Loaded(o, q, b).bytes = b
    BY <1>1 DEF Loaded, Outbox
  <2> QED BY <2>1, <2>2, <2>3, Zenon
<1>4. /\ Total(o.held) \in Nat /\ Total(o.queue) \in Nat /\ Total(Unwritten(o)) \in Nat
      /\ Len(o.held) \in Nat /\ Len(o.queue) \in Nat /\ Len(Unwritten(o)) \in Nat
  <2> SUFFICES \A x \in Outbox : 
                 /\ Total(x.held) \in Nat /\ Total(x.queue) \in Nat /\ Total(Unwritten(x)) \in Nat
                 /\ Len(x.held) \in Nat /\ Len(x.queue) \in Nat /\ Len(Unwritten(x)) \in Nat
    BY <1>1
  <2> QED BY OutboxParts
<1>5. Unwritten(p) = Unwritten(o)
  BY <1>3 DEF Unwritten
<1>6. p.bytes = Total(p.held) + Total(p.queue) + Total(Unwritten(p))
  <2>1. o.bytes = Total(o.held) + Total(o.queue) + Total(Unwritten(o))
    BY DEF OutboxOk
  <2> QED BY <1>3, <1>4, <1>5, <2>1
<1>7. Frames(p) = Frames(o) + m
  <2>1. Frames(p) = Len(o.held) + (Len(o.queue) + m) + Len(Unwritten(o))
    BY <1>3, <1>5 DEF Frames
  <2>2. Len(o.held) + (Len(o.queue) + m) + Len(Unwritten(o))
          = Len(o.held) + Len(o.queue) + Len(Unwritten(o)) + m
    <3>1. PICK x \in Nat, y \in Nat, z \in Nat :
            x = Len(o.held) /\ y = Len(o.queue) /\ z = Len(Unwritten(o))
      BY <1>4, Zenon
    <3>2. \A a, b, c \in Nat : a + (b + m) + c = a + b + c + m
      OBVIOUS
    <3>3. x + (y + m) + z = x + y + z + m
      BY <3>2, Zenon
    <3> QED BY <3>1, <3>3, Zenon
  <2> QED BY <2>1, <2>2, Zenon DEF Frames
<1> QED BY <1>2, <1>3, <1>7, <1>6, <1>7 DEF OutboxOk

\* The branches of send() that keep the connection.
Queued(o, e) == Loaded(o, Append(o.queue, e), o.bytes + Bytes(e))

\* send() overflows, merges or appends.
LEMMA SendCases ==
  ASSUME NEW o \in Outbox, NEW e
  PROVE  \/ Send(o, e) = Overflowed
         \/ /\ Mergeable(o, e) /\ ~(o.bytes + e.len > ByteLimit)
            /\ Send(o, e) = Loaded(o, Extended(o, e).queue, o.bytes + e.len)
         \/ ~Mergeable(o, e) /\ Fits(o, e) /\ Send(o, e) = Schedule(Queued(o, e))
<1>1. [o EXCEPT !.queue = Append(@, e), !.bytes = @ + Bytes(e)] = Queued(o, e)
  BY DEF Queued, Loaded, Outbox
<1>2. [Extended(o, e) EXCEPT !.bytes = @ + e.len] = Loaded(o, Extended(o, e).queue, o.bytes + e.len)
  BY DEF Extended, Loaded, Outbox
<1>3. Mergeable(o, e) /\ o.bytes + e.len > ByteLimit => Send(o, e) = Overflowed
  BY DEF Send
<1>4. Mergeable(o, e) /\ ~(o.bytes + e.len > ByteLimit) =>
        Send(o, e) = Loaded(o, Extended(o, e).queue, o.bytes + e.len)
  BY <1>2 DEF Send
<1>5. ~Mergeable(o, e) /\ ~Fits(o, e) => Send(o, e) = Overflowed
  BY DEF Send
<1>6. ~Mergeable(o, e) /\ Fits(o, e) => Send(o, e) = Schedule(Queued(o, e))
  BY <1>1 DEF Send
<1> QED BY <1>3, <1>4, <1>5, <1>6

\* Appending a frame that fits keeps an outbox in order.
LEMMA QueuedOk ==
  ASSUME NEW o, OutboxOk(o), NEW e \in Frame, Fits(o, e)
  PROVE  /\ OutboxOk(Queued(o, e)) /\ Queued(o, e).queue = Append(o.queue, e)
         /\ Queued(o, e).held = o.held /\ Queued(o, e).sending = o.sending
         /\ Queued(o, e).blocked = o.blocked
<1>1. o \in Outbox /\ o.bytes \in Nat
  BY DEF OutboxOk, Outbox
<1>2. o.queue \in Seq(Frame) /\ Bytes(e) \in Nat
  BY <1>1, OutboxParts, FrameBytes
<1>3. PICK q \in Seq(Frame) : q = Append(o.queue, e)
  BY <1>2, TotalAppend
<1>4. Total(q) = Total(o.queue) + Bytes(e) /\ Len(q) = Len(o.queue) + 1
  BY <1>2, <1>3, TotalAppend
<1>5. Frames(o) + 1 <= FrameLimit /\ o.bytes + Bytes(e) <= ByteLimit
  <2>1. Frames(o) \in Nat /\ FrameLimit \in Nat
    BY <1>1, OutboxParts, FanoutAssumption
  <2> QED BY <2>1 DEF Fits
<1>6. OutboxOk(Loaded(o, q, o.bytes + Bytes(e)))
  BY <1>2, <1>4, <1>5, LoadedOk
<1>7. PICK p : p = Loaded(o, q, o.bytes + Bytes(e))
  OBVIOUS
<1>8. o.bytes + Bytes(e) \in Nat
  BY <1>1, <1>2
<1>9. p.held = o.held /\ p.queue = q /\ p.sending = o.sending /\ p.blocked = o.blocked
  BY <1>1, <1>7, <1>8, Loads
<1>10. p = Queued(o, e)
  BY <1>3, <1>7 DEF Queued
<1> QED BY <1>3, <1>6, <1>7, <1>9, <1>10

\* Merging a delta within the limit keeps it in order.
LEMMA ExtendedOk ==
  ASSUME NEW o, OutboxOk(o), NEW e \in Frame, Mergeable(o, e), o.bytes + e.len <= ByteLimit
  PROVE  /\ OutboxOk(Loaded(o, Extended(o, e).queue, o.bytes + e.len))
         /\ Extended(o, e).queue \in Seq(Frame) /\ e.len \in Nat \ {0}
<1>1. o \in Outbox /\ o.bytes \in Nat
  BY DEF OutboxOk, Outbox
<1>2. e \in TextEvent /\ Merged(o, e, Extended(o, e))
  BY <1>1, Extends
<1>3. e.len \in Nat \ {0}
  BY <1>2 DEF TextEvent
<1>4. PICK q \in Seq(Frame) : q = Extended(o, e).queue
  BY <1>2 DEF Merged
<1>5. Total(q) = Total(o.queue) + e.len /\ Len(q) = Len(o.queue) + 0
  BY <1>1, <1>2, <1>4, OutboxParts DEF Merged
<1>6. Frames(o) + 0 <= FrameLimit
  <2>1. Frames(o) \in Nat
    BY <1>1, OutboxParts
  <2> QED BY <2>1 DEF OutboxOk
<1>7. OutboxOk(Loaded(o, q, o.bytes + e.len))
  BY <1>3, <1>5, <1>6, LoadedOk
<1> QED BY <1>3, <1>4, <1>7

\* send(): what is queued is what was, and the frame.
LEMMA Sends ==
  ASSUME NEW o, OutboxOk(o), NEW e \in Frame, Send(o, e) # Overflowed
  PROVE  /\ OutboxOk(Send(o, e)) /\ Joined(o.queue, e, Send(o, e).queue)
         /\ Send(o, e).held = o.held /\ Send(o, e).sending = o.sending
         /\ Send(o, e).blocked = o.blocked
<1>1. o \in Outbox /\ o.bytes \in Nat
  BY DEF OutboxOk, Outbox
<1>2. CASE /\ Mergeable(o, e) /\ ~(o.bytes + e.len > ByteLimit)
           /\ Send(o, e) = Loaded(o, Extended(o, e).queue, o.bytes + e.len)
  <2>1. e \in TextEvent
    BY <1>1, <1>2, Extends
  <2>2. o.bytes + e.len <= ByteLimit /\ o.bytes + e.len \in Nat
    BY <1>1, <1>2, <2>1, FanoutAssumption DEF TextEvent
  <2>3. OutboxOk(Send(o, e)) /\ Extended(o, e).queue \in Seq(Frame)
    BY <1>2, <2>2, ExtendedOk
  <2>4. Joined(o.queue, e, Extended(o, e).queue)
    BY <1>1, <1>2, ExtendJoins
  <2> QED BY <1>1, <1>2, <2>2, <2>3, <2>4, Loads
<1>3. CASE ~Mergeable(o, e) /\ Fits(o, e) /\ Send(o, e) = Schedule(Queued(o, e))
  <2>1. PICK x : x = Queued(o, e)
    OBVIOUS
  <2>2. /\ OutboxOk(x) /\ x.queue = Append(o.queue, e)
        /\ x.held = o.held /\ x.sending = o.sending /\ x.blocked = o.blocked
    BY <1>3, <2>1, QueuedOk
  <2>3. x \in Outbox /\ OutboxOk(Schedule(x))
    BY <2>2, ScheduleOk DEF OutboxOk
  <2> QED BY <1>3, <2>1, <2>2, <2>3, Schedules DEF Joined
<1> QED BY <1>1, <1>2, <1>3, SendCases

\* An outbox with other held frames and another charge.
Holding(o, q, b) == [o EXCEPT !.held = q, !.bytes = b]

\* The fields of an outbox with other held events.
LEMMA Holdings ==
  ASSUME NEW o \in Outbox, NEW q \in Seq(Event), NEW b \in Nat
  PROVE  /\ Holding(o, q, b) \in Outbox /\ Holding(o, q, b).held = q
         /\ Holding(o, q, b).queue = o.queue /\ Holding(o, q, b).sending = o.sending
         /\ Holding(o, q, b).bytes = b /\ Holding(o, q, b).blocked = o.blocked
         /\ Holding(o, q, b).scheduled = o.scheduled
  BY DEF Holding, Outbox

\* An event held before the cutover is charged at once.
LEMMA Holds ==
  ASSUME NEW o, OutboxOk(o), NEW e \in Event, Hold(o, e) # Overflowed
  PROVE  /\ OutboxOk(Hold(o, e)) /\ Hold(o, e).held = Append(o.held, e)
         /\ Hold(o, e).queue = o.queue /\ Hold(o, e).sending = o.sending
         /\ Hold(o, e).blocked = o.blocked /\ Hold(o, e).scheduled = o.scheduled
<1>1. o \in Outbox /\ o.bytes \in Nat /\ o.held \in Seq(Event)
  BY DEF OutboxOk, Outbox
<1>2. e \in Frame /\ Bytes(e) \in Nat
  BY EventsAreFrames, FrameBytes
<1>3. PICK q \in Seq(Event) : q = Append(o.held, e)
  <2>1. PICK h \in Seq(Event) : h = o.held
    BY <1>1
  <2>2. Append(h, e) \in Seq(Event)
    OBVIOUS
  <2> QED BY <2>1, <2>2
<1>4. Total(q) = Total(o.held) + Bytes(e) /\ Len(q) = Len(o.held) + 1
  <2>1. o.held \in Seq(Frame)
    BY <1>1, OutboxParts
  <2> QED BY <1>2, <1>3, <2>1, TotalAppend
<1>5. PICK b \in Nat : b = o.bytes + Bytes(e)
  BY <1>1, <1>2
<1>6. Fits(o, e) /\ Hold(o, e) = Holding(o, q, b)
  <2>1. Fits(o, e) /\ Hold(o, e) = [o EXCEPT !.held = Append(@, e), !.bytes = @ + Bytes(e)]
    BY DEF Hold
  <2>2. [o EXCEPT !.held = Append(@, e), !.bytes = @ + Bytes(e)] = Holding(o, q, b)
    BY <1>1, <1>3, <1>5 DEF Holding, Outbox
  <2> QED BY <2>1, <2>2
<1>7. PICK p : p = Holding(o, q, b)
  OBVIOUS
<1>8. /\ p \in Outbox /\ p.held = q /\ p.queue = o.queue /\ p.sending = o.sending
      /\ p.bytes = b /\ p.blocked = o.blocked /\ p.scheduled = o.scheduled
  <2>1. /\ Holding(o, q, b) \in Outbox /\ Holding(o, q, b).held = q
        /\ Holding(o, q, b).queue = o.queue /\ Holding(o, q, b).sending = o.sending
        /\ Holding(o, q, b).bytes = b /\ Holding(o, q, b).blocked = o.blocked
        /\ Holding(o, q, b).scheduled = o.scheduled
    BY <1>1 DEF Holding, Outbox
  <2> QED BY <1>7, <2>1, Zenon
<1>9. /\ Total(o.held) \in Nat /\ Total(o.queue) \in Nat /\ Total(Unwritten(o)) \in Nat
      /\ Len(o.held) \in Nat /\ Len(o.queue) \in Nat /\ Len(Unwritten(o)) \in Nat
  BY <1>1, OutboxParts
<1>10. Unwritten(p) = Unwritten(o)
  BY <1>8 DEF Unwritten
<1>11. p.bytes = Total(p.held) + Total(p.queue) + Total(Unwritten(p))
  <2>1. o.bytes = Total(o.held) + Total(o.queue) + Total(Unwritten(o))
    BY DEF OutboxOk
  <2> QED BY <1>2, <1>4, <1>5, <1>8, <1>9, <1>10, <2>1
<1>12. Frames(p) = Frames(o) + 1 /\ Frames(o) \in Nat
  <2>1. \A x, y, z \in Nat : (x + 1) + y + z = x + y + z + 1 /\ x + y + z \in Nat
    OBVIOUS
  <2>2. Frames(p) = (Len(o.held) + 1) + Len(o.queue) + Len(Unwritten(o))
    BY <1>4, <1>8, <1>10 DEF Frames
  <2>3. (Len(o.held) + 1) + Len(o.queue) + Len(Unwritten(o))
          = Len(o.held) + Len(o.queue) + Len(Unwritten(o)) + 1
        /\ Len(o.held) + Len(o.queue) + Len(Unwritten(o)) \in Nat
    BY <1>9, <2>1
  <2> QED BY <2>2, <2>3, Zenon DEF Frames
<1>13. Frames(p) <= FrameLimit /\ p.bytes <= ByteLimit
  BY <1>5, <1>6, <1>8, <1>12, FanoutAssumption DEF Fits
<1>14. OutboxOk(p)
  BY <1>8, <1>11, <1>13 DEF OutboxOk
<1> QED BY <1>3, <1>6, <1>7, <1>8, <1>14

\* The oldest held event, and what is charged for it.
LEMMA Heads ==
  ASSUME NEW o, OutboxOk(o), o.held # <<>>
  PROVE  /\ Head(o.held) \in Event /\ Tail(o.held) \in Seq(Event)
         /\ Bytes(Head(o.held)) \in Nat \ {0} /\ Total(Tail(o.held)) \in Nat
         /\ Len(Tail(o.held)) \in Nat /\ Len(o.held) = Len(Tail(o.held)) + 1
         /\ Total(o.held) = Bytes(Head(o.held)) + Total(Tail(o.held))
         /\ o.bytes - Bytes(Head(o.held)) \in Nat
         /\ o.bytes - Bytes(Head(o.held))
              = Total(Tail(o.held)) + Total(o.queue) + Total(Unwritten(o))
<1>1. o \in Outbox /\ o.held \in Seq(Event) /\ o.held \in Seq(Frame)
  BY OutboxParts DEF OutboxOk, Outbox
<1>2. Head(o.held) \in Event /\ Tail(o.held) \in Seq(Event)
  BY <1>1
<1>3. Bytes(Head(o.held)) \in Nat \ {0} /\ Total(Tail(o.held)) \in Nat
  BY <1>2, EventsAreFrames, FrameBytes, TotalNat
<1>4. Total(o.held) = Bytes(Head(o.held)) + Total(Tail(o.held))
  BY <1>1, TotalTail
<1>5. Len(Tail(o.held)) \in Nat /\ Len(o.held) = Len(Tail(o.held)) + 1
  BY <1>1
<1>6. Total(o.queue) \in Nat /\ Total(Unwritten(o)) \in Nat
  BY <1>1, OutboxParts
<1>7. o.bytes = Bytes(Head(o.held)) + Total(Tail(o.held)) + Total(o.queue) + Total(Unwritten(o))
  <2>1. o.bytes = Total(o.held) + Total(o.queue) + Total(Unwritten(o))
    BY DEF OutboxOk
  <2> QED BY <1>4, <2>1
<1>8. \A a, b, c, d \in Nat : (a + b + c + d) - a = b + c + d /\ b + c + d \in Nat
  OBVIOUS
<1>9. o.bytes - Bytes(Head(o.held)) = Total(Tail(o.held)) + Total(o.queue) + Total(Unwritten(o))
      /\ Total(Tail(o.held)) + Total(o.queue) + Total(Unwritten(o)) \in Nat
  BY <1>3, <1>6, <1>7, <1>8
<1> QED BY <1>2, <1>3, <1>4, <1>5, <1>9

\* A duplicate is released with its charge.
LEMMA Releases ==
  ASSUME NEW o, OutboxOk(o), o.held # <<>>
  PROVE  /\ OutboxOk(Release(o)) /\ Release(o).held = Tail(o.held)
         /\ Release(o).queue = o.queue /\ Release(o).sending = o.sending
         /\ Release(o).blocked = o.blocked /\ Release(o).scheduled = o.scheduled
         /\ Release(o).bytes = o.bytes - Bytes(Head(o.held))
<1>1. o \in Outbox
  BY DEF OutboxOk
<1>2. PICK q \in Seq(Event), b \in Nat : q = Tail(o.held) /\ b = o.bytes - Bytes(Head(o.held))
  BY Heads
<1>3. Release(o) = Holding(o, q, b)
  BY <1>1, <1>2 DEF Release, Holding, Outbox
<1>4. PICK p : p = Holding(o, q, b)
  OBVIOUS
<1>5. /\ p \in Outbox /\ p.held = q /\ p.queue = o.queue /\ p.sending = o.sending
      /\ p.bytes = b /\ p.blocked = o.blocked /\ p.scheduled = o.scheduled
  BY <1>1, <1>4, Holdings, Zenon
<1>6. Unwritten(p) = Unwritten(o)
  BY <1>5 DEF Unwritten
<1>7. p.bytes = Total(p.held) + Total(p.queue) + Total(Unwritten(p))
  BY <1>2, <1>5, <1>6, Heads
<1>8. Frames(p) <= FrameLimit
  <2>1. /\ Len(Tail(o.held)) \in Nat /\ Len(o.held) = Len(Tail(o.held)) + 1
        /\ Len(o.queue) \in Nat /\ Len(Unwritten(o)) \in Nat
    BY <1>1, Heads, OutboxParts
  <2>2. \A x, y, z \in Nat : (x + 1) + y + z <= FrameLimit => x + y + z <= FrameLimit
    BY FanoutAssumption
  <2>3. Frames(p) = Len(Tail(o.held)) + Len(o.queue) + Len(Unwritten(o))
    BY <1>2, <1>5, <1>6 DEF Frames
  <2>4. (Len(Tail(o.held)) + 1) + Len(o.queue) + Len(Unwritten(o)) <= FrameLimit
    BY <2>1 DEF OutboxOk, Frames
  <2>5. Len(Tail(o.held)) + Len(o.queue) + Len(Unwritten(o)) <= FrameLimit
    BY <2>1, <2>2, <2>4
  <2> QED BY <2>3, <2>5, Zenon
<1>9. p.bytes <= ByteLimit
  <2>1. o.bytes \in Nat /\ o.bytes <= ByteLimit /\ Bytes(Head(o.held)) \in Nat
    BY Heads DEF OutboxOk, Outbox
  <2> QED BY <1>2, <1>5, <2>1, FanoutAssumption
<1>10. OutboxOk(p)
  BY <1>5, <1>7, <1>8, <1>9 DEF OutboxOk
<1> QED BY <1>2, <1>3, <1>4, <1>5, <1>10

\* An outbox with other held frames, another queue and another charge.
Shifted(o, h, q, b) == [o EXCEPT !.held = h, !.queue = q, !.bytes = b]

ShiftOf(o, h, q, b, p) ==
  /\ p \in Outbox /\ p.held = h /\ p.queue = q /\ p.bytes = b
  /\ p.sending = o.sending /\ p.blocked = o.blocked

\* The fields of an outbox with other held events and another queue.
LEMMA Shifts ==
  ASSUME NEW o \in Outbox, NEW h \in Seq(Event), NEW q \in Seq(Frame), NEW b \in Nat
  PROVE  ShiftOf(o, h, q, b, Shifted(o, h, q, b))
  BY DEF Shifted, Outbox, ShiftOf

\* The oldest held event goes into the queue: k more frames, n more bytes.
LEMMA ShiftedOk ==
  ASSUME NEW o, OutboxOk(o), o.held # <<>>, NEW q \in Seq(Frame), NEW n \in Nat, NEW k \in {0, 1},
         Total(q) = Total(o.queue) + n, Len(q) = Len(o.queue) + k,
         n <= Bytes(Head(o.held))
  PROVE  /\ o.bytes - Bytes(Head(o.held)) + n \in Nat
         /\ OutboxOk(Shifted(o, Tail(o.held), q, o.bytes - Bytes(Head(o.held)) + n))
<1>1. o \in Outbox /\ o.bytes \in Nat /\ o.bytes <= ByteLimit
  BY DEF OutboxOk, Outbox
<1>2. PICK h \in Seq(Event), x \in Nat, y \in Nat, z \in Nat, t \in Nat :
        /\ h = Tail(o.held) /\ x = Bytes(Head(o.held)) /\ y = Total(Tail(o.held))
        /\ z = Total(o.queue) /\ t = Total(Unwritten(o))
  BY <1>1, Heads, OutboxParts, Zenon
<1>3. o.bytes - x \in Nat /\ o.bytes - x = y + z + t
  BY <1>2, Heads
<1>4. PICK b \in Nat : b = o.bytes - x + n /\ b = y + (z + n) + t
  BY <1>3
<1>5. b <= ByteLimit
  <2>1. n <= x
    BY <1>2
  <2> HIDE <1>2
  <2> QED BY <1>1, <1>4, <2>1, FanoutAssumption
<1>6. PICK p : p = Shifted(o, h, q, b)
  OBVIOUS
<1>7. /\ p \in Outbox /\ p.held = h /\ p.queue = q /\ p.sending = o.sending /\ p.bytes = b
  BY <1>1, <1>6, Shifts DEF ShiftOf
<1>8. Unwritten(p) = Unwritten(o)
  BY <1>7 DEF Unwritten
<1>9. p.bytes = Total(p.held) + Total(p.queue) + Total(Unwritten(p))
  BY <1>2, <1>4, <1>7, <1>8, Zenon
<1>10. Frames(p) <= FrameLimit
  <2>1. PICK i \in Nat, j \in Nat, l \in Nat :
          i = Len(Tail(o.held)) /\ j = Len(o.queue) /\ l = Len(Unwritten(o))
    BY <1>1, Heads, OutboxParts, Zenon
  <2>2. Len(o.held) = i + 1 /\ (i + 1) + j + l <= FrameLimit
    BY <2>1, Heads DEF OutboxOk, Frames
  <2>3. Frames(p) = i + (j + k) + l
    BY <1>2, <1>7, <1>8, <2>1 DEF Frames
  <2>4. i + (j + k) + l <= FrameLimit
    <3>1. FrameLimit \in Nat
      BY FanoutAssumption
    <3> QED BY <2>2, <3>1, Slack, Zenon
  <2> QED BY <2>3, <2>4, Zenon
<1>11. OutboxOk(p)
  BY <1>5, <1>7, <1>9, <1>10 DEF OutboxOk
<1> QED BY <1>2, <1>4, <1>6, <1>11

\* The branches of the publication of a held event.
LEMMA PublishHeldCases ==
  ASSUME NEW o \in Outbox, o.held # <<>>
  PROVE  \/ PublishHeld(o) = Overflowed
         \/ /\ Mergeable(o, Head(o.held))
            /\ PublishHeld(o) = Shifted(o, Tail(o.held), Extended(o, Head(o.held)).queue,
                                        o.bytes - Bytes(Head(o.held)) + Head(o.held).len)
         \/ /\ ~Mergeable(o, Head(o.held))
            /\ PublishHeld(o) = Schedule(Shifted(o, Tail(o.held), Append(o.queue, Head(o.held)), o.bytes))
<1> DEFINE e == Head(o.held)
<1>1. [o EXCEPT !.held = Tail(@), !.queue = Append(@, e)]
        = Shifted(o, Tail(o.held), Append(o.queue, e), o.bytes)
  BY DEF Shifted, Outbox
<1>2. [Extended(Release(o), e) EXCEPT !.bytes = @ + e.len]
        = Shifted(o, Tail(o.held), Extended(o, e).queue, o.bytes - Bytes(e) + e.len)
  BY DEF Extended, Release, Shifted, Outbox
<1> QED BY <1>1, <1>2 DEF PublishHeld

\* An event published behind the snapshot joins the queue, and its charge
\* with it.
LEMMA Publishes ==
  ASSUME NEW o, OutboxOk(o), o.held # <<>>, PublishHeld(o) # Overflowed
  PROVE  /\ OutboxOk(PublishHeld(o)) /\ PublishHeld(o).held = Tail(o.held)
         /\ Joined(o.queue, Head(o.held), PublishHeld(o).queue)
         /\ PublishHeld(o).sending = o.sending /\ PublishHeld(o).blocked = o.blocked
<1>1. o \in Outbox /\ o.queue \in Seq(Frame) /\ o.bytes \in Nat
  BY DEF OutboxOk, Outbox
<1>2. PICK e : e = Head(o.held)
  OBVIOUS
<1>3. e \in Event /\ e \in Frame /\ Bytes(e) \in Nat \ {0}
  BY <1>2, Heads, EventsAreFrames
<1>4. Tail(o.held) \in Seq(Event)
  BY Heads
<1>5. CASE /\ Mergeable(o, e)
           /\ PublishHeld(o) = Shifted(o, Tail(o.held), Extended(o, e).queue, o.bytes - Bytes(e) + e.len)
  <2>1. e \in TextEvent /\ Merged(o, e, Extended(o, e)) /\ Joined(o.queue, e, Extended(o, e).queue)
    BY <1>1, <1>3, <1>5, Extends, ExtendJoins
  <2>2. PICK q \in Seq(Frame) : q = Extended(o, e).queue
    BY <2>1 DEF Merged
  <2>3. PICK n \in Nat : n = e.len
    BY <2>1 DEF TextEvent
  <2>4. Total(q) = Total(o.queue) + n /\ Len(q) = Len(o.queue)
    BY <2>1, <2>2, <2>3 DEF Merged
  <2>5. n <= Bytes(e)
    BY <2>1, <2>3, FrameBytes
  <2>6. Len(q) = Len(o.queue) + 0 /\ 0 \in {0, 1}
    BY <1>1, <2>4
  <2>7. /\ o.bytes - Bytes(e) + n \in Nat
        /\ OutboxOk(Shifted(o, Tail(o.held), q, o.bytes - Bytes(e) + n))
    BY <1>2, <2>4, <2>5, <2>6, ShiftedOk
  <2>8. PublishHeld(o) = Shifted(o, Tail(o.held), q, o.bytes - Bytes(e) + n)
    BY <1>5, <2>2, <2>3
  <2>9. ShiftOf(o, Tail(o.held), q, o.bytes - Bytes(e) + n, PublishHeld(o))
    BY <1>1, <1>4, <2>7, <2>8, Shifts
  <2> HIDE <1>5
  <2> QED BY <1>2, <2>1, <2>2, <2>7, <2>8, <2>9 DEF ShiftOf
<1>6. CASE /\ ~Mergeable(o, e)
           /\ PublishHeld(o) = Schedule(Shifted(o, Tail(o.held), Append(o.queue, e), o.bytes))
  <2>1. PICK q \in Seq(Frame) : q = Append(o.queue, e)
    BY <1>1, <1>3, TotalAppend
  <2>2. Total(q) = Total(o.queue) + Bytes(e) /\ Len(q) = Len(o.queue) + 1 /\ 1 \in {0, 1}
    BY <1>1, <1>3, <2>1, TotalAppend
  <2>3. Bytes(e) <= Bytes(e) /\ Bytes(e) \in Nat /\ o.bytes - Bytes(e) + Bytes(e) = o.bytes
    BY <1>1, <1>3
  <2>4. OutboxOk(Shifted(o, Tail(o.held), q, o.bytes))
    BY <1>2, <2>2, <2>3, ShiftedOk
  <2>5. PICK p : p = Shifted(o, Tail(o.held), q, o.bytes)
    OBVIOUS
  <2>6. ShiftOf(o, Tail(o.held), q, o.bytes, p)
    BY <1>1, <1>4, <2>5, Shifts
  <2>7. OutboxOk(Schedule(p)) /\ PublishHeld(o) = Schedule(p)
    BY <1>6, <2>1, <2>4, <2>5, ScheduleOk
  <2>8. Joined(o.queue, e, q)
    BY <2>1 DEF Joined
  <2> HIDE <1>6
  <2> QED BY <1>2, <2>6, <2>7, <2>8, Schedules DEF ShiftOf
<1> QED BY <1>1, <1>2, <1>5, <1>6, PublishHeldCases

\* What is queued becomes one write.
Flushed(o, accepted) ==
  [o EXCEPT !.scheduled = FALSE, !.queue = <<>>, !.sending = Append(@, o.queue), !.blocked = ~accepted]

Resent(o, q, ss, blocked) ==
  [o EXCEPT !.scheduled = FALSE, !.queue = q, !.sending = ss, !.blocked = blocked]

ResentOf(o, q, ss, p) ==
  /\ p \in Outbox /\ p.held = o.held /\ p.queue = q /\ p.sending = ss /\ p.bytes = o.bytes

\* The fields of an outbox whose queue was written.
LEMMA Resends ==
  ASSUME NEW o \in Outbox, NEW q \in Seq(Frame), NEW ss \in Seq(Seq(Frame)), NEW b \in BOOLEAN
  PROVE  ResentOf(o, q, ss, Resent(o, q, ss, b))
  BY DEF Resent, Outbox, ResentOf

\* flush(): the queue is under way and still counted (fanout.ts:186-203).
LEMMA Flushes ==
  ASSUME NEW o, OutboxOk(o), NEW accepted \in BOOLEAN
  PROVE  OutboxOk(Flushed(o, accepted)) /\ Flushed(o, accepted).held = o.held
         /\ Flushed(o, accepted).queue = <<>>
<1>1. o \in Outbox /\ o.queue \in Seq(Frame) /\ o.sending \in Seq(Seq(Frame))
  BY DEF OutboxOk, Outbox
<1>2. PICK p : p = Flushed(o, accepted)
  OBVIOUS
<1>3. PICK q \in Seq(Frame), ss \in Seq(Seq(Frame)) : q = o.queue /\ ss = o.sending
  BY <1>1
<1>4. Append(ss, q) = ss \o <<q>> /\ <<q>> \in Seq(Seq(Frame)) /\ Append(ss, q) \in Seq(Seq(Frame))
  OBVIOUS
<1>5. PICK tt \in Seq(Seq(Frame)) : tt = Append(ss, q)
  BY <1>4
<1>6. Flushed(o, accepted) = Resent(o, <<>>, tt, ~accepted)
  BY <1>1, <1>3, <1>5 DEF Flushed, Resent, Outbox
<1>7. <<>> \in Seq(Frame) /\ (~accepted) \in BOOLEAN
  <2>1. <<>> \in Seq(Frame)
    OBVIOUS
  <2>2. accepted = TRUE \/ accepted = FALSE
    OBVIOUS
  <2>3. (~accepted) \in BOOLEAN
    BY <2>2
  <2> QED BY <2>1, <2>3
<1>8. ResentOf(o, <<>>, tt, p)
  BY <1>1, <1>2, <1>6, <1>7, Resends
<1>9. p \in Outbox /\ p.held = o.held /\ p.queue = <<>> /\ p.bytes = o.bytes
  BY <1>8 DEF ResentOf
<1>10. p.sending = Append(ss, q)
  BY <1>5, <1>8 DEF ResentOf
<1>11. Unwritten(p) = Unwritten(o) \o q
  <2>1. FlattenSeq(ss \o <<q>>) = FlattenSeq(ss) \o FlattenSeq(<<q>>) /\ FlattenSeq(<<q>>) = q
    BY <1>4, Flattens
  <2> QED BY <1>3, <1>4, <1>10, <2>1 DEF Unwritten
<1>12. PICK w \in Seq(Frame) : w = Unwritten(o)
  BY <1>1, OutboxParts
<1>13. Total(w \o q) = Total(w) + Total(q) /\ Len(w \o q) = Len(w) + Len(q)
  BY TotalJoin
<1>14. PICK x \in Nat, y \in Nat, z \in Nat : x = Total(o.held) /\ y = Total(q) /\ z = Total(w)
  BY <1>1, <1>3, <1>12, OutboxParts
<1>15. p.bytes = Total(p.held) + Total(p.queue) + Total(Unwritten(p))
  <2>1. o.bytes = x + y + z
    BY <1>3, <1>12, <1>14 DEF OutboxOk
  <2>2. x + y + z = x + 0 + (z + y)
    OBVIOUS
  <2>3. Total(p.held) = x /\ Total(p.queue) = 0 /\ Total(Unwritten(p)) = z + y
    BY <1>9, <1>11, <1>12, <1>13, <1>14, TotalNone
  <2> QED BY <1>9, <2>1, <2>2, <2>3, Zenon
<1>16. Frames(p) <= FrameLimit
  <2>1. PICK i \in Nat, j \in Nat, l \in Nat : i = Len(o.held) /\ j = Len(q) /\ l = Len(w)
    BY <1>1, <1>3, <1>12, OutboxParts
  <2>2. i + j + l <= FrameLimit
    BY <1>3, <1>12, <2>1 DEF OutboxOk, Frames
  <2>3. Len(p.held) = i /\ Len(p.queue) = 0 /\ Len(Unwritten(p)) = l + j
    BY <1>9, <1>11, <1>12, <1>13, <2>1
  <2>4. i + 0 + (l + j) = i + j + l
    OBVIOUS
  <2>5. Frames(p) = i + j + l
    BY <2>3, <2>4, Zenon DEF Frames
  <2> QED BY <2>2, <2>5, Zenon
<1>17. OutboxOk(p)
  BY <1>9, <1>15, <1>16 DEF OutboxOk
<1> QED BY <1>2, <1>9, <1>17

\* The callback of the oldest write gives its charge back.
Reported(o) == [o EXCEPT !.sending = Tail(@), !.bytes = @ - Total(Head(o.sending))]

\* The callback of the oldest write takes its bytes (fanout.ts:196-199).
LEMMA Reports ==
  ASSUME NEW o, OutboxOk(o), o.sending # <<>>
  PROVE  OutboxOk(Reported(o)) /\ Reported(o).held = o.held /\ Reported(o).queue = o.queue
<1>1. o \in Outbox /\ o.sending \in Seq(Seq(Frame))
  BY DEF OutboxOk, Outbox
<1>2. PICK ss \in Seq(Seq(Frame)), h \in Seq(Frame), t \in Seq(Seq(Frame)) :
        ss = o.sending /\ h = Head(ss) /\ t = Tail(ss)
  <2>1. o.sending \in Seq(Seq(Frame)) /\ o.sending # <<>>
    BY <1>1
  <2>2. Head(o.sending) \in Seq(Frame) /\ Tail(o.sending) \in Seq(Seq(Frame))
    BY <2>1, Starts
  <2> QED BY <2>1, <2>2
<1>3. ss = <<h>> \o t /\ <<h>> \in Seq(Seq(Frame))
  <2>1. ss = <<Head(ss)>> \o Tail(ss)
    BY <1>2, Starts
  <2> QED BY <1>2, <2>1
<1>4. FlattenSeq(ss) = h \o FlattenSeq(t)
  BY <1>3, Flattens
<1>5. PICK w \in Seq(Frame) : w = FlattenSeq(t)
  BY Flattens
<1>6. Unwritten(o) = h \o w /\ Total(h \o w) = Total(h) + Total(w) /\ Len(h \o w) = Len(h) + Len(w)
  <2>1. Unwritten(o) = h \o w
    BY <1>2, <1>4, <1>5, Zenon DEF Unwritten
  <2>2. Total(h \o w) = Total(h) + Total(w)
    BY TotalJoin
  <2>3. Len(h \o w) = Len(h) + Len(w)
    OBVIOUS
  <2> QED BY <2>1, <2>2, <2>3
<1>7. PICK x \in Nat, y \in Nat, z \in Nat, n \in Nat :
        x = Total(o.held) /\ y = Total(o.queue) /\ z = Total(w) /\ n = Total(h)
  BY <1>1, OutboxParts, TotalNat
<1>8. o.bytes = x + y + (n + z) /\ x + y + (n + z) <= ByteLimit
  BY <1>6, <1>7 DEF OutboxOk
<1>9. PICK b \in Nat : b = o.bytes - n /\ b = x + y + z /\ b <= ByteLimit
  <2>1. x + y + z = (x + y + (n + z)) - n /\ x + y + z \in Nat /\ x + y + z <= ByteLimit
    <3> HIDE <1>6, <1>7
    <3> QED BY <1>8, FanoutAssumption
  <2> QED BY <1>8, <2>1, Zenon
<1>10. PICK p : p = Reported(o)
  OBVIOUS
<1>11. Reported(o) = [o EXCEPT !.sending = t, !.bytes = b]
  BY <1>1, <1>2, <1>7, <1>9 DEF Reported, Outbox
<1>12. /\ p \in Outbox /\ p.held = o.held /\ p.queue = o.queue /\ p.bytes = b /\ p.sending = t
  BY <1>1, <1>10, <1>11 DEF Outbox
<1>13. p.bytes = Total(p.held) + Total(p.queue) + Total(Unwritten(p))
  BY <1>5, <1>7, <1>9, <1>12 DEF Unwritten
<1>14. Frames(p) <= FrameLimit
  <2>1. PICK i \in Nat, j \in Nat, l \in Nat, k \in Nat :
          i = Len(o.held) /\ j = Len(o.queue) /\ l = Len(w) /\ k = Len(h)
    <3>1. Len(w) \in Nat /\ Len(h) \in Nat
      OBVIOUS
    <3>2. Len(o.held) \in Nat /\ Len(o.queue) \in Nat
      BY <1>1, OutboxParts
    <3> QED BY <3>1, <3>2
  <2>2. i + j + (k + l) <= FrameLimit
    BY <1>6, <2>1 DEF OutboxOk, Frames
  <2>3. Frames(p) = i + j + l
    BY <1>5, <1>12, <2>1 DEF Frames, Unwritten
  <2>4. i + j + l <= FrameLimit
    <3> HIDE <2>1, <1>6
    <3> QED BY <2>2, FanoutAssumption
  <2> QED BY <2>3, <2>4, Zenon
<1>15. OutboxOk(p)
  BY <1>9, <1>12, <1>13, <1>14 DEF OutboxOk
<1> QED BY <1>10, <1>12, <1>15

\* The socket takes frames again.
LEMMA Drains ==
  ASSUME NEW o, OutboxOk(o)
  PROVE  OutboxOk(Drained(o)) /\ Drained(o).held = o.held /\ Drained(o).queue = o.queue
<1>1. o \in Outbox
  BY DEF OutboxOk
<1>2. PICK p : p = [o EXCEPT !.blocked = FALSE]
  OBVIOUS
<1>3. p \in Outbox /\ p.held = o.held /\ p.queue = o.queue /\ p.sending = o.sending /\ p.bytes = o.bytes
  BY <1>1, <1>2 DEF Outbox
<1>4. OutboxOk(p)
  BY <1>3 DEF OutboxOk, Frames, Unwritten
<1> QED BY <1>2, <1>3, <1>4, ScheduleOk, Schedules DEF Drained

\* The cutover: what is left is always what is still to be cut over, unless
\* it stopped at a gap or at a limit.
Cut == [out : Outbox \cup {Overflowed}, rev : Nat, started : SUBSET Nat, gap : BOOLEAN]
CutAt(o, r, s, g) == [out |-> o, rev |-> r, started |-> s, gap |-> g]
Stopped(d) == d.gap \/ d.out = Overflowed
CutOk(d, h, R) ==
  /\ d \in Cut /\ d.rev <= R
  /\ Stopped(d) \/ (OutboxOk(d.out) /\ d.out.held = h /\ d.out \in Outbox /\ d.gap = FALSE)

CutIs(o, r, s, g, d) == d \in Cut /\ d.out = o /\ d.rev = r /\ d.started = s /\ d.gap = g

\* The fields of a step of the cutover.
LEMMA CutTypes ==
  ASSUME NEW o \in Outbox \cup {Overflowed}, NEW r \in Nat, NEW s \in SUBSET Nat, NEW g \in BOOLEAN
  PROVE  CutIs(o, r, s, g, CutAt(o, r, s, g))
  BY DEF CutAt, Cut, CutIs

Gapped(d) == [d EXCEPT !.gap = TRUE]
Took(d, o, r, s) == [d EXCEPT !.out = o, !.rev = r, !.started = s]

\* The fields of the two ways it goes on.
LEMMA CutSteps ==
  ASSUME NEW d \in Cut, NEW o \in Outbox \cup {Overflowed}, NEW r \in Nat, NEW s \in SUBSET Nat
  PROVE  /\ CutIs(d.out, d.rev, d.started, TRUE, Gapped(d))
         /\ CutIs(o, r, s, d.gap, Took(d, o, r, s))
<1>1. CutIs(d.out, d.rev, d.started, TRUE, Gapped(d))
  BY DEF Cut, CutIs, Gapped
<1>2. CutIs(o, r, s, d.gap, Took(d, o, r, s))
  BY DEF Cut, CutIs, Took
<1> QED BY <1>1, <1>2

\* What the cutover does with an event, and what is then its revision and
\* the messages it started.
TookRev(d, e) == IF e.kind = "rev" THEN e.rev ELSE d.rev
TookText(d, e) == IF e.kind = "text" THEN d.started \cup {e.msg} ELSE d.started

\* One event of the cutover: it has stopped, stops, passes over the event or
\* publishes it.
LEMMA CutOverCases ==
  ASSUME NEW d \in Cut, NEW e
  PROVE  \/ Stopped(d) /\ CutOver(d, e) = d
         \/ ~Stopped(d) /\ Verdict(d, e) = "gap" /\ CutOver(d, e) = Gapped(d)
         \/ /\ ~Stopped(d) /\ Verdict(d, e) \in {"duplicate", "ignore"}
            /\ CutOver(d, e) = Took(d, Release(d.out), d.rev, d.started)
         \/ /\ ~Stopped(d) /\ Verdict(d, e) \notin {"gap", "duplicate", "ignore"}
            /\ CutOver(d, e) = Took(d, PublishHeld(d.out), TookRev(d, e), TookText(d, e))
<1>1. Stopped(d) => CutOver(d, e) = d
  BY DEF CutOver, Stopped
<1>2. ~Stopped(d) /\ Verdict(d, e) = "gap" => CutOver(d, e) = Gapped(d)
  BY DEF CutOver, Stopped, Gapped
<1>3. ~Stopped(d) /\ Verdict(d, e) \in {"duplicate", "ignore"}
        => CutOver(d, e) = Took(d, Release(d.out), d.rev, d.started)
  <2>1. [d EXCEPT !.out = Release(@)] = Took(d, Release(d.out), d.rev, d.started)
    BY DEF Cut, Took
  <2> QED BY <2>1 DEF CutOver, Stopped
<1>4. ~Stopped(d) /\ Verdict(d, e) \notin {"gap", "duplicate", "ignore"}
        => CutOver(d, e) = Took(d, PublishHeld(d.out), TookRev(d, e), TookText(d, e))
  BY DEF CutOver, Stopped, Took, TookRev, TookText
<1> QED BY <1>1, <1>2, <1>3, <1>4

\* One event of the cutover keeps the outbox in order and the rest held.
LEMMA CutsOver ==
  ASSUME NEW R \in Nat, NEW d, NEW h \in Seq(Event), h # <<>>, CutOk(d, h, R),
         Head(h).kind = "rev" => Head(h).rev <= R
  PROVE  CutOk(CutOver(d, Head(h)), Tail(h), R)
<1>1. PICK e \in Event : e = Head(h)
  BY Starts
<1>2. PICK p : p = CutOver(d, e)
  OBVIOUS
<1>3. d \in Cut /\ d.rev \in Nat /\ d.rev <= R /\ d.started \in SUBSET Nat /\ d.gap \in BOOLEAN
      /\ d.out \in Outbox \cup {Overflowed}
  BY DEF CutOk, Cut
<1>4. CASE Stopped(d) /\ p = d
  BY <1>1, <1>2, <1>4 DEF CutOk
<1>5. CASE ~Stopped(d) /\ p = Gapped(d)
  <2>1. CutIs(d.out, d.rev, d.started, TRUE, p)
    BY <1>3, <1>5, CutSteps
  <2> QED BY <1>1, <1>2, <1>3, <2>1 DEF CutOk, Stopped, CutIs
<1>6. ~Stopped(d) => OutboxOk(d.out) /\ d.out.held = h /\ d.out \in Outbox /\ d.gap = FALSE
  BY DEF CutOk
<1>7. CASE ~Stopped(d) /\ p = Took(d, Release(d.out), d.rev, d.started)
  <2>1. OutboxOk(Release(d.out)) /\ Release(d.out).held = Tail(h)
    BY <1>6, <1>7, Releases
  <2>2. Release(d.out) \in Outbox
    BY <2>1 DEF OutboxOk
  <2>3. CutIs(Release(d.out), d.rev, d.started, d.gap, p)
    BY <1>3, <1>7, <2>2, CutSteps
  <2> QED BY <1>1, <1>2, <1>3, <1>6, <1>7, <2>1, <2>2, <2>3 DEF CutOk, CutIs
<1>8. CASE ~Stopped(d) /\ p = Took(d, PublishHeld(d.out), TookRev(d, e), TookText(d, e))
  <2>1. PICK r \in Nat, s \in SUBSET Nat : r = TookRev(d, e) /\ s = TookText(d, e) /\ r <= R
    <3>1. TookRev(d, e) \in Nat /\ TookRev(d, e) <= R
      BY <1>1, <1>3 DEF Event, RevEvent, TextEvent, TookRev
    <3>2. TookText(d, e) \in SUBSET Nat
      BY <1>1, <1>3 DEF Event, RevEvent, TextEvent, TookText
    <3> QED BY <3>1, <3>2
  <2>2. p = Took(d, PublishHeld(d.out), r, s)
    BY <1>8, <2>1
  <2>3. CASE PublishHeld(d.out) = Overflowed
    <3>1. Overflowed \in Outbox \cup {Overflowed} /\ p = Took(d, Overflowed, r, s)
      BY <2>2, <2>3
    <3>2. CutIs(Overflowed, r, s, d.gap, p)
      BY <1>3, <3>1, CutSteps
    <3> QED BY <1>1, <1>2, <2>1, <3>2 DEF CutOk, Stopped, CutIs
  <2>4. CASE PublishHeld(d.out) # Overflowed
    <3>1. OutboxOk(PublishHeld(d.out)) /\ PublishHeld(d.out).held = Tail(h)
      BY <1>6, <1>8, <2>4, Publishes
    <3>2. PublishHeld(d.out) \in Outbox
      BY <3>1 DEF OutboxOk
    <3>3. CutIs(PublishHeld(d.out), r, s, d.gap, p)
      BY <1>3, <2>2, <3>2, CutSteps
    <3> QED BY <1>1, <1>2, <1>6, <1>8, <2>1, <3>1, <3>2, <3>3 DEF CutOk, CutIs
  <2> QED BY <2>3, <2>4
<1> QED BY <1>2, <1>3, <1>4, <1>5, <1>7, <1>8, CutOverCases

\* The whole cutover does: after each event, the events behind it are still held.
LEMMA CutOvers ==
  ASSUME NEW R \in Nat, NEW r \in Nat, r <= R, NEW o, OutboxOk(o),
         \A i \in DOMAIN o.held : o.held[i].kind = "rev" => o.held[i].rev <= R
  PROVE  \E v : /\ CutRun(CutAt(o, r, {}, FALSE), o.held, v)
                /\ FoldLeft(CutOver, CutAt(o, r, {}, FALSE), o.held) = v[Len(o.held)]
                /\ \A i \in 0 .. Len(o.held) : CutOk(v[i], SubSeq(o.held, i + 1, Len(o.held)), R)
<1>1. PICK h \in Seq(Event) : h = o.held
  BY DEF OutboxOk, Outbox
<1>2. PICK n \in Nat : n = Len(h)
  OBVIOUS
<1>3. PICK v : CutRun(CutAt(o, r, {}, FALSE), h, v) /\ FoldLeft(CutOver, CutAt(o, r, {}, FALSE), h) = v[n]
  BY <1>2, CutOverFold
<1> DEFINE Rest(i) == SubSeq(h, i + 1, n)
           Good == {m \in Nat : m <= n => CutOk(v[m], Rest(m), R)}
<1>4. 0 \in Good
  <2>1. Rest(0) = h
    BY <1>2
  <2>2. v[0] = CutAt(o, r, {}, FALSE) /\ o \in Outbox
    BY <1>3 DEF CutRun, OutboxOk
  <2>3. v[0] \in Cut /\ v[0].rev = r /\ v[0].out = o /\ v[0].gap = FALSE
    <3>1. CutIs(o, r, {}, FALSE, v[0])
      BY <2>2, CutTypes
    <3> QED BY <3>1 DEF CutIs
  <2>4. CutOk(v[0], h, R)
    BY <1>1, <2>2, <2>3 DEF CutOk
  <2> QED BY <2>1, <2>4
<1>5. ASSUME NEW m \in Nat, m \in Good
      PROVE  m + 1 \in Good
  <2>1. SUFFICES ASSUME m + 1 <= n
                 PROVE  CutOk(v[m + 1], Rest(m + 1), R)
    OBVIOUS
  <2>2. PICK t \in Seq(Event) : t = Rest(m)
    BY <1>2, <2>1, Rests
  <2>3. t # <<>> /\ Head(t) = h[m + 1] /\ Tail(t) = Rest(m + 1) /\ m + 1 \in 1 .. n
    BY <1>2, <2>1, <2>2, Rests
  <2>4. v[m + 1] = CutOver(v[m], h[m + 1])
    <3>1. (m + 1) - 1 = m
      OBVIOUS
    <3> QED BY <1>2, <1>3, <2>3, <3>1 DEF CutRun
  <2>5. CutOk(v[m], t, R)
    BY <1>5, <2>1, <2>2
  <2>6. Head(t).kind = "rev" => Head(t).rev <= R
    BY <1>1, <1>2, <2>3
  <2>7. CutOk(CutOver(v[m], Head(t)), Tail(t), R)
    BY <2>3, <2>5, <2>6, CutsOver
  <2> QED BY <2>3, <2>4, <2>7, Zenon
<1>6. Nat \subseteq Good
  <2> HIDE DEF Good
  <2> QED BY <1>4, <1>5, NatSet
<1>7. \A i \in 0 .. n : CutOk(v[i], SubSeq(h, i + 1, n), R)
  BY <1>6
<1> QED BY <1>1, <1>2, <1>3, <1>7, Zenon

-----------------------------------------------------------------------------
(* The type invariant, in the parts the actions touch.                     *)
Signal == Event \cup [kind : {"invalidate"}]
Publication == [event : Signal, seen : SUBSET Client]
Modes == {"closed", "open", "held", "captured", "live"}
Shown == [rev : Nat \cup {-1}, done : Nat, off : Nat, lost : BOOLEAN]
Viewer == [view : Shown, status : {"none", "awaiting", "live"}, kept : Seq(Event)]

\* Nothing is published, held or acknowledged ahead of the session.
StackOk(st, R) ==
  st \in Seq(Publication) /\ \A i \in DOMAIN st : st[i].event.kind = "rev" => st[i].event.rev <= R
HeldOk(o, R) == \A i \in DOMAIN o.held : o.held[i].kind = "rev" => o.held[i].rev <= R

LogOk == log \in Seq(State) /\ log # <<>>
SessionOk == LogOk /\ strict \in BOOLEAN /\ StackOk(stack, Source.rev)
OrderOk == order \in Seq(Client) /\ IsInjective(order) /\ ToSet(order) = Bound
ConnectionOk(c) ==
  /\ at[c] <= Source.rev /\ OutboxOk(out[c]) /\ HeldOk(out[c], Source.rev)
  /\ mode[c] = "closed" => out[c] = Empty
ConnectionsOk ==
  /\ mode \in [Client -> Modes] /\ at \in [Client -> Nat] /\ out \in [Client -> Outbox]
  /\ \A c \in Client : ConnectionOk(c)
ClientsOk ==
  /\ wire \in [Client -> Seq(Frame)] /\ client \in [Client -> Viewer]
  /\ tries \in [Client -> 0 .. MaxAttach]
TypeInv == SessionOk /\ OrderOk /\ ConnectionsOk /\ ClientsOk /\ attaching \in Client \cup {NoClient}

\* The state of the session is a state.
LEMMA SourceOk == ASSUME LogOk PROVE Source \in State
  BY DEF LogOk, Source, Last

\* A change makes the next revision.
LEMMA Changing ==
  ASSUME NEW s \in State, NEW change \in Changes
  PROVE  /\ Changed(s, change) \in State /\ Changed(s, change).rev = s.rev + 1
         /\ Rev(s, change) \in RevEvent
<1>1. s.rev \in Nat /\ s.done \in Nat /\ s.off \in Nat /\ (s.lost = TRUE \/ s.lost = FALSE)
  BY DEF State
<1>2. PICK r \in Nat, d \in Nat, o \in Nat :
        /\ r = s.rev + 1 /\ d = (IF change = "completed" THEN s.done + 1 ELSE s.done)
        /\ o = (IF change \in {"completed", "lost"} THEN 0 ELSE s.off)
  BY <1>1
<1>3. PICK l \in BOOLEAN : l = (IF change = "completed" THEN FALSE ELSE s.lost \/ change = "lost")
  <2>1. (s.lost \/ change = "lost") = TRUE \/ (s.lost \/ change = "lost") = FALSE
    BY Zenon
  <2> QED BY <2>1
<1>4. Changed(s, change) = [rev |-> r, done |-> d, off |-> o, lost |-> l]
  BY <1>2, <1>3, Zenon DEF Changed
<1>5. Changed(s, change) \in State /\ Changed(s, change).rev = r
  BY <1>4 DEF State
<1>6. Rev(s, change) \in RevEvent
  BY <1>1 DEF Rev, RevEvent, Changes
<1> QED BY <1>2, <1>5, <1>6

\* A delta lengthens the stream.
Longer(s, n) == [s EXCEPT !.off = @ + n]

\* A delta makes the stream longer.
LEMMA Lengthens ==
  ASSUME NEW s \in State, NEW n \in Nat \ {0}
  PROVE  /\ Longer(s, n) \in State /\ Longer(s, n).rev = s.rev /\ Longer(s, n).done = s.done
         /\ Longer(s, n).lost = s.lost /\ Longer(s, n).off = s.off + n
         /\ Text(s, n) \in TextEvent
<1>1. /\ Longer(s, n) \in State /\ Longer(s, n).rev = s.rev /\ Longer(s, n).done = s.done
      /\ Longer(s, n).lost = s.lost /\ Longer(s, n).off = s.off + n
  BY DEF Longer, State
<1>2. Text(s, n) \in TextEvent
  BY DEF Text, TextEvent, State
<1> QED BY <1>1, <1>2

\* What a step of the session leaves: a log that only grows in revision.
Advanced == SessionOk' /\ Source.rev <= Source'.rev

\* The publication of a state.
LEMMA Publishing ==
  ASSUME LogOk, NEW e \in Signal, NEW s \in State, NEW st, StackOk(st, Source.rev),
         Source.rev <= s.rev, e.kind = "rev" => e.rev <= s.rev, Publish(e, s, st)
  PROVE  LogOk' /\ Source' = s /\ StackOk(stack', s.rev)
<1>1. PICK x : x = [event |-> e, seen |-> {}]
  OBVIOUS
<1>2. x \in Publication /\ x.event = e
  BY <1>1 DEF Publication
<1>3. PICK l : l = log' /\ l = Append(log, s)
  BY DEF Publish
<1>4. l \in Seq(State) /\ l # <<>> /\ Last(l) = s
  BY <1>3 DEF LogOk, Last
<1>5. st \in Seq(Publication) /\ \A i \in DOMAIN st : st[i].event.kind = "rev" => st[i].event.rev <= Source.rev
  BY DEF StackOk
<1>6. PICK t : t = stack' /\ t = <<x>> \o st
  BY <1>1 DEF Publish
<1>7. /\ t \in Seq(Publication) /\ t[1] = x
      /\ \A i \in DOMAIN t : i = 1 \/ (i - 1 \in DOMAIN st /\ t[i] = st[i - 1])
  <2> HIDE <1>1
  <2> QED BY <1>2, <1>5, <1>6
<1>8. Source.rev \in Nat /\ s.rev \in Nat
  BY SourceOk DEF State
<1>9. ASSUME NEW i \in DOMAIN t, t[i].event.kind = "rev"
      PROVE  t[i].event.rev <= s.rev
  <2>1. CASE i = 1
    BY <1>2, <1>7, <1>9, <2>1
  <2>2. CASE i # 1
    <3>1. i - 1 \in DOMAIN st /\ t[i] = st[i - 1]
      BY <1>7, <2>2
    <3>2. t[i].event.rev <= Source.rev
      BY <1>5, <1>9, <3>1
    <3>3. st[i - 1] \in Publication /\ st[i - 1].event.kind = "rev"
      BY <1>5, <1>9, <3>1
    <3>4. t[i].event.rev \in Nat
      BY <3>1, <3>3 DEF Publication, Signal, Event, RevEvent, TextEvent
    <3> QED BY <1>8, <3>2, <3>4
  <2> QED BY <2>1, <2>2
<1>10. StackOk(t, s.rev)
  BY <1>7, <1>9 DEF StackOk
<1> QED BY <1>3, <1>4, <1>6, <1>10 DEF LogOk, Source

\* So does a change.
LEMMA PublishesChange ==
  ASSUME LogOk, NEW change \in Changes, NEW st, StackOk(st, Source.rev), PublishChange(change, st)
  PROVE  /\ LogOk' /\ StackOk(stack', Source'.rev) /\ Source.rev <= Source'.rev
         /\ Source' = Changed(Source, change)
<1>1. Source \in State /\ Source.rev \in Nat
  BY SourceOk DEF State
<1>2. PICK s \in State, e \in Signal :
        /\ s = Changed(Source, change) /\ e = Rev(s, change) /\ e.rev = s.rev /\ s.rev = Source.rev + 1
  <2>1. Changed(Source, change) \in State /\ Changed(Source, change).rev = Source.rev + 1
    BY <1>1, Changing
  <2>2. Rev(Changed(Source, change), change) \in Signal
        /\ Rev(Changed(Source, change), change).rev = Changed(Source, change).rev
    BY <2>1, Changing DEF Signal, Event, Rev
  <2> QED BY <2>1, <2>2
<1>3. Publish(e, s, st) /\ Source.rev <= s.rev /\ (e.kind = "rev" => e.rev <= s.rev)
  BY <1>1, <1>2 DEF PublishChange
<1>4. LogOk' /\ Source' = s /\ StackOk(stack', s.rev)
  BY <1>3, Publishing
<1> QED BY <1>2, <1>3, <1>4

\* The policy may be relaxed when an attachment goes.
LEMMA Relaxes ==
  ASSUME SessionOk, NEW c, NEW st, StackOk(st, Source.rev), Relax(c, st)
  PROVE  Advanced
<1>1. CASE strict' = FALSE /\ PublishChange("policy", st)
  <2>1. "policy" \in Changes /\ LogOk
    BY DEF Changes, SessionOk
  <2>2. LogOk' /\ StackOk(stack', Source'.rev) /\ Source.rev <= Source'.rev
    BY <1>1, <2>1, PublishesChange
  <2> QED BY <1>1, <2>2 DEF Advanced, SessionOk
<1>2. CASE stack' = st /\ UNCHANGED <<log, strict>>
  <2>1. Source.rev \in Nat /\ Source' = Source
    BY <1>2, SourceOk DEF SessionOk, State, Source
  <2> QED BY <1>2, <2>1 DEF Advanced, SessionOk, LogOk
<1> QED BY <1>1, <1>2 DEF Relax

\* A bound that holds for what a connection holds keeps holding.
LEMMA HeldStays ==
  ASSUME NEW R \in Nat, NEW S \in Nat, R <= S, NEW o \in Outbox, HeldOk(o, R)
  PROVE  HeldOk(o, S)
<1> SUFFICES ASSUME NEW i \in DOMAIN o.held, o.held[i].kind = "rev"
             PROVE  o.held[i].rev <= S
  BY DEF HeldOk
<1>1. o.held[i] \in Event
  <2>1. o.held \in Seq(Event)
    BY DEF Outbox
  <2> QED BY <2>1
<1>2. o.held[i].rev \in Nat /\ o.held[i].rev <= R
  BY <1>1 DEF HeldOk, Event, RevEvent, TextEvent
<1> QED BY <1>2

\* Nothing held is ahead of anything.
LEMMA EmptyHolds == \A R : HeldOk(Empty, R)
  BY DEF HeldOk, Empty

\* Nothing but a connection or two changes, while the session goes on.
LEMMA Connected ==
  ASSUME ConnectionsOk, NEW R \in Nat, NEW S \in Nat, R = Source.rev, S = Source'.rev, R <= S,
         mode' \in [Client -> Modes], at' \in [Client -> Nat], out' \in [Client -> Outbox],
         \A c \in Client : \/ at'[c] = at[c] /\ out'[c] = out[c] /\ mode'[c] = mode[c]
                           \/ ConnectionOk(c)'
  PROVE  ConnectionsOk'
<1> SUFFICES ASSUME NEW c \in Client, at'[c] = at[c] /\ out'[c] = out[c] /\ mode'[c] = mode[c]
             PROVE  ConnectionOk(c)'
  BY DEF ConnectionsOk
<1>1. ConnectionOk(c) /\ out[c] \in Outbox /\ at[c] \in Nat
  BY DEF ConnectionsOk
<1>2. HeldOk(out[c], S)
  BY <1>1, HeldStays DEF ConnectionOk
<1>3. at[c] <= S
  BY <1>1 DEF ConnectionOk
<1> QED BY <1>1, <1>2, <1>3 DEF ConnectionOk

\* A connection that closes, with its attachment.
LEMMA Closes ==
  ASSUME TypeInv, NEW c \in Client, NEW why, NEW st, StackOk(st, Source.rev), Close(c, why, st)
  PROVE  Advanced /\ OrderOk' /\ ConnectionsOk'
<1>1. SessionOk /\ ConnectionsOk /\ OrderOk
  BY DEF TypeInv
<1>2. Advanced
  <2>1. CASE Relax(c, st)
    BY <1>1, <2>1, Relaxes
  <2>2. CASE stack' = st /\ UNCHANGED <<log, strict>>
    <3>1. Source.rev \in Nat /\ Source' = Source
      BY <1>1, <2>2, SourceOk DEF SessionOk, State, Source
    <3> QED BY <1>1, <2>2, <3>1 DEF Advanced, SessionOk, LogOk
  <2> QED BY <2>1, <2>2 DEF Close
<1>3. PICK R \in Nat, S \in Nat : R = Source.rev /\ S = Source'.rev /\ R <= S
  <2>1. LogOk /\ LogOk' /\ Source.rev <= Source'.rev
    BY <1>1, <1>2 DEF Advanced, SessionOk
  <2>2. Source.rev \in Nat
    BY <2>1, SourceOk DEF State
  <2>3. Source'.rev \in Nat
    <3>1. PICK l : l = log'
      OBVIOUS
    <3>2. l \in Seq(State) /\ l # <<>>
      BY <2>1, <3>1 DEF LogOk
    <3>3. Last(l) \in State
      BY <3>2 DEF Last
    <3> QED BY <3>1, <3>3 DEF Source, State
  <2> QED BY <2>1, <2>2, <2>3
<1>4. /\ mode' = [mode EXCEPT ![c] = "closed"] /\ order' = Unsubscribed(c)
      /\ out' = [out EXCEPT ![c] = Empty] /\ at' = [at EXCEPT ![c] = 0]
  BY DEF Close
<1>5. ConnectionsOk'
  <2>1. mode' \in [Client -> Modes] /\ at' \in [Client -> Nat] /\ out' \in [Client -> Outbox]
    BY <1>1, <1>4, EmptyOk DEF ConnectionsOk, Modes, OutboxOk
  <2>2. mode'[c] = "closed" /\ at'[c] = 0 /\ out'[c] = Empty
    BY <1>1, <1>4 DEF ConnectionsOk
  <2>3. ConnectionOk(c)'
    BY <1>3, <2>2, EmptyOk, EmptyHolds DEF ConnectionOk
  <2>4. \A d \in Client : d # c => at'[d] = at[d] /\ out'[d] = out[d] /\ mode'[d] = mode[d]
    BY <1>1, <1>4 DEF ConnectionsOk
  <2> HIDE <1>4
  <2>5. \A d \in Client : \/ at'[d] = at[d] /\ out'[d] = out[d] /\ mode'[d] = mode[d]
                          \/ ConnectionOk(d)'
    BY <2>3, <2>4
  <2> QED BY <1>1, <1>3, <2>1, <2>5, Connected
<1>6. OrderOk'
  <2>1. PICK q : q = order' /\ q = RemoveFirst(order, c)
    BY <1>4 DEF Unsubscribed
  <2>2. q \in Seq(Client) /\ IsInjective(q) /\ ToSet(q) = Bound \ {c}
    BY <1>1, <2>1, Unsubscribes DEF OrderOk
  <2>3. Bound' = Bound \ {c}
    BY <1>1, <1>4 DEF Bound, ConnectionsOk
  <2> QED BY <2>1, <2>2, <2>3 DEF OrderOk
<1> QED BY <1>2, <1>5, <1>6

\* The outbox of a bound connection is stored, or the connection closes.
LEMMA Stores ==
  ASSUME TypeInv, NEW c \in Client, mode[c] # "closed", NEW o, NEW r \in Nat, r <= Source.rev,
         o = Overflowed \/ (OutboxOk(o) /\ HeldOk(o, Source.rev)),
         NEW st, StackOk(st, Source.rev), Store(c, o, r, st)
  PROVE  Advanced /\ OrderOk' /\ ConnectionsOk'
<1>1. CASE o = Overflowed
  <2>1. Close(c, "overflow", st)
    BY <1>1 DEF Store
  <2> QED BY <2>1, Closes
<1>2. CASE o # Overflowed
  <2>1. /\ out' = [out EXCEPT ![c] = o] /\ at' = [at EXCEPT ![c] = r] /\ stack' = st
        /\ UNCHANGED <<log, strict, order, mode, cause>>
    BY <1>2 DEF Store
  <2>2. SessionOk /\ ConnectionsOk /\ OrderOk
    BY DEF TypeInv
  <2>3. PICK R \in Nat : R = Source.rev /\ R = Source'.rev /\ R <= R
    BY <2>1, <2>2, SourceOk DEF SessionOk, State, Source
  <2>4. Advanced
    BY <2>1, <2>2, <2>3 DEF Advanced, SessionOk, LogOk
  <2>5. OrderOk'
    BY <2>1, <2>2 DEF OrderOk, Bound
  <2>6. o \in Outbox /\ OutboxOk(o) /\ HeldOk(o, R)
    BY <1>2, <2>3 DEF OutboxOk
  <2>7. mode' \in [Client -> Modes] /\ at' \in [Client -> Nat] /\ out' \in [Client -> Outbox]
    BY <2>1, <2>2, <2>6 DEF ConnectionsOk
  <2>8. mode'[c] = mode[c] /\ at'[c] = r /\ out'[c] = o
    BY <2>1, <2>2 DEF ConnectionsOk
  <2>9. \A d \in Client : d # c => at'[d] = at[d] /\ out'[d] = out[d] /\ mode'[d] = mode[d]
    BY <2>1, <2>2 DEF ConnectionsOk
  <2>10. ConnectionOk(c)'
    BY <2>3, <2>6, <2>8 DEF ConnectionOk
  <2> HIDE <2>1
  <2>11. \A d \in Client : \/ at'[d] = at[d] /\ out'[d] = out[d] /\ mode'[d] = mode[d]
                           \/ ConnectionOk(d)'
    BY <2>9, <2>10
  <2>12. ConnectionsOk'
    BY <2>2, <2>3, <2>7, <2>11, Connected
  <2> QED BY <2>4, <2>5, <2>12
<1> QED BY <1>1, <1>2

\* A held event keeps what is held behind the session.
LEMMA HoldsBehind ==
  ASSUME NEW R \in Nat, NEW o, OutboxOk(o), HeldOk(o, R), NEW e \in Event,
         e.kind = "rev" => e.rev <= R, Hold(o, e) # Overflowed
  PROVE  OutboxOk(Hold(o, e)) /\ HeldOk(Hold(o, e), R)
<1>1. PICK h \in Seq(Event) : h = o.held
  BY DEF OutboxOk, Outbox
<1>2. PICK p : p = Hold(o, e) /\ OutboxOk(p) /\ p.held = Append(h, e)
  BY <1>1, Holds
<1>3. ASSUME NEW i \in DOMAIN Append(h, e), Append(h, e)[i].kind = "rev"
      PROVE  Append(h, e)[i].rev <= R
  <2>1. (i \in DOMAIN h /\ Append(h, e)[i] = h[i]) \/ Append(h, e)[i] = e
    OBVIOUS
  <2> QED BY <1>1, <1>3, <2>1 DEF HeldOk
<1> QED BY <1>2, <1>3 DEF HeldOk

\* Sending leaves the held events.
LEMMA SendsBehind ==
  ASSUME NEW R \in Nat, NEW o, OutboxOk(o), HeldOk(o, R), NEW e \in Frame, Send(o, e) # Overflowed
  PROVE  OutboxOk(Send(o, e)) /\ HeldOk(Send(o, e), R)
<1>1. OutboxOk(Send(o, e)) /\ Send(o, e).held = o.held
  BY Sends
<1> QED BY <1>1 DEF HeldOk

\* A publication reaches a listener.
LEMMA Receiving ==
  ASSUME TypeInv, NEW c \in Client, mode[c] # "closed", NEW e \in Signal,
         e.kind = "rev" => e.rev <= Source.rev, NEW st, StackOk(st, Source.rev), Receives(c, e, st)
  PROVE  Advanced /\ OrderOk' /\ ConnectionsOk'
<1>1. SessionOk /\ ConnectionsOk /\ OrderOk /\ ConnectionOk(c)
  BY DEF TypeInv, ConnectionsOk
<1>2. OutboxOk(out[c]) /\ HeldOk(out[c], Source.rev) /\ at[c] \in Nat /\ at[c] <= Source.rev
      /\ Source.rev \in Nat
  BY <1>1, SourceOk DEF ConnectionsOk, ConnectionOk, SessionOk, State
<1>3. e.kind # "invalidate" => e \in Event /\ e \in Frame
  BY EventsAreFrames DEF Signal
<1>4. CASE e.kind = "invalidate"
  BY <1>4, Closes DEF Receives
<1>5. CASE e.kind # "invalidate" /\ mode[c] # "live"
  <2>1. Store(c, Hold(out[c], e), at[c], st)
    BY <1>5 DEF Receives
  <2>2. Hold(out[c], e) = Overflowed
          \/ (OutboxOk(Hold(out[c], e)) /\ HeldOk(Hold(out[c], e), Source.rev))
    BY <1>2, <1>3, <1>5, HoldsBehind
  <2> QED BY <1>2, <2>1, <2>2, Stores
<1>6. CASE e.kind # "invalidate" /\ mode[c] = "live"
  <2>1. CASE Covered(c, e)
    <3>1. stack' = st /\ UNCHANGED <<log, strict, order, mode, at, out, cause>>
      BY <1>6, <2>1 DEF Receives
    <3>2. Source' = Source
      BY <3>1 DEF Source
    <3>3. Advanced
      BY <1>1, <1>2, <3>1, <3>2 DEF Advanced, SessionOk, LogOk
    <3>4. OrderOk'
      BY <1>1, <3>1 DEF OrderOk, Bound
    <3>5. ConnectionsOk'
      BY <1>1, <3>1, <3>2 DEF ConnectionsOk, ConnectionOk
    <3> QED BY <3>3, <3>4, <3>5
  <2>2. CASE ~Covered(c, e) /\ Expected(c, e)
    <3>1. PICK r \in Nat : r = (IF e.kind = "rev" THEN e.rev ELSE at[c]) /\ r <= Source.rev
      BY <1>2, <1>3, <1>6 DEF Event, RevEvent, TextEvent
    <3>2. Store(c, Send(out[c], e), r, st)
      BY <1>6, <2>2, <3>1 DEF Receives
    <3>3. Send(out[c], e) = Overflowed
            \/ (OutboxOk(Send(out[c], e)) /\ HeldOk(Send(out[c], e), Source.rev))
      BY <1>2, <1>3, <1>6, SendsBehind
    <3> QED BY <3>1, <3>2, <3>3, Stores
  <2>3. CASE ~Covered(c, e) /\ ~Expected(c, e)
    <3>1. Close(c, "gap", st)
      BY <1>6, <2>3 DEF Receives
    <3> QED BY <3>1, Closes
  <2> QED BY <2>1, <2>2, <2>3
<1> QED BY <1>4, <1>5, <1>6

\* Publications in progress: what one has seen grows, and the innermost ends.
LEMMA StackSteps ==
  ASSUME NEW R \in Nat, NEW st, StackOk(st, R), st # <<>>
  PROVE  /\ StackOk(Tail(st), R) /\ st[1].event \in Signal
         /\ st[1].event.kind = "rev" => st[1].event.rev <= R
         /\ \A c \in Client : StackOk([st EXCEPT ![1].seen = @ \cup {c}], R)
<1>1. st \in Seq(Publication) /\ 1 \in DOMAIN st
      /\ \A i \in DOMAIN st : st[i].event.kind = "rev" => st[i].event.rev <= R
  BY DEF StackOk
<1>2. StackOk(Tail(st), R)
  <2>1. Tail(st) \in Seq(Publication) /\ \A i \in DOMAIN Tail(st) : i + 1 \in DOMAIN st /\ Tail(st)[i] = st[i + 1]
    BY <1>1
  <2> QED BY <1>1, <2>1 DEF StackOk
<1>3. st[1] \in Publication /\ st[1].event \in Signal
  <2>1. st[1] \in Publication
    BY <1>1
  <2> QED BY <2>1 DEF Publication
<1>4. ASSUME NEW c \in Client
      PROVE  StackOk([st EXCEPT ![1].seen = @ \cup {c}], R)
  <2>1. PICK x : x = [st[1] EXCEPT !.seen = @ \cup {c}]
    OBVIOUS
  <2>2. x \in Publication /\ x.event = st[1].event
    BY <1>3, <2>1 DEF Publication
  <2>3. PICK t : t = [st EXCEPT ![1].seen = @ \cup {c}]
    OBVIOUS
  <2>4. t = [st EXCEPT ![1] = x]
    BY <1>1, <2>1, <2>3
  <2>5. t \in Seq(Publication) /\ DOMAIN t = DOMAIN st /\ t[1] = x
        /\ \A i \in DOMAIN st : i # 1 => t[i] = st[i]
    BY <1>1, <2>2, <2>4
  <2>6. \A i \in DOMAIN t : t[i].event.kind = "rev" => t[i].event.rev <= R
    BY <1>1, <2>2, <2>5
  <2>7. StackOk(t, R)
    BY <2>5, <2>6 DEF StackOk
  <2> QED BY <2>3, <2>7
<1> QED BY <1>1, <1>2, <1>3, <1>4

-----------------------------------------------------------------------------
(* What a client reads.                                                    *)

\* What a client shows, one revision on.
LEMMA ShownChanges ==
  ASSUME NEW v \in Shown, NEW change \in Changes
  PROVE  Changed(v, change) \in Shown /\ Changed(v, change).rev \in Nat
<1>1. /\ v.rev + 1 \in Nat /\ v.done \in Nat /\ v.off \in Nat /\ v.lost \in BOOLEAN
  BY DEF Shown
<1>2. PICK r \in Nat, d \in Nat, o \in Nat :
        /\ r = v.rev + 1 /\ d = (IF change = "completed" THEN v.done + 1 ELSE v.done)
        /\ o = (IF change \in {"completed", "lost"} THEN 0 ELSE v.off)
  BY <1>1
<1>3. PICK l \in BOOLEAN : l = (IF change = "completed" THEN FALSE ELSE v.lost \/ change = "lost")
  <2>1. (v.lost \/ change = "lost") = TRUE \/ (v.lost \/ change = "lost") = FALSE
    BY Zenon
  <2> QED BY <2>1
<1>4. Changed(v, change) = [rev |-> r, done |-> d, off |-> o, lost |-> l]
  BY <1>2, <1>3, Zenon DEF Changed
<1> QED BY <1>4 DEF Shown

\* A client may show every state, and none.
LEMMA StatesAreShown == State \subseteq Shown /\ NoView \in Shown
  BY DEF State, Shown, NoView

\* What a client makes of an event is something it may show.
LEMMA PlacedTypes ==
  ASSUME NEW v \in Shown, NEW e \in Event
  PROVE  Placed(v, e) \in Shown
<1>1. CASE e \in RevEvent
  <2>1. e.kind = "rev" /\ e.rev \in Nat /\ e.change \in Changes /\ v.rev \in Int
    BY <1>1 DEF RevEvent, Shown
  <2>2. \/ e.rev <= v.rev /\ Placed(v, e) = v
        \/ e.rev = v.rev + 1 /\ Placed(v, e) = Changed(v, e.change)
        \/ Placed(v, e) = NoView
    BY <2>1 DEF Placed
  <2> QED BY <2>1, <2>2, ShownChanges, StatesAreShown
<1>2. CASE e \in TextEvent
  <2>1. e.kind # "rev" /\ e.len \in Nat
    BY <1>2 DEF TextEvent
  <2>2. Placed(v, e) \in {v, NoView, [v EXCEPT !.off = @ + e.len]}
    BY <2>1 DEF Placed
  <2>3. [v EXCEPT !.off = @ + e.len] \in Shown
    BY <2>1 DEF Shown
  <2> QED BY <2>2, <2>3, StatesAreShown
<1> QED BY <1>1, <1>2 DEF Event

\* An update makes of a client a client.
LEMMA UpdateTypes ==
  ASSUME NEW k \in Viewer, NEW e \in Event
  PROVE  Update(k, e) \in Viewer
<1>1. k.view \in Shown /\ k.kept \in Seq(Event) /\ k.status \in {"none", "awaiting", "live"}
  BY DEF Viewer
<1>2. Placed(k.view, e) \in Shown
  BY <1>1, PlacedTypes
<1>3. PICK q \in Seq(Event) : q = Append(k.kept, e)
  <2>1. PICK h \in Seq(Event) : h = k.kept
    BY <1>1
  <2>2. Append(h, e) \in Seq(Event)
    OBVIOUS
  <2> QED BY <2>1, <2>2
<1>4. PICK one \in Seq(Event) : one = <<e>>
  <2>1. <<e>> \in Seq(Event)
    OBVIOUS
  <2> QED BY <2>1
<1>5. Update(k, e) \in {k, [k EXCEPT !.kept = q], [k EXCEPT !.view = Placed(k.view, e)],
                        [k EXCEPT !.status = "awaiting", !.kept = one]}
  BY <1>1, <1>3, <1>4 DEF Update
<1>6. [k EXCEPT !.kept = q] \in Viewer
  BY DEF Viewer
<1>7. [k EXCEPT !.view = Placed(k.view, e)] \in Viewer
  BY <1>2 DEF Viewer
<1>8. [k EXCEPT !.status = "awaiting", !.kept = one] \in Viewer
  BY DEF Viewer
<1> QED BY <1>5, <1>6, <1>7, <1>8

\* The updates that were kept, over the snapshot, are a run of Update.
Updating == [p \in Viewer \X Event |-> Update(p[1], p[2])]

\* The updates it kept make of a client a client.
LEMMA UpdateRuns ==
  /\ Updating \in [Viewer \X Event -> Viewer]
  /\ \A k \in Viewer, e \in Event : Updating[<<k, e>>] = Update(k, e)
  /\ \A k \in Viewer, q \in Seq(Event) :
       RunsTo(Viewer, Updating, k, q, FoldLeft(Update, k, q)) /\ FoldLeft(Update, k, q) \in Viewer
<1>1. Updating \in [Viewer \X Event -> Viewer]
  BY UpdateTypes DEF Updating
<1>2. \A k \in Viewer, e \in Event : Updating[<<k, e>>] = Update(k, e)
  BY DEF Updating
<1>3. ASSUME NEW k \in Viewer, NEW q \in Seq(Event)
      PROVE  RunsTo(Viewer, Updating, k, q, FoldLeft(Update, k, q))
             /\ FoldLeft(Update, k, q) \in Viewer
  <2>1. RunsTo(Viewer, Updating, k, q, FoldLeft(Update, k, q))
    BY <1>1, <1>2, UpdateFold
  <2>2. Len(q) \in 0 .. Len(q)
    OBVIOUS
  <2>3. FoldLeft(Update, k, q) \in Viewer
    BY <2>1, <2>2 DEF RunsTo
  <2> QED BY <2>1, <2>3
<1> QED BY <1>1, <1>2, <1>3

Fresh(s) == [view |-> s, status |-> "live", kept |-> <<>>]

\* A client that has adopted a snapshot is a client.
LEMMA FreshTypes == \A s \in Shown : Fresh(s) \in Viewer
<1> SUFFICES ASSUME NEW s \in Shown
             PROVE  Fresh(s) \in Viewer
  OBVIOUS
<1>1. PICK nil \in Seq(Event) : nil = <<>>
  <2>1. <<>> \in Seq(Event)
    OBVIOUS
  <2> QED BY <2>1
<1>2. Fresh(s) = [view |-> s, status |-> "live", kept |-> nil]
  BY <1>1 DEF Fresh
<1> QED BY <1>2 DEF Viewer

\* Adopting a snapshot makes of a client a client.
LEMMA AdoptTypes ==
  ASSUME NEW k \in Viewer, NEW s \in State
  PROVE  Adopt(k, s) \in Viewer
<1>1. Fresh(s) \in Viewer /\ k.kept \in Seq(Event)
  BY FreshTypes, StatesAreShown DEF Viewer
<1>2. FoldLeft(Update, Fresh(s), k.kept) \in Viewer
  BY <1>1, UpdateRuns
<1>3. [k EXCEPT !.status = "awaiting"] \in Viewer
  BY DEF Viewer
<1>4. Adopt(k, s) \in {k, [k EXCEPT !.status = "awaiting"], FoldLeft(Update, Fresh(s), k.kept)}
  BY DEF Adopt, Fresh
<1> QED BY <1>2, <1>3, <1>4

\* A frame makes of a client a client.
LEMMA DigestTypes ==
  ASSUME NEW k \in Viewer, NEW e \in Frame
  PROVE  Digest(k, e) \in Viewer
<1>1. CASE e \in Event
  BY <1>1, UpdateTypes DEF Digest, Event, RevEvent, TextEvent
<1>2. CASE e \notin Event
  <2>1. e.kind = "snap" /\ e.state \in State
    BY <1>2 DEF Frame
  <2> QED BY <2>1, AdoptTypes DEF Digest
<1> QED BY <1>1, <1>2

-----------------------------------------------------------------------------
(* Every step keeps the types and the counters.                            *)

\* The session at a step: what the lemmas above need of it.
LEMMA Now ==
  ASSUME TypeInv
  PROVE  /\ SessionOk /\ LogOk /\ OrderOk /\ ConnectionsOk /\ ClientsOk
         /\ Source \in State /\ Source.rev \in Nat
         /\ StackOk(stack, Source.rev) /\ StackOk(<<>>, Source.rev)
         /\ \A c \in Client : ConnectionOk(c) /\ out[c] \in Outbox /\ OutboxOk(out[c])
<1>1. SessionOk /\ LogOk /\ OrderOk /\ ConnectionsOk /\ ClientsOk /\ StackOk(stack, Source.rev)
  BY DEF TypeInv, SessionOk
<1>2. Source \in State /\ Source.rev \in Nat
  BY <1>1, SourceOk DEF State
<1>3. StackOk(<<>>, Source.rev)
  <2>1. <<>> \in Seq(Publication) /\ DOMAIN <<>> = {}
    OBVIOUS
  <2> QED BY <2>1 DEF StackOk
<1>4. \A c \in Client : ConnectionOk(c) /\ out[c] \in Outbox /\ OutboxOk(out[c])
  BY <1>1 DEF ConnectionsOk, ConnectionOk
<1> QED BY <1>1, <1>2, <1>3, <1>4

\* The session goes on and no connection changes.
LEMMA Onwards ==
  ASSUME TypeInv, Advanced, UNCHANGED <<order, mode, at, out>>
  PROVE  OrderOk' /\ ConnectionsOk'
<1>1. OrderOk /\ ConnectionsOk /\ Source.rev \in Nat /\ SessionOk'
  BY Now DEF Advanced
<1>2. OrderOk'
  BY <1>1 DEF OrderOk, Bound
<1>3. Source'.rev \in Nat
  <2>1. PICK l : l = log' /\ l \in Seq(State) /\ l # <<>>
    BY <1>1 DEF SessionOk, LogOk
  <2>2. Last(l) \in State
    BY <2>1 DEF Last
  <2> QED BY <2>1, <2>2 DEF Source, State
<1>4. mode' \in [Client -> Modes] /\ at' \in [Client -> Nat] /\ out' \in [Client -> Outbox]
  BY <1>1 DEF ConnectionsOk
<1>5. \A c \in Client : at'[c] = at[c] /\ out'[c] = out[c] /\ mode'[c] = mode[c]
  OBVIOUS
<1>6. Source.rev <= Source'.rev
  BY DEF Advanced
<1>7. ConnectionsOk'
  BY <1>1, <1>3, <1>4, <1>5, <1>6, Connected
<1> QED BY <1>2, <1>7

\* The session stands still and the outbox of one connection changes.
LEMMA Aside ==
  ASSUME TypeInv, NEW c \in Client, UNCHANGED <<log, strict, stack, order, at>>,
         NEW o, OutboxOk(o), HeldOk(o, Source.rev), out' = [out EXCEPT ![c] = o],
         NEW m \in Modes, mode' = [mode EXCEPT ![c] = m], m = "closed" => o = Empty,
         c \in Bound <=> m \in {"held", "captured", "live"}
  PROVE  Advanced /\ OrderOk' /\ ConnectionsOk'
<1>1. SessionOk /\ OrderOk /\ ConnectionsOk
  BY Now
<1>2. PICK R \in Nat : R = Source.rev /\ R = Source'.rev /\ R <= R
  BY Now DEF Source
<1>3. Advanced
  BY <1>1, <1>2 DEF Advanced, SessionOk, LogOk
<1>4. OrderOk'
  <2>1. Bound' = Bound
    BY <1>1 DEF Bound, ConnectionsOk
  <2> QED BY <1>1, <2>1 DEF OrderOk
<1>5. o \in Outbox
  BY DEF OutboxOk
<1>6. mode' \in [Client -> Modes] /\ at' \in [Client -> Nat] /\ out' \in [Client -> Outbox]
  BY <1>1, <1>5 DEF ConnectionsOk
<1>7. mode'[c] = m /\ at'[c] = at[c] /\ out'[c] = o
  BY <1>1 DEF ConnectionsOk
<1>8. ConnectionOk(c)'
  BY <1>1, <1>2, <1>7 DEF ConnectionOk, ConnectionsOk
<1>9. \A d \in Client : d # c => at'[d] = at[d] /\ out'[d] = out[d] /\ mode'[d] = mode[d]
  BY <1>1 DEF ConnectionsOk
<1>10. \A d \in Client : \/ at'[d] = at[d] /\ out'[d] = out[d] /\ mode'[d] = mode[d]
                         \/ ConnectionOk(d)'
  BY <1>8, <1>9
<1>11. ConnectionsOk'
  BY <1>1, <1>2, <1>6, <1>10, Connected
<1> QED BY <1>3, <1>4, <1>11

\* Nor does the outbox.
LEMMA Beside ==
  ASSUME TypeInv, UNCHANGED <<log, strict, stack, order, mode, at, out>>
  PROVE  Advanced /\ OrderOk' /\ ConnectionsOk'
<1>1. SessionOk /\ OrderOk /\ ConnectionsOk /\ Source.rev \in Nat /\ Source' = Source
  BY Now DEF Source
<1>2. Advanced
  BY <1>1 DEF Advanced, SessionOk, LogOk
<1> QED BY <1>2, Onwards

\* The session publishes.
LEMMA ProduceTypes ==
  ASSUME TypeInv, Produce
  PROVE  TypeInv'
<1>1. Source \in State /\ Source.rev \in Nat /\ LogOk /\ SessionOk /\ ClientsOk
      /\ StackOk(stack, Source.rev)
  BY Now
<1>2. UNCHANGED <<strict, order, attaching, cut, mode, at, out, cause, wire, client, tries>>
  BY DEF Produce
<1>3. Advanced
  <2>1. CASE Delta
    <3>1. PICK n \in 1 .. MaxText : Publish(Text(Source, n), [Source EXCEPT !.off = @ + n], stack)
      BY <2>1 DEF Delta
    <3>2. n \in Nat \ {0}
      BY FanoutAssumption
    <3>3. PICK s \in State : s = Longer(Source, n) /\ s.rev = Source.rev
      BY <1>1, <3>2, Lengthens
    <3>4. PICK e \in Signal : e = Text(Source, n) /\ e.kind = "text"
      BY <1>1, <3>2, Lengthens DEF Signal, Event, TextEvent
    <3>5. Publish(e, s, stack) /\ Source.rev <= s.rev /\ (e.kind = "rev" => e.rev <= s.rev)
      BY <1>1, <3>1, <3>3, <3>4 DEF Longer
    <3>6. LogOk' /\ Source' = s /\ StackOk(stack', s.rev)
      BY <1>1, <3>5, Publishing
    <3> QED BY <1>1, <1>2, <3>3, <3>6 DEF Advanced, SessionOk
  <2>2. CASE Change
    <3>1. PICK change \in Kinds \ {"silent"} : PublishChange(change, stack)
      BY <2>2 DEF Change
    <3>2. change \in Changes
      BY FanoutAssumption DEF Changes
    <3>3. LogOk' /\ StackOk(stack', Source'.rev) /\ Source.rev <= Source'.rev
      BY <1>1, <3>1, <3>2, PublishesChange
    <3> QED BY <1>1, <1>2, <3>3 DEF Advanced, SessionOk
  <2>3. CASE Invalidate
    <3>1. PICK s \in State : s = Changed(Source, "plain") /\ s.rev = Source.rev + 1
      BY <1>1, Changing DEF Changes
    <3>2. PICK e \in Signal : e = [kind |-> "invalidate"] /\ e.kind # "rev"
      <4>1. [kind |-> "invalidate"] \in Signal /\ [kind |-> "invalidate"].kind # "rev"
        BY DEF Signal
      <4> QED BY <4>1
    <3>3. Publish(e, s, stack) /\ Source.rev <= s.rev
      BY <1>1, <2>3, <3>1, <3>2 DEF Invalidate
    <3>4. LogOk' /\ Source' = s /\ StackOk(stack', s.rev)
      BY <1>1, <3>2, <3>3, Publishing
    <3> QED BY <1>1, <1>2, <3>3, <3>4 DEF Advanced, SessionOk
  <2> QED BY <2>1, <2>2, <2>3 DEF Produce
<1>4. OrderOk' /\ ConnectionsOk'
  BY <1>2, <1>3, Onwards
<1>5. ClientsOk' /\ (attaching \in Client \cup {NoClient})'
  BY <1>1, <1>2 DEF ClientsOk, TypeInv
<1> QED BY <1>3, <1>4, <1>5 DEF TypeInv, Advanced

\* A listener is called.
LEMMA DeliverTypes ==
  ASSUME TypeInv, Deliver
  PROVE  TypeInv'
<1>1. /\ stack # <<>> /\ Uncalled # {}
      /\ Receives(Listener, stack[1].event, [stack EXCEPT ![1].seen = @ \cup {Listener}])
      /\ UNCHANGED <<attaching, cut, wire, client, tries>>
  BY DEF Deliver
<1>2. OrderOk /\ ClientsOk /\ StackOk(stack, Source.rev) /\ Source.rev \in Nat
  BY Now
<1>3. PICK c \in Client : c = Listener /\ c \in ToSet(order)
  BY <1>1, <1>2, Listens DEF OrderOk
<1>4. mode[c] # "closed"
  BY <1>2, <1>3 DEF OrderOk, Bound
<1>5. PICK e \in Signal : e = stack[1].event /\ (e.kind = "rev" => e.rev <= Source.rev)
  BY <1>1, <1>2, StackSteps
<1>6. PICK st : st = [stack EXCEPT ![1].seen = @ \cup {c}] /\ StackOk(st, Source.rev)
  BY <1>1, <1>2, StackSteps
<1>7. Receives(c, e, st)
  BY <1>1, <1>3, <1>5, <1>6
<1>8. Advanced /\ OrderOk' /\ ConnectionsOk'
  BY <1>4, <1>5, <1>6, <1>7, Receiving
<1>9. ClientsOk' /\ (attaching \in Client \cup {NoClient})'
  BY <1>1, <1>2 DEF ClientsOk, TypeInv
<1> QED BY <1>8, <1>9 DEF TypeInv, Advanced

\* A publication ends.
LEMMA DeliveredTypes ==
  ASSUME TypeInv, Delivered
  PROVE  TypeInv'
<1>1. /\ stack # <<>> /\ stack' = Tail(stack)
      /\ UNCHANGED <<log, strict, order, attaching, cut, mode, at, out, cause, wire, client, tries>>
  BY DEF Delivered
<1>2. SessionOk /\ ClientsOk /\ StackOk(stack, Source.rev) /\ Source.rev \in Nat
  BY Now
<1>3. Source' = Source
  BY <1>1 DEF Source
<1>4. PICK st : st = stack' /\ StackOk(st, Source.rev)
  BY <1>1, <1>2, StackSteps
<1>5. Advanced
  BY <1>1, <1>2, <1>3, <1>4 DEF Advanced, SessionOk, LogOk
<1>6. OrderOk' /\ ConnectionsOk'
  BY <1>1, <1>5, Onwards
<1>7. ClientsOk' /\ (attaching \in Client \cup {NoClient})'
  BY <1>1, <1>2 DEF ClientsOk, TypeInv
<1> QED BY <1>5, <1>6, <1>7 DEF TypeInv, Advanced

\* A client asks to attach.
LEMMA AskTypes ==
  ASSUME TypeInv, NEW c \in Client, Ask(c)
  PROVE  TypeInv'
<1>1. /\ tries[c] < MaxAttach /\ tries' = [tries EXCEPT ![c] = @ + 1] /\ attaching' = c
      /\ mode' = [mode EXCEPT ![c] = IF @ = "closed" THEN "open" ELSE @]
      /\ client' = [client EXCEPT ![c].status = "awaiting",
                                  ![c].kept = IF mode[c] = "closed" THEN <<>> ELSE @]
      /\ \/ strict' = TRUE /\ PublishChange("policy", stack)
         \/ UNCHANGED <<log, strict, stack>>
      /\ UNCHANGED <<order, cut, at, out, wire>>
  BY DEF Ask
<1>2. SessionOk /\ LogOk /\ OrderOk /\ ConnectionsOk /\ ClientsOk /\ StackOk(stack, Source.rev)
      /\ Source.rev \in Nat
  BY Now
<1>3. Advanced
  <2>1. CASE strict' = TRUE /\ PublishChange("policy", stack)
    <3>1. "policy" \in Changes
      BY DEF Changes
    <3>2. LogOk' /\ StackOk(stack', Source'.rev) /\ Source.rev <= Source'.rev
      BY <1>2, <2>1, <3>1, PublishesChange
    <3> QED BY <2>1, <3>2 DEF Advanced, SessionOk
  <2>2. CASE UNCHANGED <<log, strict, stack>>
    <3>1. Source' = Source
      BY <2>2 DEF Source
    <3> QED BY <1>2, <2>2, <3>1 DEF Advanced, SessionOk, LogOk
  <2> QED BY <1>1, <2>1, <2>2
<1>4. PICK m \in Modes : m = (IF mode[c] = "closed" THEN "open" ELSE mode[c]) /\ m # "closed"
  BY <1>2 DEF ConnectionsOk, Modes
<1>5. mode' = [mode EXCEPT ![c] = m]
  BY <1>1, <1>2, <1>4 DEF ConnectionsOk
<1>6. OrderOk'
  <2>1. Bound' = Bound
    BY <1>2, <1>4, <1>5 DEF Bound, ConnectionsOk
  <2> QED BY <1>1, <1>2, <2>1 DEF OrderOk
<1>7. PICK R \in Nat, S \in Nat : R = Source.rev /\ S = Source'.rev /\ R <= S
  <2>1. Source.rev <= Source'.rev /\ LogOk'
    BY <1>3 DEF Advanced, SessionOk
  <2>2. PICK l : l = log' /\ l \in Seq(State) /\ l # <<>>
    BY <2>1 DEF LogOk
  <2>3. Last(l) \in State
    BY <2>2 DEF Last
  <2>4. Source'.rev \in Nat
    BY <2>2, <2>3 DEF Source, State
  <2> QED BY <1>2, <2>1, <2>4
<1>8. ConnectionsOk'
  <2>1. mode' \in [Client -> Modes] /\ at' \in [Client -> Nat] /\ out' \in [Client -> Outbox]
    BY <1>1, <1>2, <1>5 DEF ConnectionsOk
  <2>2. ConnectionOk(c)'
    <3>1. ConnectionOk(c) /\ out[c] \in Outbox /\ at[c] \in Nat
      BY <1>2 DEF ConnectionsOk
    <3>2. HeldOk(out[c], S) /\ at[c] <= S
      BY <1>7, <3>1, HeldStays DEF ConnectionOk
    <3>3. mode'[c] = m /\ out'[c] = out[c] /\ at'[c] = at[c]
      BY <1>1, <1>2, <1>5 DEF ConnectionsOk
    <3> QED BY <1>4, <1>7, <3>1, <3>2, <3>3 DEF ConnectionOk
  <2>3. \A d \in Client : d # c => at'[d] = at[d] /\ out'[d] = out[d] /\ mode'[d] = mode[d]
    BY <1>1, <1>2, <1>5 DEF ConnectionsOk
  <2>4. \A d \in Client : \/ at'[d] = at[d] /\ out'[d] = out[d] /\ mode'[d] = mode[d]
                          \/ ConnectionOk(d)'
    BY <2>2, <2>3
  <2> QED BY <1>2, <1>7, <2>1, <2>4, Connected
<1>9. ClientsOk'
  <2>1. PICK k : k = [client[c] EXCEPT !.status = "awaiting", !.kept = IF mode[c] = "closed" THEN <<>> ELSE @]
    OBVIOUS
  <2>2. client[c] \in Viewer
    BY <1>2 DEF ClientsOk
  <2>3. PICK q \in Seq(Event) : q = IF mode[c] = "closed" THEN <<>> ELSE client[c].kept
    <3>1. client[c].kept \in Seq(Event)
      BY <2>2 DEF Viewer
    <3>2. <<>> \in Seq(Event)
      OBVIOUS
    <3> QED BY <3>1, <3>2
  <2>4. k = [client[c] EXCEPT !.status = "awaiting", !.kept = q]
    BY <2>1, <2>2, <2>3 DEF Viewer
  <2>5. k \in Viewer
    BY <2>2, <2>4 DEF Viewer
  <2>6. client' = [client EXCEPT ![c] = k]
    BY <1>1, <1>2, <2>1 DEF ClientsOk
  <2>7. client' \in [Client -> Viewer]
    BY <1>2, <2>5, <2>6 DEF ClientsOk
  <2>8. tries' \in [Client -> 0 .. MaxAttach]
    <3>1. tries[c] + 1 \in 0 .. MaxAttach
      BY <1>1, <1>2, FanoutAssumption DEF ClientsOk
    <3> QED BY <1>1, <1>2, <3>1 DEF ClientsOk
  <2> QED BY <1>1, <1>2, <2>7, <2>8 DEF ClientsOk
<1> QED BY <1>1, <1>3, <1>6, <1>8, <1>9 DEF TypeInv, Advanced

\* Its listener is installed.
LEMMA SubscribeTypes ==
  ASSUME TypeInv, NEW c \in Client, Subscribe(c)
  PROVE  TypeInv'
<1>1. /\ mode[c] \in {"open", "live"} /\ mode' = [mode EXCEPT ![c] = "held"]
      /\ order' = Append(Unsubscribed(c), c)
      /\ UNCHANGED <<log, strict, stack, attaching, cut, at, out, cause, wire, client, tries>>
  BY DEF Subscribe
<1>2. SessionOk /\ OrderOk /\ ConnectionsOk /\ ClientsOk /\ Source.rev \in Nat
  BY Now
<1>3. Source' = Source
  BY <1>1 DEF Source
<1>4. OrderOk'
  <2>1. PICK q : q = RemoveFirst(order, c)
    OBVIOUS
  <2>2. q \in Seq(Client) /\ IsInjective(q) /\ ToSet(q) = Bound \ {c}
    BY <1>2, <2>1, Unsubscribes DEF OrderOk
  <2>3. PICK r : r = order' /\ r = Append(q, c)
    BY <1>1, <2>1 DEF Unsubscribed
  <2>4. r \in Seq(Client) /\ IsInjective(r) /\ ToSet(r) = (Bound \ {c}) \cup {c}
    BY <2>2, <2>3, Subscribes
  <2>5. Bound' = (Bound \ {c}) \cup {c}
    BY <1>1, <1>2 DEF Bound, ConnectionsOk
  <2> QED BY <2>3, <2>4, <2>5 DEF OrderOk
<1>5. ConnectionsOk'
  BY <1>1, <1>2, <1>3 DEF ConnectionsOk, ConnectionOk, Modes
<1>6. SessionOk' /\ ClientsOk' /\ (attaching \in Client \cup {NoClient})'
  BY <1>1, <1>2, <1>3 DEF SessionOk, LogOk, ClientsOk, TypeInv
<1> QED BY <1>4, <1>5, <1>6 DEF TypeInv

\* Its snapshot is captured and sent.
LEMMA CaptureTypes ==
  ASSUME TypeInv, NEW c \in Client, Capture(c)
  PROVE  TypeInv'
<1>1. SessionOk /\ OrderOk /\ ConnectionsOk /\ ClientsOk /\ Source \in State /\ Source.rev \in Nat
      /\ StackOk(stack, Source.rev) /\ OutboxOk(out[c]) /\ ConnectionOk(c)
  BY Now
<1>2. mode[c] = "held" /\ UNCHANGED <<attaching, wire, client, tries>>
  BY DEF Capture
<1>3. PICK o : o = Send(out[c], Snapshot(Source))
  OBVIOUS
<1>4. Snapshot(Source) \in Frame
  BY <1>1 DEF Snapshot, Frame
<1>5. Advanced /\ OrderOk' /\ ConnectionsOk'
  <2>1. CASE o = Overflowed
    <3>1. Close(c, "overflow", stack)
      BY <1>3, <2>1 DEF Capture
    <3> QED BY <1>1, <3>1, Closes
  <2>2. CASE o # Overflowed
    <3>1. /\ out' = [out EXCEPT ![c] = o] /\ at' = [at EXCEPT ![c] = Source.rev]
          /\ mode' = [mode EXCEPT ![c] = "captured"]
          /\ UNCHANGED <<log, strict, stack, order, cause>>
      BY <1>3, <2>2 DEF Capture
    <3>2. OutboxOk(o) /\ HeldOk(o, Source.rev) /\ o \in Outbox
      BY <1>1, <1>3, <1>4, <2>2, SendsBehind DEF ConnectionOk, OutboxOk
    <3>3. Source' = Source
      BY <3>1 DEF Source
    <3>4. Advanced
      BY <1>1, <3>1, <3>3 DEF Advanced, SessionOk, LogOk
    <3>5. OrderOk'
      <4>1. Bound' = Bound
        BY <1>1, <1>2, <3>1 DEF Bound, ConnectionsOk
      <4> QED BY <1>1, <3>1, <4>1 DEF OrderOk
    <3>6. mode' \in [Client -> Modes] /\ at' \in [Client -> Nat] /\ out' \in [Client -> Outbox]
      BY <1>1, <3>1, <3>2 DEF ConnectionsOk, Modes
    <3>7. mode'[c] = "captured" /\ at'[c] = Source.rev /\ out'[c] = o
      BY <1>1, <3>1 DEF ConnectionsOk
    <3>8. ConnectionOk(c)'
      BY <1>1, <3>2, <3>3, <3>7 DEF ConnectionOk
    <3>9. \A d \in Client : d # c => at'[d] = at[d] /\ out'[d] = out[d] /\ mode'[d] = mode[d]
      BY <1>1, <3>1 DEF ConnectionsOk
    <3>10. \A d \in Client : \/ at'[d] = at[d] /\ out'[d] = out[d] /\ mode'[d] = mode[d]
                             \/ ConnectionOk(d)'
      BY <3>8, <3>9
    <3>11. Source.rev <= Source.rev /\ Source.rev = Source'.rev
      BY <1>1, <3>3
    <3>12. ConnectionsOk'
      BY <1>1, <3>6, <3>10, <3>11, Connected
    <3> QED BY <3>4, <3>5, <3>12
  <2> QED BY <2>1, <2>2
<1>6. ClientsOk' /\ (attaching \in Client \cup {NoClient})'
  BY <1>1, <1>2 DEF ClientsOk, TypeInv
<1> QED BY <1>5, <1>6 DEF TypeInv, Advanced

\* What was held is cut over.
LEMMA SettleTypes ==
  ASSUME TypeInv, NEW c \in Client, Settle(c)
  PROVE  TypeInv'
<1>1. SessionOk /\ OrderOk /\ ConnectionsOk /\ ClientsOk /\ Source.rev \in Nat
      /\ StackOk(stack, Source.rev) /\ OutboxOk(out[c]) /\ ConnectionOk(c)
  BY Now
<1>2. mode[c] = "captured" /\ attaching' = NoClient /\ UNCHANGED <<wire, client, tries>>
  BY DEF Settle
<1>3. PICK d : d = FoldLeft(CutOver, CutAt(out[c], at[c], {}, FALSE), out[c].held)
  OBVIOUS
<1>4. at[c] \in Nat /\ at[c] <= Source.rev
      /\ \A i \in DOMAIN out[c].held : out[c].held[i].kind = "rev" => out[c].held[i].rev <= Source.rev
  BY <1>1 DEF ConnectionsOk, ConnectionOk, HeldOk
<1>5. PICK v : /\ d = v[Len(out[c].held)]
               /\ \A i \in 0 .. Len(out[c].held) :
                    CutOk(v[i], SubSeq(out[c].held, i + 1, Len(out[c].held)), Source.rev)
  BY <1>1, <1>3, <1>4, CutOvers
<1>6. CutOk(d, <<>>, Source.rev)
  <2>1. PICK h \in Seq(Event), n \in Nat : h = out[c].held /\ n = Len(h)
    <3>1. out[c].held \in Seq(Event)
      BY <1>1 DEF OutboxOk, Outbox
    <3>2. Len(out[c].held) \in Nat
      BY <3>1
    <3> QED BY <3>1, <3>2
  <2>2. SubSeq(h, n + 1, n) = <<>> /\ n \in 0 .. n
    BY <2>1
  <2> QED BY <1>5, <2>1, <2>2
<1>7. Advanced /\ OrderOk' /\ ConnectionsOk'
  <2>1. CASE d.gap \/ d.out = Overflowed
    <3>1. Close(c, IF d.gap THEN "gap" ELSE "overflow", stack)
      BY <1>3, <2>1 DEF Settle, CutAt
    <3> QED BY <1>1, <3>1, Closes
  <2>2. CASE ~(d.gap \/ d.out = Overflowed)
    <3>1. /\ out' = [out EXCEPT ![c] = d.out] /\ at' = [at EXCEPT ![c] = d.rev]
          /\ mode' = [mode EXCEPT ![c] = "live"]
          /\ UNCHANGED <<log, strict, stack, order, cause>>
      BY <1>3, <2>2 DEF Settle, CutAt
    <3>2. PICK o \in Outbox, r \in Nat : o = d.out /\ r = d.rev /\ OutboxOk(o) /\ r <= Source.rev
                                      /\ o.held = <<>>
      BY <1>6, <2>2 DEF CutOk, Stopped, Cut
    <3>3. HeldOk(o, Source.rev)
      BY <3>2 DEF HeldOk
    <3>4. Source' = Source
      BY <3>1 DEF Source
    <3>5. Advanced
      BY <1>1, <3>1, <3>4 DEF Advanced, SessionOk, LogOk
    <3>6. OrderOk'
      <4>1. Bound' = Bound
        BY <1>1, <1>2, <3>1 DEF Bound, ConnectionsOk
      <4> QED BY <1>1, <3>1, <4>1 DEF OrderOk
    <3>7. mode' \in [Client -> Modes] /\ at' \in [Client -> Nat] /\ out' \in [Client -> Outbox]
      BY <1>1, <3>1, <3>2 DEF ConnectionsOk, Modes
    <3>8. mode'[c] = "live" /\ at'[c] = r /\ out'[c] = o
      BY <1>1, <3>1, <3>2 DEF ConnectionsOk
    <3>9. ConnectionOk(c)'
      BY <1>1, <3>2, <3>3, <3>4, <3>8 DEF ConnectionOk
    <3>10. \A e \in Client : e # c => at'[e] = at[e] /\ out'[e] = out[e] /\ mode'[e] = mode[e]
      BY <1>1, <3>1 DEF ConnectionsOk
    <3>11. \A e \in Client : \/ at'[e] = at[e] /\ out'[e] = out[e] /\ mode'[e] = mode[e]
                             \/ ConnectionOk(e)'
      BY <3>9, <3>10
    <3>12. Source.rev <= Source.rev /\ Source.rev = Source'.rev
      BY <1>1, <3>4
    <3>13. ConnectionsOk'
      BY <1>1, <3>7, <3>11, <3>12, Connected
    <3> QED BY <3>5, <3>6, <3>13
  <2> QED BY <2>1, <2>2
<1>8. ClientsOk' /\ (attaching \in Client \cup {NoClient})'
  BY <1>1, <1>2 DEF ClientsOk, TypeInv
<1> QED BY <1>7, <1>8 DEF TypeInv, Advanced

\* An attachment that came too late goes.
LEMMA AbandonTypes ==
  ASSUME TypeInv, NEW c \in Client, Abandon(c)
  PROVE  TypeInv'
<1>1. attaching' = NoClient /\ Relax(c, stack)
      /\ UNCHANGED <<order, mode, at, out, cause, wire, client, tries>>
  BY DEF Abandon
<1>2. SessionOk /\ ClientsOk /\ StackOk(stack, Source.rev)
  BY Now
<1>3. Advanced
  BY <1>1, <1>2, Relaxes
<1>4. OrderOk' /\ ConnectionsOk'
  BY <1>1, <1>3, Onwards
<1>5. ClientsOk' /\ (attaching \in Client \cup {NoClient})'
  BY <1>1, <1>2 DEF ClientsOk
<1> QED BY <1>3, <1>4, <1>5 DEF TypeInv, Advanced

\* A client detaches.
LEMMA DetachTypes ==
  ASSUME TypeInv, NEW c \in Client, Detach(c)
  PROVE  TypeInv'
<1>1. /\ mode[c] = "live" /\ mode' = [mode EXCEPT ![c] = "open"] /\ order' = Unsubscribed(c)
      /\ at' = [at EXCEPT ![c] = 0] /\ client' = [client EXCEPT ![c] = Idle] /\ Relax(c, stack)
      /\ UNCHANGED <<attaching, cut, out, cause, wire, tries>>
  BY DEF Detach
<1>2. SessionOk /\ OrderOk /\ ConnectionsOk /\ ClientsOk /\ Source.rev \in Nat
      /\ StackOk(stack, Source.rev) /\ ConnectionOk(c) /\ OutboxOk(out[c]) /\ out[c] \in Outbox
  BY Now
<1>3. Advanced
  BY <1>1, <1>2, Relaxes
<1>4. PICK R \in Nat, S \in Nat : R = Source.rev /\ S = Source'.rev /\ R <= S
  <2>1. Source.rev <= Source'.rev /\ LogOk'
    BY <1>3 DEF Advanced, SessionOk
  <2>2. PICK l : l = log' /\ l \in Seq(State) /\ l # <<>>
    BY <2>1 DEF LogOk
  <2>3. Last(l) \in State
    BY <2>2 DEF Last
  <2>4. Source'.rev \in Nat
    BY <2>2, <2>3 DEF Source, State
  <2> QED BY <1>2, <2>1, <2>4
<1>5. OrderOk'
  <2>1. PICK q : q = order' /\ q = RemoveFirst(order, c)
    BY <1>1 DEF Unsubscribed
  <2>2. q \in Seq(Client) /\ IsInjective(q) /\ ToSet(q) = Bound \ {c}
    BY <1>2, <2>1, Unsubscribes DEF OrderOk
  <2>3. Bound' = Bound \ {c}
    BY <1>1, <1>2 DEF Bound, ConnectionsOk
  <2> QED BY <2>1, <2>2, <2>3 DEF OrderOk
<1>6. ConnectionsOk'
  <2>1. mode' \in [Client -> Modes] /\ at' \in [Client -> Nat] /\ out' \in [Client -> Outbox]
    BY <1>1, <1>2 DEF ConnectionsOk, Modes
  <2>2. mode'[c] = "open" /\ at'[c] = 0 /\ out'[c] = out[c]
    BY <1>1, <1>2 DEF ConnectionsOk
  <2>3. HeldOk(out[c], S)
    BY <1>2, <1>4, HeldStays DEF ConnectionOk
  <2>4. ConnectionOk(c)'
    BY <1>2, <1>4, <2>2, <2>3 DEF ConnectionOk
  <2>5. \A d \in Client : d # c => at'[d] = at[d] /\ out'[d] = out[d] /\ mode'[d] = mode[d]
    BY <1>1, <1>2 DEF ConnectionsOk
  <2>6. \A d \in Client : \/ at'[d] = at[d] /\ out'[d] = out[d] /\ mode'[d] = mode[d]
                          \/ ConnectionOk(d)'
    BY <2>4, <2>5
  <2> QED BY <1>2, <1>4, <2>1, <2>6, Connected
<1>7. ClientsOk'
  <2>1. Idle \in Viewer
    <3>1. PICK nil \in Seq(Event) : nil = <<>>
      <4>1. <<>> \in Seq(Event)
        OBVIOUS
      <4> QED BY <4>1
    <3>2. Idle = [view |-> NoView, status |-> "none", kept |-> nil]
      BY <3>1 DEF Idle
    <3> QED BY <3>2, StatesAreShown DEF Viewer
  <2> QED BY <1>1, <1>2, <2>1 DEF ClientsOk
<1>8. (attaching \in Client \cup {NoClient})'
  BY <1>1 DEF TypeInv
<1> QED BY <1>3, <1>5, <1>6, <1>7, <1>8 DEF TypeInv, Advanced

\* The transport: one outbox, the frames on the wire or the client.
LEMMA TransportTypes ==
  ASSUME TypeInv, NEW c \in Client,
         \/ /\ \E o \in Outbox : OutboxOk(o) /\ HeldOk(o, Source.rev) /\ out' = [out EXCEPT ![c] = o]
            /\ mode[c] # "closed" /\ mode' = mode
         \/ UNCHANGED <<mode, out>>,
         UNCHANGED <<log, strict, stack, order, at, attaching>>, ClientsOk'
  PROVE  TypeInv'
<1>1. Advanced /\ OrderOk' /\ ConnectionsOk'
  <2>1. CASE UNCHANGED <<mode, out>>
    BY <2>1, Beside
  <2>2. CASE /\ \E o \in Outbox : OutboxOk(o) /\ HeldOk(o, Source.rev) /\ out' = [out EXCEPT ![c] = o]
             /\ mode[c] # "closed" /\ mode' = mode
    <3>1. PICK o \in Outbox : OutboxOk(o) /\ HeldOk(o, Source.rev) /\ out' = [out EXCEPT ![c] = o]
      BY <2>2
    <3>2. PICK m \in Modes : m = mode[c] /\ mode' = [mode EXCEPT ![c] = m]
      BY <2>2, Now DEF ConnectionsOk
    <3>3. c \in Bound <=> m \in {"held", "captured", "live"}
      BY <3>2 DEF Bound
    <3>4. m # "closed"
      BY <2>2, <3>2
    <3> QED BY <3>1, <3>2, <3>3, <3>4, Aside
  <2> QED BY <2>1, <2>2
<1>2. (attaching \in Client \cup {NoClient})'
  BY DEF TypeInv
<1> QED BY <1>1, <1>2 DEF TypeInv, Advanced

\* An empty outbox has nothing to flush, to report or to drain.
LEMMA ClosedIsIdle ==
  ASSUME TypeInv, NEW c \in Client, out[c].scheduled \/ out[c].sending # <<>> \/ out[c].blocked
  PROVE  mode[c] # "closed"
<1>1. ConnectionOk(c)
  BY Now
<1> QED BY <1>1 DEF ConnectionOk, Empty

\* A queue is written.
LEMMA FlushTypes ==
  ASSUME TypeInv, NEW c \in Client, Flush(c)
  PROVE  TypeInv'
<1>1. PICK accepted \in BOOLEAN :
        out' = [out EXCEPT ![c].scheduled = FALSE, ![c].queue = <<>>,
                           ![c].sending = Append(@, out[c].queue), ![c].blocked = ~accepted]
  BY DEF Flush
<1>2. /\ out[c].scheduled /\ wire' = [wire EXCEPT ![c] = @ \o out[c].queue]
      /\ UNCHANGED <<log, strict, stack, order, attaching, cut, mode, at, cause, client, tries>>
  BY DEF Flush
<1>3. /\ ConnectionOk(c) /\ OutboxOk(out[c]) /\ out[c] \in Outbox /\ ConnectionsOk /\ ClientsOk
  BY Now
<1>4. PICK o : o = Flushed(out[c], accepted)
  OBVIOUS
<1>5. OutboxOk(o) /\ o.held = out[c].held /\ o \in Outbox
  <2>1. OutboxOk(o) /\ o.held = out[c].held
    BY <1>3, <1>4, Flushes
  <2> QED BY <2>1 DEF OutboxOk
<1>6. HeldOk(o, Source.rev)
  BY <1>3, <1>5 DEF ConnectionOk, HeldOk
<1>7. out' = [out EXCEPT ![c] = o]
  BY <1>1, <1>3, <1>4 DEF ConnectionsOk, Flushed
<1>8. ClientsOk'
  <2>1. PICK q \in Seq(Frame), w \in Seq(Frame) : q = out[c].queue /\ w = wire[c]
    BY <1>3 DEF Outbox, ClientsOk
  <2>2. w \o q \in Seq(Frame)
    OBVIOUS
  <2>3. wire' = [wire EXCEPT ![c] = w \o q]
    BY <1>2, <1>3, <2>1 DEF ClientsOk
  <2>4. wire' \in [Client -> Seq(Frame)]
    BY <1>3, <2>2, <2>3 DEF ClientsOk
  <2> QED BY <1>2, <1>3, <2>4 DEF ClientsOk
<1>9. mode[c] # "closed"
  BY <1>2, ClosedIsIdle
<1> QED BY <1>2, <1>5, <1>6, <1>7, <1>8, <1>9, TransportTypes

\* A write is reported.
LEMMA WrittenTypes ==
  ASSUME TypeInv, NEW c \in Client, Written(c)
  PROVE  TypeInv'
<1>1. /\ out[c].sending # <<>>
      /\ out' = [out EXCEPT ![c].sending = Tail(@), ![c].bytes = @ - Total(Head(out[c].sending))]
      /\ UNCHANGED <<log, strict, stack, order, attaching, cut, mode, at, cause, wire, client, tries>>
  BY DEF Written
<1>2. ConnectionOk(c) /\ OutboxOk(out[c]) /\ out[c] \in Outbox /\ ConnectionsOk /\ ClientsOk
  BY Now
<1>3. PICK o : o = Reported(out[c])
  OBVIOUS
<1>4. OutboxOk(o) /\ o.held = out[c].held /\ o \in Outbox
  <2>1. OutboxOk(o) /\ o.held = out[c].held
    BY <1>1, <1>2, <1>3, Reports
  <2> QED BY <2>1 DEF OutboxOk
<1>5. HeldOk(o, Source.rev)
  BY <1>2, <1>4 DEF ConnectionOk, HeldOk
<1>6. out' = [out EXCEPT ![c] = o]
  BY <1>1, <1>2, <1>3 DEF ConnectionsOk, Reported
<1>7. ClientsOk' /\ mode[c] # "closed"
  BY <1>1, <1>2, ClosedIsIdle DEF ClientsOk
<1> QED BY <1>1, <1>4, <1>5, <1>6, <1>7, TransportTypes

\* A socket drains.
LEMMA DrainTypes ==
  ASSUME TypeInv, NEW c \in Client, Drain(c)
  PROVE  TypeInv'
<1>1. /\ out[c].blocked /\ out' = [out EXCEPT ![c] = Drained(@)]
      /\ UNCHANGED <<log, strict, stack, order, attaching, cut, mode, at, cause, wire, client, tries>>
  BY DEF Drain
<1>2. ConnectionOk(c) /\ OutboxOk(out[c]) /\ out[c] \in Outbox /\ ConnectionsOk /\ ClientsOk
  BY Now
<1>3. PICK o : o = Drained(out[c])
  OBVIOUS
<1>4. OutboxOk(o) /\ o.held = out[c].held /\ o \in Outbox
  <2>1. OutboxOk(o) /\ o.held = out[c].held
    BY <1>2, <1>3, Drains
  <2> QED BY <2>1 DEF OutboxOk
<1>5. HeldOk(o, Source.rev)
  BY <1>2, <1>4 DEF ConnectionOk, HeldOk
<1>6. out' = [out EXCEPT ![c] = o]
  BY <1>1, <1>2, <1>3 DEF ConnectionsOk
<1>7. ClientsOk' /\ mode[c] # "closed"
  BY <1>1, <1>2, ClosedIsIdle DEF ClientsOk
<1> QED BY <1>1, <1>4, <1>5, <1>6, <1>7, TransportTypes

\* A connection is hung up.
LEMMA HangTypes ==
  ASSUME TypeInv, NEW c \in Client, Hang(c)
  PROVE  TypeInv'
<1>1. Close(c, "closed", stack) /\ wire' = [wire EXCEPT ![c] = <<>>]
      /\ UNCHANGED <<attaching, cut, client, tries>>
  BY DEF Hang
<1>2. ClientsOk /\ StackOk(stack, Source.rev)
  BY Now
<1>3. Advanced /\ OrderOk' /\ ConnectionsOk'
  BY <1>1, <1>2, Closes
<1>4. ClientsOk'
  <2>1. PICK nil \in Seq(Frame) : nil = <<>>
    <3>1. <<>> \in Seq(Frame)
      OBVIOUS
    <3> QED BY <3>1
  <2>2. wire' = [wire EXCEPT ![c] = nil]
    BY <1>1, <2>1
  <2>3. wire' \in [Client -> Seq(Frame)]
    BY <1>2, <2>2 DEF ClientsOk
  <2> QED BY <1>1, <1>2, <2>3 DEF ClientsOk
<1>5. (attaching \in Client \cup {NoClient})'
  BY <1>1 DEF TypeInv
<1> QED BY <1>3, <1>4, <1>5 DEF TypeInv, Advanced

\* A client reads a frame.
LEMMA ReadTypes ==
  ASSUME TypeInv, NEW c \in Client, Read(c)
  PROVE  TypeInv'
<1>1. /\ wire[c] # <<>> /\ client' = [client EXCEPT ![c] = Digest(@, Head(wire[c]))]
      /\ wire' = [wire EXCEPT ![c] = Tail(@)]
      /\ UNCHANGED <<log, strict, stack, order, attaching, cut, mode, at, out, cause, tries>>
  BY DEF Read
<1>2. ClientsOk
  BY Now
<1>3. PICK w \in Seq(Frame), k \in Viewer : w = wire[c] /\ k = client[c]
  BY <1>2 DEF ClientsOk
<1>4. Head(w) \in Frame /\ Tail(w) \in Seq(Frame)
  BY <1>1, <1>3, Starts
<1>5. Digest(k, Head(w)) \in Viewer
  BY <1>4, DigestTypes
<1>6. client' \in [Client -> Viewer] /\ wire' \in [Client -> Seq(Frame)]
  BY <1>1, <1>2, <1>3, <1>4, <1>5 DEF ClientsOk
<1>7. ClientsOk'
  BY <1>1, <1>2, <1>6 DEF ClientsOk
<1> QED BY <1>1, <1>7, TransportTypes

\* The types hold at first.
LEMMA InitTypes == ASSUME Init PROVE TypeInv
<1>1. PICK s \in State : s = [rev |-> 0, done |-> 0, off |-> 0, lost |-> FALSE] /\ s.rev = 0
  <2>1. [rev |-> 0, done |-> 0, off |-> 0, lost |-> FALSE] \in State
    BY DEF State
  <2> QED BY <2>1
<1>2. log = <<s>> /\ Source = s /\ LogOk
  BY <1>1 DEF Init, Source, Last, LogOk
<1>3. SessionOk
  <2>1. stack \in Seq(Publication) /\ DOMAIN stack = {}
    BY DEF Init
  <2> QED BY <1>2, <2>1 DEF SessionOk, StackOk, Init
<1>4. OrderOk
  BY DEF Init, OrderOk, Bound, IsInjective, ToSet
<1>5. ConnectionsOk
  BY <1>1, <1>2, EmptyOk, EmptyHolds DEF Init, ConnectionsOk, ConnectionOk, OutboxOk, Modes
<1>6. ClientsOk
  <2>1. <<>> \in Seq(Frame) /\ 0 \in 0 .. MaxAttach
    BY FanoutAssumption
  <2>2. Idle \in Viewer
    <3>1. PICK nil \in Seq(Event) : nil = <<>>
      <4>1. <<>> \in Seq(Event)
        OBVIOUS
      <4> QED BY <4>1
    <3>2. Idle = [view |-> NoView, status |-> "none", kept |-> nil]
      BY <3>1 DEF Idle
    <3> QED BY <3>2, StatesAreShown DEF Viewer
  <2> QED BY <2>1, <2>2 DEF Init, ClientsOk
<1> QED BY <1>3, <1>4, <1>5, <1>6 DEF TypeInv, Init

\* Every step keeps them.
LEMMA NextTypes == ASSUME TypeInv, [Next]_vars PROVE TypeInv'
<1>1. CASE Produce \/ Deliver \/ Delivered
  BY <1>1, ProduceTypes, DeliverTypes, DeliveredTypes
<1>2. ASSUME NEW c \in Client, Attach(c) \/ Detach(c) \/ Transport(c)
      PROVE  TypeInv'
  <2>1. CASE Attach(c)
    BY <2>1, AskTypes, SubscribeTypes, CaptureTypes, SettleTypes, AbandonTypes DEF Attach
  <2>2. CASE Detach(c)
    BY <2>2, DetachTypes
  <2>3. CASE Transport(c)
    BY <2>3, FlushTypes, WrittenTypes, DrainTypes, HangTypes, ReadTypes DEF Transport
  <2> QED BY <1>2, <2>1, <2>2, <2>3
<1>3. CASE UNCHANGED vars
  BY <1>3 DEF vars, TypeInv, SessionOk, LogOk, Source, OrderOk, Bound, ConnectionsOk, ConnectionOk,
              ClientsOk
<1> QED BY <1>1, <1>2, <1>3 DEF Next

\* They are what the runs check: the types, and the accounting of the limits.
LEMMA TypesHold == ASSUME TypeInv PROVE TypeOK /\ Accounting
<1>1. /\ SessionOk /\ OrderOk /\ ConnectionsOk /\ ClientsOk /\ Source.rev \in Nat
  BY Now
<1>2. TypeOK
  <2>1. at \in [Client -> 0 .. Source.rev]
    BY <1>1 DEF ConnectionsOk, ConnectionOk
  <2>2. \A c \in Client : /\ out[c].bytes \in 0 .. ByteLimit /\ out[c].blocked \in BOOLEAN
                          /\ out[c].scheduled \in BOOLEAN
    BY <1>1, FanoutAssumption DEF ConnectionsOk, ConnectionOk, OutboxOk, Outbox
  <2>3. \A c \in Client : client[c].status \in {"none", "awaiting", "live"} /\ tries[c] \in 0 .. MaxAttach
    BY <1>1 DEF ClientsOk, Viewer
  <2> QED BY <1>1, <2>1, <2>2, <2>3 DEF TypeOK, TypeInv, SessionOk, OrderOk, ConnectionsOk, Modes
<1>3. Accounting
  <2> SUFFICES ASSUME NEW c \in Client
               PROVE  /\ out[c].bytes = Total(out[c].held \o out[c].queue \o Unwritten(out[c]))
                      /\ Frames(out[c]) <= FrameLimit
                      /\ mode[c] = "closed" => out[c] = Empty
    BY DEF Accounting
  <2>1. out[c] \in Outbox /\ OutboxOk(out[c]) /\ ConnectionOk(c)
    BY Now
  <2> QED BY <2>1, OutboxParts DEF OutboxOk, ConnectionOk
<1> QED BY <1>2, <1>3

\* The outboxes of a fan-out hold their types and their counters: the bytes
\* charged are those of the frames it still tracks, through merges,
\* releases, write callbacks and the cutover, both limits hold, and a closed
\* connection keeps nothing (fanout.ts:139-142, 154-165).
THEOREM Accounted == Spec => [](TypeOK /\ Accounting)
<1>1. Init => TypeInv
  BY InitTypes
<1>2. TypeInv /\ [Next]_vars => TypeInv'
  BY NextTypes
<1>3. TypeInv => TypeOK /\ Accounting
  BY TypesHold
<1> QED BY <1>1, <1>2, <1>3, PTL DEF Spec
-----------------------------------------------------------------------------
(* States follow one another: the order in which a session goes through    *)
(* them, what an event adds, and what a state already has.                 *)
\* One state is no later than another.
Before(s, t) ==
  /\ s.rev <= t.rev
  /\ \/ s.done < t.done
     \/ s.done = t.done /\ (s.lost => t.lost) /\ (t.lost \/ s.off <= t.off)

\* A state already has what an event tells.
Past(e, s) ==
  \/ e.kind = "rev" /\ e.rev <= s.rev
  \/ /\ e.kind = "text"
     /\ e.msg <= s.done \/ (e.msg = s.done + 1 /\ (s.lost \/ e.from + e.len <= s.off))

\* An event leads from one state to the next.
Follows(s, e, t) ==
  \/ e.kind = "rev" /\ e.rev = s.rev + 1 /\ t = Changed(s, e.change)
  \/ e.kind = "text" /\ e.msg = s.done + 1 /\ e.from = s.off /\ ~s.lost /\ t = Longer(s, e.len)

\* The fields of an event.
LEMMA EventParts ==
  ASSUME NEW e \in Event
  PROVE  \/ e \in RevEvent /\ e.kind = "rev" /\ e.rev \in Nat /\ e.change \in Changes
         \/ /\ e \in TextEvent /\ e.kind = "text" /\ e.msg \in Nat /\ e.from \in Nat
            /\ e.len \in Nat /\ e.len # 0
  BY DEF Event, RevEvent, TextEvent

\* The fields of a state.
LEMMA StateParts ==
  ASSUME NEW s \in State
  PROVE  s.rev \in Nat /\ s.done \in Nat /\ s.off \in Nat /\ (s.lost = TRUE \/ s.lost = FALSE)
  BY DEF State

\* The fields of the state behind a change.
LEMMA ChangedParts ==
  ASSUME NEW s, NEW change
  PROVE  /\ Changed(s, change).rev = s.rev + 1
         /\ Changed(s, change).done = IF change = "completed" THEN s.done + 1 ELSE s.done
         /\ Changed(s, change).off = IF change \in {"completed", "lost"} THEN 0 ELSE s.off
         /\ Changed(s, change).lost = IF change = "completed" THEN FALSE ELSE s.lost \/ change = "lost"
  BY DEF Changed

\* The order.
LEMMA BeforeSame == ASSUME NEW s \in State PROVE Before(s, s)
<1>1. s.rev \in Nat /\ s.off \in Nat /\ (s.lost => s.lost)
  BY StateParts
<1> QED BY <1>1 DEF Before

\* The order is transitive.
LEMMA BeforeOn ==
  ASSUME NEW s \in State, NEW t \in State, NEW u \in State, Before(s, t), Before(t, u)
  PROVE  Before(s, u)
<1>1. /\ s.rev \in Nat /\ s.done \in Nat /\ s.off \in Nat
      /\ t.rev \in Nat /\ t.done \in Nat /\ t.off \in Nat
      /\ u.rev \in Nat /\ u.done \in Nat /\ u.off \in Nat
  BY StateParts
<1> QED BY <1>1 DEF Before

\* What a state has, later ones have.
LEMMA PastOn ==
  ASSUME NEW s \in State, NEW t \in State, Before(s, t), NEW e \in Event, Past(e, s)
  PROVE  Past(e, t)
<1>1. /\ s.rev \in Nat /\ s.done \in Nat /\ s.off \in Nat
      /\ t.rev \in Nat /\ t.done \in Nat /\ t.off \in Nat
  BY StateParts
<1>2. CASE e \in RevEvent /\ e.kind = "rev" /\ e.rev \in Nat
  BY <1>1, <1>2 DEF Before, Past
<1>3. CASE e.kind = "text" /\ e.msg \in Nat /\ e.from \in Nat /\ e.len \in Nat
  BY <1>1, <1>3 DEF Before, Past
<1> QED BY <1>2, <1>3, EventParts

\* A change comes later.
LEMMA ChangesOn ==
  ASSUME NEW s \in State, NEW change \in Changes
  PROVE  Before(s, Changed(s, change))
<1>1. s.rev \in Nat /\ s.done \in Nat /\ s.off \in Nat
  BY StateParts
<1>2. PICK t : t = Changed(s, change)
  OBVIOUS
<1>3. CASE change = "completed"
  <2>1. t.rev = s.rev + 1 /\ t.done = s.done + 1
    BY <1>2, <1>3, ChangedParts
  <2> QED BY <1>1, <1>2, <2>1 DEF Before
<1>4. CASE change = "lost"
  <2>1. t.rev = s.rev + 1 /\ t.done = s.done /\ t.lost
    BY <1>2, <1>4, ChangedParts
  <2> QED BY <1>1, <1>2, <2>1 DEF Before
<1>5. CASE change \notin {"completed", "lost"}
  <2>1. t.rev = s.rev + 1 /\ t.done = s.done /\ t.off = s.off /\ (s.lost => t.lost)
    BY <1>2, <1>5, ChangedParts
  <2> QED BY <1>1, <1>2, <2>1 DEF Before
<1> QED BY <1>3, <1>4, <1>5

\* An event that follows a state leads to a later one, which has it.
LEMMA FollowsOn ==
  ASSUME NEW s \in State, NEW e \in Event, NEW t, Follows(s, e, t)
  PROVE  t \in State /\ Before(s, t) /\ Past(e, t)
<1>1. CASE e.kind = "rev"
  <2>1. t = Changed(s, e.change) /\ e.rev = s.rev + 1 /\ e.change \in Changes
    BY <1>1, EventParts DEF Follows
  <2>2. t \in State /\ t.rev = s.rev + 1
    BY <2>1, Changing
  <2>3. Before(s, t)
    BY <2>1, ChangesOn
  <2>4. Past(e, t)
    <3>1. e.rev \in Nat /\ e.rev <= t.rev
      <4>1. s.rev \in Nat
        BY StateParts
      <4> QED BY <2>1, <2>2, <4>1
    <3> QED BY <1>1, <3>1 DEF Past
  <2> QED BY <2>2, <2>3, <2>4
<1>2. CASE e.kind = "text"
  <2>1. /\ t = Longer(s, e.len) /\ e.msg = s.done + 1 /\ e.from = s.off /\ ~s.lost
        /\ e.len \in Nat \ {0}
    BY <1>2, EventParts DEF Follows
  <2>2. t \in State /\ t.rev = s.rev /\ t.done = s.done /\ t.lost = s.lost /\ t.off = s.off + e.len
    BY <2>1, Lengthens
  <2>3. s.rev \in Nat /\ s.done \in Nat /\ s.off \in Nat
    BY StateParts
  <2>4. Before(s, t)
    BY <2>1, <2>2, <2>3 DEF Before
  <2>5. Past(e, t)
    BY <1>2, <2>1, <2>2, <2>3 DEF Past
  <2> QED BY <2>2, <2>4, <2>5
<1> QED BY <1>1, <1>2, EventParts

\* What a client makes of an event that it has: nothing.
LEMMA PastPlaced ==
  ASSUME NEW s \in State, NEW e \in Event, Past(e, s)
  PROVE  Placed(s, e) = s
<1>1. s.rev \in Nat /\ s.done \in Nat /\ s.off \in Nat
  BY StateParts
<1>2. CASE e.kind = "rev"
  <2>1. e.rev \in Nat /\ e.rev <= s.rev
    BY <1>2, EventParts DEF Past
  <2>2. ~(e.rev = s.rev + 1)
    BY <1>1, <2>1
  <2> QED BY <1>2, <2>1, <2>2 DEF Placed
<1>3. CASE e.kind = "text"
  <2>1. Classify(s, e) \in {"ignore", "duplicate"}
    <3>1. e.msg \in Nat /\ e.from \in Nat /\ e.len \in Nat /\ e.len # 0
      BY <1>3, EventParts
    <3> QED BY <1>1, <1>3, <3>1 DEF Past, Classify
  <2> QED BY <1>3, <2>1 DEF Placed
<1> QED BY <1>2, <1>3, EventParts

\* and of one that follows: the next state.
LEMMA FollowsPlaced ==
  ASSUME NEW s \in State, NEW e \in Event, NEW t, Follows(s, e, t)
  PROVE  Placed(s, e) = t /\ t # NoView
<1>1. t \in State /\ t # NoView
  <2>1. t \in State
    BY FollowsOn
  <2>2. t.rev \in Nat
    BY <2>1, StateParts
  <2>3. NoView.rev = -1
    BY DEF NoView
  <2> QED BY <2>1, <2>2, <2>3
<1>2. s.rev \in Nat /\ s.done \in Nat /\ s.off \in Nat
  BY StateParts
<1>3. CASE e.kind = "rev"
  <2>1. e.rev = s.rev + 1 /\ t = Changed(s, e.change)
    BY <1>3 DEF Follows
  <2>2. ~(e.rev <= s.rev)
    BY <1>2, <2>1
  <2> QED BY <1>1, <1>3, <2>1, <2>2 DEF Placed
<1>4. CASE e.kind = "text"
  <2>1. Classify(s, e) = "append"
    <3>1. e.msg = s.done + 1 /\ e.from = s.off /\ ~s.lost
      BY <1>4 DEF Follows
    <3> QED BY <1>2, <3>1 DEF Classify
  <2>2. t = Longer(s, e.len)
    BY <1>4 DEF Follows
  <2> QED BY <1>1, <1>4, <2>1, <2>2 DEF Placed, Longer
<1> QED BY <1>1, <1>3, <1>4, EventParts

-----------------------------------------------------------------------------
(* Paths: what frames lead a client through, state by state, in a set W of *)
(* states.                                                                 *)
Step(s, e, t) == \/ e.kind = "snap" /\ t = e.state /\ Before(s, t)
                 \/ Follows(s, e, t)

\* Frames that lead from one state to another.
Path(W, a, q, b) == \E p \in [0 .. Len(q) -> W] :
  /\ p[0] = a /\ p[Len(q)] = b
  /\ \A i \in 1 .. Len(q) : Step(p[i - 1], q[i], p[i])

\* A step leads to a later state.
LEMMA StepOn ==
  ASSUME NEW s \in State, NEW e \in Frame, NEW t \in State, Step(s, e, t)
  PROVE  Before(s, t)
<1>1. CASE Follows(s, e, t)
  <2>1. e \in Event
    BY <1>1 DEF Follows, Frame
  <2> QED BY <1>1, <2>1, FollowsOn
<1> QED BY <1>1 DEF Step

\* No frames lead nowhere.
LEMMA PathNone ==
  ASSUME NEW W, NEW a, NEW b
  PROVE  Path(W, a, <<>>, b) <=> a \in W /\ a = b
<1>1. 1 .. 0 = {} /\ 0 .. 0 = {0} /\ Len(<<>>) = 0
  OBVIOUS
<1>2. ASSUME Path(W, a, <<>>, b) PROVE a \in W /\ a = b
  BY <1>1, <1>2 DEF Path
<1>3. ASSUME a \in W, a = b PROVE Path(W, a, <<>>, b)
  <2>1. PICK p : p = [i \in 0 .. 0 |-> a]
    OBVIOUS
  <2>2. p \in [0 .. 0 -> W] /\ p[0] = a
    BY <1>1, <1>3, <2>1
  <2> QED BY <1>1, <1>3, <2>2 DEF Path
<1> QED BY <1>2, <1>3

\* One frame leads a step.
LEMMA PathOne ==
  ASSUME NEW W, NEW a \in W, NEW b \in W, NEW e, Step(a, e, b)
  PROVE  Path(W, a, <<e>>, b)
<1>1. PICK p : p = [i \in 0 .. 1 |-> IF i = 0 THEN a ELSE b]
  OBVIOUS
<1>2. p \in [0 .. 1 -> W] /\ p[0] = a /\ p[1] = b
  BY <1>1
<1>3. Len(<<e>>) = 1 /\ <<e>>[1] = e
  OBVIOUS
<1>4. \A i \in 1 .. 1 : i = 1 /\ i - 1 = 0
  OBVIOUS
<1>5. \A i \in 1 .. 1 : Step(p[i - 1], <<e>>[i], p[i])
  BY <1>2, <1>3, <1>4
<1> QED BY <1>2, <1>3, <1>5 DEF Path

\* The ends of a path.
LEMMA PathEnds ==
  ASSUME NEW W, NEW E, NEW q \in Seq(E), NEW a, NEW b, Path(W, a, q, b)
  PROVE  a \in W /\ b \in W
<1>1. Len(q) \in Nat
  OBVIOUS
<1>2. 0 \in 0 .. Len(q) /\ Len(q) \in 0 .. Len(q)
  BY <1>1
<1> QED BY <1>2 DEF Path

\* More states, more paths.
LEMMA PathWide ==
  ASSUME NEW W, NEW V, W \subseteq V, NEW E, NEW q \in Seq(E), NEW a, NEW b, Path(W, a, q, b)
  PROVE  Path(V, a, q, b)
<1>1. PICK p \in [0 .. Len(q) -> W] :
        /\ p[0] = a /\ p[Len(q)] = b
        /\ \A i \in 1 .. Len(q) : Step(p[i - 1], q[i], p[i])
  BY DEF Path
<1>2. p \in [0 .. Len(q) -> V]
  OBVIOUS
<1> QED BY <1>1, <1>2 DEF Path

\* A path and one that starts where it ends.
LEMMA PathJoin ==
  ASSUME NEW W, NEW E, NEW q \in Seq(E), NEW r \in Seq(E), NEW a, NEW b, NEW c,
         Path(W, a, q, b), Path(W, b, r, c)
  PROVE  Path(W, a, q \o r, c)
<1>1. PICK u \in [0 .. Len(q) -> W] :
        /\ u[0] = a /\ u[Len(q)] = b
        /\ \A i \in 1 .. Len(q) : Step(u[i - 1], q[i], u[i])
  BY DEF Path
<1>2. PICK v \in [0 .. Len(r) -> W] :
        /\ v[0] = b /\ v[Len(r)] = c
        /\ \A i \in 1 .. Len(r) : Step(v[i - 1], r[i], v[i])
  BY DEF Path
<1>3. PICK m \in Nat, n \in Nat : m = Len(q) /\ n = Len(r)
  BY Glues
<1>4. PICK s : s = q \o r
  OBVIOUS
<1>5. /\ Len(s) = m + n
      /\ \A i \in 1 .. m : s[i] = q[i]
      /\ \A i \in 1 .. n : s[m + i] = r[i]
  BY <1>3, <1>4, Glues
<1>6. PICK p : p = [i \in 0 .. (m + n) |-> IF i <= m THEN u[i] ELSE v[i - m]]
  OBVIOUS
<1>7. /\ p \in [0 .. (m + n) -> W]
      /\ \A i \in 0 .. m : p[i] = u[i]
      /\ \A i \in 0 .. n : p[m + i] = v[i]
  <2>1. \A i \in 0 .. (m + n) : i <= m => i \in 0 .. m
    OBVIOUS
  <2>2. \A i \in 0 .. (m + n) : ~(i <= m) => i - m \in 0 .. n
    OBVIOUS
  <2>3. p \in [0 .. (m + n) -> W]
    BY <1>3, <1>6, <2>1, <2>2
  <2>4. \A i \in 0 .. m : p[i] = u[i]
    <3>1. \A i \in 0 .. m : i \in 0 .. (m + n) /\ i <= m
      OBVIOUS
    <3> QED BY <1>6, <3>1
  <2>5. \A i \in 0 .. n : p[m + i] = v[i]
    <3> SUFFICES ASSUME NEW i \in 0 .. n
                 PROVE  p[m + i] = v[i]
      OBVIOUS
    <3>1. m + i \in 0 .. (m + n) /\ (m + i <= m <=> i = 0) /\ (m + i) - m = i /\ m + 0 = m
      OBVIOUS
    <3>2. CASE i = 0
      BY <1>1, <1>2, <1>3, <1>6, <3>1, <3>2
    <3>3. CASE i # 0
      BY <1>6, <3>1, <3>3
    <3> QED BY <3>2, <3>3
  <2> QED BY <2>3, <2>4, <2>5
<1>8. p[0] = a /\ p[m + n] = c
  <2>1. 0 \in 0 .. m /\ n \in 0 .. n
    OBVIOUS
  <2> QED BY <1>1, <1>2, <1>3, <1>7, <2>1
<1>9. ASSUME NEW i \in 1 .. (m + n)
      PROVE  Step(p[i - 1], s[i], p[i])
  <2>1. CASE i <= m
    <3>1. i \in 1 .. m /\ i \in 0 .. m /\ i - 1 \in 0 .. m
      BY <2>1
    <3> QED BY <1>1, <1>3, <1>5, <1>7, <3>1
  <2>2. CASE ~(i <= m)
    <3>1. PICK j \in 1 .. n : i = m + j
      <4>1. i - m \in 1 .. n /\ i = m + (i - m)
        BY <2>2
      <4> QED BY <4>1
    <3>2. j \in 0 .. n /\ j - 1 \in 0 .. n /\ i - 1 = m + (j - 1)
      BY <3>1
    <3>3. p[i] = v[j] /\ p[i - 1] = v[j - 1]
      BY <1>7, <3>1, <3>2
    <3>4. s[i] = r[j]
      BY <1>5, <3>1
    <3>5. Step(v[j - 1], r[j], v[j])
      BY <1>2, <1>3
    <3> QED BY <3>3, <3>4, <3>5
  <2> QED BY <2>1, <2>2
<1>10. Path(W, a, s, c)
  BY <1>5, <1>7, <1>8, <1>9 DEF Path
<1> QED BY <1>4, <1>10

\* A path through two sequences passes through a state in between.
LEMMA PathSplit ==
  ASSUME NEW W, NEW E, NEW q \in Seq(E), NEW r \in Seq(E), NEW a, NEW c, Path(W, a, q \o r, c)
  PROVE  \E b \in W : Path(W, a, q, b) /\ Path(W, b, r, c)
<1>1. PICK s : s = q \o r
  OBVIOUS
<1>2. PICK m \in Nat, n \in Nat : m = Len(q) /\ n = Len(r)
  BY Glues
<1>3. /\ Len(s) = m + n
      /\ \A i \in 1 .. m : s[i] = q[i]
      /\ \A i \in 1 .. n : s[m + i] = r[i]
  BY <1>1, <1>2, Glues
<1>4. PICK p \in [0 .. (m + n) -> W] :
        /\ p[0] = a /\ p[m + n] = c
        /\ \A i \in 1 .. (m + n) : Step(p[i - 1], s[i], p[i])
  <2>1. Path(W, a, s, c)
    BY <1>1
  <2> QED BY <1>3, <2>1 DEF Path
<1>5. m \in 0 .. (m + n) /\ p[m] \in W
  OBVIOUS
<1>6. Path(W, a, q, p[m])
  <2>1. PICK u : u = [i \in 0 .. m |-> p[i]]
    OBVIOUS
  <2>2. u \in [0 .. m -> W]
    BY <2>1
  <2>3. 0 \in 0 .. m /\ m \in 0 .. m
    OBVIOUS
  <2>4. u[0] = a /\ u[m] = p[m]
    BY <1>4, <2>1, <2>3
  <2>5. ASSUME NEW i \in 1 .. m PROVE Step(u[i - 1], q[i], u[i])
    <3>1. i \in 1 .. (m + n) /\ i \in 0 .. m /\ i - 1 \in 0 .. m
      OBVIOUS
    <3>2. u[i] = p[i] /\ u[i - 1] = p[i - 1] /\ s[i] = q[i]
      BY <1>3, <2>1, <3>1
    <3>3. Step(p[i - 1], s[i], p[i])
      BY <1>4, <3>1
    <3> QED BY <3>2, <3>3
  <2> QED BY <1>2, <2>2, <2>4, <2>5 DEF Path
<1>7. Path(W, p[m], r, c)
  <2>1. PICK v : v = [i \in 0 .. n |-> p[m + i]]
    OBVIOUS
  <2>2. v \in [0 .. n -> W]
    BY <2>1
  <2>3. 0 \in 0 .. n /\ n \in 0 .. n /\ m + 0 = m
    OBVIOUS
  <2>4. v[0] = p[m] /\ v[n] = c
    BY <1>4, <2>1, <2>3
  <2>5. ASSUME NEW i \in 1 .. n PROVE Step(v[i - 1], r[i], v[i])
    <3>1. m + i \in 1 .. (m + n) /\ i \in 0 .. n /\ i - 1 \in 0 .. n /\ (m + i) - 1 = m + (i - 1)
      OBVIOUS
    <3>2. v[i] = p[m + i] /\ v[i - 1] = p[(m + i) - 1] /\ s[m + i] = r[i]
      BY <1>3, <2>1, <3>1
    <3>3. Step(p[(m + i) - 1], s[m + i], p[m + i])
      BY <1>4, <3>1
    <3> QED BY <3>2, <3>3
  <2> QED BY <1>2, <2>2, <2>4, <2>5 DEF Path
<1> QED BY <1>5, <1>6, <1>7

\* A path of one frame is a step.
LEMMA PathStep ==
  ASSUME NEW W, NEW e, NEW a, NEW b, Path(W, a, <<e>>, b)
  PROVE  a \in W /\ b \in W /\ Step(a, e, b)
<1>1. Len(<<e>>) = 1 /\ <<e>>[1] = e /\ 1 \in 1 .. 1 /\ 1 - 1 = 0 /\ 0 \in 0 .. 1 /\ 1 \in 0 .. 1
  OBVIOUS
<1>2. PICK p \in [0 .. 1 -> W] :
        /\ p[0] = a /\ p[1] = b /\ \A i \in 1 .. 1 : Step(p[i - 1], <<e>>[i], p[i])
  BY <1>1 DEF Path
<1>3. Step(p[1 - 1], <<e>>[1], p[1])
  BY <1>1, <1>2
<1> QED BY <1>1, <1>2, <1>3

\* A path leads to a later state.
LEMMA PathOn ==
  ASSUME NEW W \in SUBSET State, NEW q \in Seq(Frame), NEW a, NEW b, Path(W, a, q, b)
  PROVE  Before(a, b)
<1>1. PICK p \in [0 .. Len(q) -> W] :
        /\ p[0] = a /\ p[Len(q)] = b
        /\ \A i \in 1 .. Len(q) : Step(p[i - 1], q[i], p[i])
  BY DEF Path
<1>2. PICK n \in Nat : n = Len(q)
  BY Glues
<1>3. \A i \in 0 .. n : p[i] \in State
  BY <1>2
<1> DEFINE Good == {m \in Nat : m <= n => Before(a, p[m])}
<1>4. 0 \in Good
  <2>1. 0 \in 0 .. n
    OBVIOUS
  <2> QED BY <1>1, <1>3, <2>1, BeforeSame
<1>5. ASSUME NEW m \in Nat, m \in Good PROVE m + 1 \in Good
  <2> SUFFICES ASSUME m + 1 <= n
               PROVE  Before(a, p[m + 1])
    OBVIOUS
  <2>1. m \in 0 .. n /\ m + 1 \in 0 .. n /\ m + 1 \in 1 .. n /\ (m + 1) - 1 = m /\ 0 \in 0 .. n
    OBVIOUS
  <2>2. Before(a, p[m])
    BY <1>5, <2>1
  <2>3. Step(p[m], q[m + 1], p[m + 1]) /\ q[m + 1] \in Frame
    BY <1>1, <1>2, <2>1
  <2>4. p[m] \in State /\ p[m + 1] \in State /\ a \in State
    BY <1>1, <1>3, <2>1
  <2>5. Before(p[m], p[m + 1])
    BY <2>3, <2>4, StepOn
  <2> QED BY <2>2, <2>4, <2>5, BeforeOn
<1>6. Nat \subseteq Good
  <2> HIDE DEF Good
  <2> QED BY <1>4, <1>5, NatSet
<1> QED BY <1>1, <1>2, <1>6

\* The stream, twice longer.
LEMMA LongerTwice ==
  ASSUME NEW s \in State, NEW n \in Nat \ {0}, NEW k \in Nat \ {0}
  PROVE  Longer(Longer(s, n), k) = Longer(s, n + k)
<1>1. PICK t : t = Longer(s, n)
  OBVIOUS
<1>2. t \in State /\ t.rev = s.rev /\ t.done = s.done /\ t.lost = s.lost /\ t.off = s.off + n
  BY <1>1, Lengthens
<1>3. PICK u : u = Longer(t, k)
  OBVIOUS
<1>4. u \in State /\ u.rev = s.rev /\ u.done = s.done /\ u.lost = s.lost /\ u.off = (s.off + n) + k
  BY <1>2, <1>3, Lengthens
<1>5. PICK v : v = Longer(s, n + k)
  OBVIOUS
<1>6. v \in State /\ v.rev = s.rev /\ v.done = s.done /\ v.lost = s.lost /\ v.off = s.off + (n + k)
  <2>1. n + k \in Nat \ {0}
    OBVIOUS
  <2> QED BY <1>5, <2>1, Lengthens
<1>7. (s.off + n) + k = s.off + (n + k)
  <2>1. s.off \in Nat
    BY StateParts
  <2> QED BY <2>1
<1> QED BY <1>1, <1>3, <1>4, <1>5, <1>6, <1>7 DEF State

\* Two deltas in a row are the delta that they merge into.
LEMMA FollowsTwice ==
  ASSUME NEW s \in State, NEW l \in TextEvent, NEW t, Follows(s, l, t),
         NEW e \in TextEvent, NEW u, Follows(t, e, u), NEW m, m = [l EXCEPT !.len = @ + e.len]
  PROVE  Follows(s, m, u)
<1>1. /\ l.kind = "text" /\ l.len \in Nat /\ l.len \in Nat \ {0}
      /\ e.kind = "text" /\ e.len \in Nat /\ e.len \in Nat \ {0}
  BY DEF TextEvent
<1>2. m.kind = "text" /\ m.msg = l.msg /\ m.from = l.from /\ m.len = l.len + e.len
  BY DEF TextEvent
<1>3. l.msg = s.done + 1 /\ l.from = s.off /\ ~s.lost /\ t = Longer(s, l.len)
  BY <1>1 DEF Follows
<1>4. u = Longer(t, e.len)
  BY <1>1 DEF Follows
<1>5. u = Longer(s, l.len + e.len)
  BY <1>1, <1>3, <1>4, LongerTwice
<1> QED BY <1>2, <1>3, <1>5 DEF Follows

\* Frames in front of others, and one behind them.
LEMMA GlueOn ==
  ASSUME NEW a \in Seq(Frame), NEW b \in Seq(Frame), NEW e \in Frame
  PROVE  /\ a \o (b \o <<e>>) = (a \o b) \o <<e>> /\ Append(b, e) = b \o <<e>>
         /\ <<e>> \in Seq(Frame) /\ a \o b \in Seq(Frame) /\ a \o Append(b, e) = (a \o b) \o <<e>>
<1>1. <<e>> \in Seq(Frame) /\ a \o b \in Seq(Frame) /\ Append(b, e) = b \o <<e>>
  OBVIOUS
<1>2. a \o (b \o <<e>>) = (a \o b) \o <<e>>
  BY <1>1
<1> QED BY <1>1, <1>2

\* The same prefix, another last frame.
LEMMA LastOf ==
  ASSUME NEW q \in Seq(Frame), q # <<>>, NEW p \in Seq(Frame), Len(p) = Len(q),
         \A i \in 1 .. (Len(q) - 1) : p[i] = q[i]
  PROVE  \E z \in Seq(Frame) : q = z \o <<q[Len(q)]>> /\ p = z \o <<p[Len(q)]>>
<1>1. SubSeq(p, 1, Len(q) - 1) = SubSeq(q, 1, Len(q) - 1)
  OBVIOUS
<1>2. q = SubSeq(q, 1, Len(q) - 1) \o <<q[Len(q)]>> /\ SubSeq(q, 1, Len(q) - 1) \in Seq(Frame)
  BY Ends
<1>3. p # <<>>
  OBVIOUS
<1>4. p = SubSeq(p, 1, Len(p) - 1) \o <<p[Len(p)]>>
  BY <1>3, Ends
<1>5. p = SubSeq(q, 1, Len(q) - 1) \o <<p[Len(q)]>>
  BY <1>1, <1>4, Zenon
<1> QED BY <1>2, <1>5, Zenon

\* A frame that joins a queue, behind it or in its last delta, leads on.
LEMMA PathJoined ==
  ASSUME NEW W \in SUBSET State, NEW w \in Seq(Frame), NEW q \in Seq(Frame), NEW e \in Frame, NEW p,
         NEW a, NEW b, Path(W, a, w \o q, b), NEW t \in W, Step(b, e, t), Joined(q, e, p)
  PROVE  Path(W, a, w \o p, t)
<1>1. w \o q \in Seq(Frame) /\ <<e>> \in Seq(Frame)
  BY GlueOn
<1>2. CASE p = Append(q, e)
  <2>1. b \in W
    BY <1>1, PathEnds
  <2>2. Path(W, b, <<e>>, t)
    BY <2>1, PathOne
  <2>3. Path(W, a, (w \o q) \o <<e>>, t)
    BY <1>1, <2>2, PathJoin
  <2>4. w \o p = (w \o q) \o <<e>>
    <3>1. w \o Append(q, e) = (w \o q) \o <<e>>
      BY GlueOn
    <3> QED BY <1>2, <3>1
  <2> QED BY <2>3, <2>4
<1>3. CASE p # Append(q, e)
  <2>1. /\ q # <<>> /\ q[Len(q)] \in TextEvent /\ e \in TextEvent
        /\ p \in Seq(Frame) /\ Len(p) = Len(q) /\ p[Len(q)] \in TextEvent
        /\ p[Len(q)] = [q[Len(q)] EXCEPT !.len = @ + e.len]
        /\ \A i \in 1 .. (Len(q) - 1) : p[i] = q[i]
    BY <1>3 DEF Joined
  <2>2. PICK z \in Seq(Frame) : q = z \o <<q[Len(q)]>> /\ p = z \o <<p[Len(q)]>>
    BY <2>1, LastOf
  <2>3. PICK l, m : l = q[Len(q)] /\ m = p[Len(q)]
    OBVIOUS
  <2>4. l \in TextEvent /\ m \in TextEvent /\ m = [l EXCEPT !.len = @ + e.len] /\ l \in Frame /\ m \in Frame
    BY <2>1, <2>3, EventsAreFrames DEF Event
  <2>5. w \o q = (w \o z) \o <<l>> /\ w \o p = (w \o z) \o <<m>> /\ w \o z \in Seq(Frame)
        /\ <<l>> \in Seq(Frame) /\ <<m>> \in Seq(Frame)
    <3>1. q = z \o <<l>> /\ p = z \o <<m>>
      BY <2>2, <2>3, Zenon
    <3>2. /\ w \o (z \o <<l>>) = (w \o z) \o <<l>> /\ w \o (z \o <<m>>) = (w \o z) \o <<m>>
          /\ w \o z \in Seq(Frame) /\ <<l>> \in Seq(Frame) /\ <<m>> \in Seq(Frame)
      <4>1. l \in Frame /\ m \in Frame
        BY <2>4
      <4> HIDE <2>4
      <4> QED BY <4>1, GlueOn
    <3> QED BY <3>1, <3>2, Zenon
  <2>6. Path(W, a, (w \o z) \o <<l>>, b)
    BY <2>5
  <2>7. PICK x \in W : Path(W, a, w \o z, x) /\ Path(W, x, <<l>>, b)
    BY <2>5, <2>6, PathSplit
  <2>8. Step(x, l, b) /\ b \in W
    BY <2>7, PathStep
  <2>9. Follows(x, l, b) /\ Follows(b, e, t)
    BY <2>4, <2>1, <2>8 DEF Step, TextEvent
  <2>10. x \in State
    OBVIOUS
  <2>11. Step(x, m, t)
    BY <2>1, <2>4, <2>9, <2>10, FollowsTwice DEF Step
  <2>12. Path(W, x, <<m>>, t)
    BY <2>11, PathOne
  <2>13. Path(W, a, (w \o z) \o <<m>>, t)
    BY <2>5, <2>7, <2>12, PathJoin
  <2> QED BY <2>5, <2>13
<1> QED BY <1>2, <1>3

\* A snapshot among the frames, which stays there until the client reads it.
Snapped(q) == \E i \in 1 .. Len(q) : q[i].kind = "snap"

\* A merge keeps the snapshot.
LEMMA SnappedJoined ==
  ASSUME NEW q \in Seq(Frame), Snapped(q), NEW e, NEW p, Joined(q, e, p)
  PROVE  Snapped(p)
<1>1. PICK i \in 1 .. Len(q) : q[i].kind = "snap"
  BY DEF Snapped
<1>2. CASE p = Append(q, e)
  <2>1. i \in 1 .. Len(p) /\ p[i] = q[i]
    BY <1>2
  <2> QED BY <1>1, <2>1 DEF Snapped
<1>3. CASE p # Append(q, e)
  <2>1. q[Len(q)] \in TextEvent /\ Len(p) = Len(q) /\ \A j \in 1 .. (Len(q) - 1) : p[j] = q[j]
    BY <1>3 DEF Joined
  <2>2. q[Len(q)].kind = "text"
    BY <2>1 DEF TextEvent
  <2>3. i # Len(q)
    BY <1>1, <2>2
  <2>4. i \in 1 .. (Len(q) - 1) /\ i \in 1 .. Len(p)
    BY <2>1, <2>3
  <2> QED BY <1>1, <2>1, <2>4 DEF Snapped
<1> QED BY <1>2, <1>3

\* So does what comes before or after it.
LEMMA SnappedEnd ==
  ASSUME NEW w \in Seq(Frame), NEW q \in Seq(Frame), Snapped(w) \/ Snapped(q)
  PROVE  Snapped(w \o q)
<1>1. CASE Snapped(w)
  <2>1. PICK i \in 1 .. Len(w) : w[i].kind = "snap"
    BY <1>1 DEF Snapped
  <2>2. i \in 1 .. Len(w \o q) /\ (w \o q)[i] = w[i]
    BY Glues
  <2> QED BY <2>1, <2>2 DEF Snapped
<1>2. CASE Snapped(q)
  <2>1. PICK i \in 1 .. Len(q) : q[i].kind = "snap"
    BY <1>2 DEF Snapped
  <2>2. Len(w) + i \in 1 .. Len(w \o q) /\ (w \o q)[Len(w) + i] = q[i]
    BY Glues
  <2> QED BY <2>1, <2>2 DEF Snapped
<1> QED BY <1>1, <1>2

-----------------------------------------------------------------------------
(* What a client has when it is at a state of its path: it shows that      *)
(* state or an earlier one, and the updates it keeps are in that state.    *)
Viewed(W, k, a) ==
  /\ k.view = NoView \/ (k.view \in W /\ Before(k.view, a))
  /\ \A i \in 1 .. Len(k.kept) : Past(k.kept[i], a)
  /\ k.status = "live" => k.view = a /\ k.kept = <<>>

\* A client at a state has what a later one needs, if it is not live.
LEMMA ViewedOn ==
  ASSUME NEW W \in SUBSET State, NEW k \in Viewer, NEW a \in W, NEW b \in W, Viewed(W, k, a), Before(a, b),
         k.status # "live"
  PROVE  Viewed(W, k, b)
<1>1. k.kept \in Seq(Event)
  BY DEF Viewer
<1>2. \A i \in 1 .. Len(k.kept) : k.kept[i] \in Event /\ Past(k.kept[i], a)
  BY <1>1 DEF Viewed
<1>3. \A i \in 1 .. Len(k.kept) : Past(k.kept[i], b)
  BY <1>2, PastOn
<1>4. k.view = NoView \/ (k.view \in W /\ Before(k.view, b))
  BY BeforeOn DEF Viewed
<1> QED BY <1>3, <1>4 DEF Viewed

\* Updates that a snapshot has change nothing of it.
LEMMA FreshUpdate ==
  ASSUME NEW s \in State, NEW e \in Event, Past(e, s)
  PROVE  Update(Fresh(s), e) = Fresh(s)
<1>1. Placed(s, e) = s
  BY PastPlaced
<1>2. s # NoView
  <2>1. s.rev \in Nat
    BY StateParts
  <2>2. NoView.rev = -1
    BY DEF NoView
  <2> QED BY <2>1, <2>2
<1>3. PICK k : k = Fresh(s)
  OBVIOUS
<1>4. k.view = s /\ k.status = "live" /\ [k EXCEPT !.view = s] = k
  BY <1>3 DEF Fresh
<1>5. Update(k, e) = k
  BY <1>1, <1>2, <1>4 DEF Update
<1> QED BY <1>3, <1>5

\* Nor do any number of them.
LEMMA FreshKept ==
  ASSUME NEW s \in State, NEW q \in Seq(Event), \A i \in 1 .. Len(q) : Past(q[i], s)
  PROVE  FoldLeft(Update, Fresh(s), q) = Fresh(s)
<1>1. Fresh(s) \in Viewer
  BY FreshTypes, StatesAreShown
<1>2. RunsTo(Viewer, Updating, Fresh(s), q, FoldLeft(Update, Fresh(s), q))
  BY <1>1, UpdateRuns
<1>3. PICK v \in [0 .. Len(q) -> Viewer] :
        /\ v[0] = Fresh(s) /\ FoldLeft(Update, Fresh(s), q) = v[Len(q)]
        /\ \A i \in 1 .. Len(q) : v[i] = Updating[<<v[i - 1], q[i]>>]
  BY <1>2 DEF RunsTo
<1>4. PICK n \in Nat : n = Len(q)
  OBVIOUS
<1> DEFINE Good == {m \in Nat : m <= n => v[m] = Fresh(s)}
<1>5. 0 \in Good
  BY <1>3
<1>6. ASSUME NEW m \in Nat, m \in Good PROVE m + 1 \in Good
  <2> SUFFICES ASSUME m + 1 <= n
               PROVE  v[m + 1] = Fresh(s)
    OBVIOUS
  <2>1. m + 1 \in 1 .. n /\ (m + 1) - 1 = m /\ m <= n
    OBVIOUS
  <2>2. v[m] = Fresh(s)
    BY <1>6, <2>1
  <2>3. q[m + 1] \in Event /\ Past(q[m + 1], s)
    BY <1>4, <2>1
  <2>4. v[m + 1] = Updating[<<Fresh(s), q[m + 1]>>]
    BY <1>3, <1>4, <2>1, <2>2
  <2>5. Updating[<<Fresh(s), q[m + 1]>>] = Update(Fresh(s), q[m + 1])
    BY <1>1, <2>3, UpdateRuns
  <2>6. Update(Fresh(s), q[m + 1]) = Fresh(s)
    BY <2>3, FreshUpdate
  <2> QED BY <2>4, <2>5, <2>6
<1>7. Nat \subseteq Good
  <2> HIDE DEF Good
  <2> QED BY <1>5, <1>6, NatSet
<1> QED BY <1>3, <1>4, <1>7

\* A client that reads a frame goes a step along its path.  What it shows
\* stays, or is the state it comes to (reducer.ts:141-164).
Digested(W, k, e, b, d) ==
  /\ Viewed(W, d, b) /\ d.view \in {k.view, b}
  /\ k.status = "live" => d.status = "live"
  /\ k.status # "none" => d.status # "none" /\ (e.kind = "snap" => d.status = "live")

\* A client that takes a step of a path is where the step leads.
LEMMA Digests ==
  ASSUME NEW W \in SUBSET State, NEW k \in Viewer, NEW e \in Frame, NEW a \in W, NEW b \in W,
         Viewed(W, k, a), Step(a, e, b)
  PROVE  Digested(W, k, e, b, Digest(k, e))
<1>1. Before(a, b) /\ a \in State /\ b \in State
  BY StepOn
<1>2. k.kept \in Seq(Event) /\ k.status \in {"none", "awaiting", "live"}
  BY DEF Viewer
<1>3. k.status # "live" => Viewed(W, k, b)
  BY <1>1, ViewedOn
<1>4. Before(b, b)
  BY <1>1, BeforeSame
<1>5. CASE e.kind # "snap"
  <2>1. Follows(a, e, b) /\ e \in Event
    BY <1>5 DEF Step, Frame
  <2>2. Digest(k, e) = Update(k, e)
    BY <1>5 DEF Digest
  <2>3. CASE k.status = "none"
    <3>1. Update(k, e) = k
      BY <2>3 DEF Update
    <3> QED BY <1>3, <2>2, <2>3, <3>1 DEF Digested
  <2>4. CASE k.status = "awaiting"
    <3>1. PICK d : d = [k EXCEPT !.kept = Append(k.kept, e)]
      OBVIOUS
    <3>2. d.view = k.view /\ d.status = "awaiting" /\ d.kept = Append(k.kept, e)
      BY <2>4, <3>1 DEF Viewer
    <3>3. Update(k, e) = d
      BY <2>4, <3>1 DEF Update
    <3>4. Past(e, b)
      BY <1>1, <2>1, FollowsOn
    <3>5. \A i \in 1 .. Len(k.kept) : Past(k.kept[i], b)
      BY <1>3, <2>4 DEF Viewed
    <3>6. PICK q : q = Append(k.kept, e)
      OBVIOUS
    <3>7. /\ \A i \in 1 .. Len(q) : i \in 1 .. Len(k.kept) \/ i = Len(k.kept) + 1
          /\ \A i \in 1 .. Len(k.kept) : q[i] = k.kept[i]
          /\ q[Len(k.kept) + 1] = e
      BY <1>2, <2>1, <3>6
    <3>8. \A i \in 1 .. Len(q) : Past(q[i], b)
      BY <3>4, <3>5, <3>7
    <3>9. k.view = NoView \/ (k.view \in W /\ Before(k.view, b))
      BY <1>3, <2>4 DEF Viewed
    <3>10. Viewed(W, d, b)
      BY <3>2, <3>6, <3>8, <3>9 DEF Viewed
    <3> QED BY <1>5, <2>2, <2>4, <3>2, <3>3, <3>10 DEF Digested
  <2>5. CASE k.status = "live"
    <3>1. k.view = a /\ k.kept = <<>>
      BY <2>5 DEF Viewed
    <3>2. Placed(k.view, e) = b /\ b # NoView
      BY <1>1, <2>1, <3>1, FollowsPlaced
    <3>3. PICK d : d = [k EXCEPT !.view = b]
      OBVIOUS
    <3>4. d.view = b /\ d.status = "live" /\ d.kept = <<>>
      BY <2>5, <3>1, <3>3 DEF Viewer
    <3>5. Update(k, e) = d
      BY <2>5, <3>2, <3>3 DEF Update
    <3>6. Viewed(W, d, b)
      BY <1>4, <3>4 DEF Viewed
    <3> QED BY <1>5, <2>2, <3>4, <3>5, <3>6 DEF Digested
  <2> QED BY <1>2, <2>3, <2>4, <2>5
<1>6. CASE e.kind = "snap"
  <2>1. e.state = b
    BY <1>6 DEF Step, Follows
  <2>2. Digest(k, e) = Adopt(k, b)
    BY <1>6, <2>1 DEF Digest
  <2>3. CASE k.status = "none"
    <3>1. Adopt(k, b) = k
      BY <2>3 DEF Adopt
    <3> QED BY <1>3, <2>2, <2>3, <3>1 DEF Digested
  <2>4. CASE k.status # "none"
    <3>1. \A i \in 1 .. Len(k.kept) : Past(k.kept[i], b)
      <4>1. CASE k.status = "live"
        <5>1. Len(k.kept) = 0 /\ 1 .. 0 = {}
          BY <4>1 DEF Viewed
        <5> QED BY <5>1
      <4>2. CASE k.status # "live"
        BY <1>3, <4>2 DEF Viewed
      <4> QED BY <4>1, <4>2
    <3>2. ~(b.rev < k.view.rev)
      <4>1. b.rev \in Nat
        BY <1>1, StateParts
      <4>2. CASE k.view = NoView
        BY <4>1, <4>2 DEF NoView
      <4>3. CASE k.view # NoView
        <5>1. k.view \in State /\ Before(k.view, a)
          BY <4>3 DEF Viewed
        <5>2. Before(k.view, b)
          BY <1>1, <5>1, BeforeOn
        <5>3. k.view.rev \in Nat
          BY <5>1, StateParts
        <5> QED BY <4>1, <5>2, <5>3 DEF Before
      <4> QED BY <4>2, <4>3
    <3>3. FoldLeft(Update, Fresh(b), k.kept) = Fresh(b)
      BY <1>1, <1>2, <3>1, FreshKept
    <3>4. Adopt(k, b) = Fresh(b)
      BY <2>4, <3>2, <3>3 DEF Adopt, Fresh
    <3>5. PICK d : d = Fresh(b)
      OBVIOUS
    <3>6. d.view = b /\ d.status = "live" /\ d.kept = <<>>
      BY <3>5 DEF Fresh
    <3>7. Len(<<>>) = 0 /\ 1 .. 0 = {}
      OBVIOUS
    <3>8. Viewed(W, d, b)
      BY <1>4, <3>6, <3>7 DEF Viewed
    <3> QED BY <2>2, <2>4, <3>4, <3>5, <3>6, <3>8 DEF Digested
  <2> QED BY <2>3, <2>4
<1> QED BY <1>5, <1>6

\* Reading one frame, as a function.
Digesting == [p \in Viewer \X Frame |-> Digest(p[1], p[2])]

\* What the frames of a path make of a client that is live, or that meets a
\* snapshot among them: one that shows where the path ends.
LEMMA Arrives ==
  ASSUME NEW W \in SUBSET State, NEW k \in Viewer, NEW q \in Seq(Frame), NEW a, NEW b, Path(W, a, q, b),
         Viewed(W, k, a), k.status = "live" \/ (k.status # "none" /\ Snapped(q))
  PROVE  FoldLeft(Digest, k, q) = Fresh(b)
<1>1. Digesting \in [Viewer \X Frame -> Viewer]
  BY DigestTypes DEF Digesting
<1>2. \A w \in Viewer, e \in Frame : Digesting[<<w, e>>] = Digest(w, e)
  BY DEF Digesting
<1>3. RunsTo(Viewer, Digesting, k, q, FoldLeft(Digest, k, q))
  BY <1>1, <1>2, DigestFold
<1>4. PICK v \in [0 .. Len(q) -> Viewer] :
        /\ v[0] = k /\ FoldLeft(Digest, k, q) = v[Len(q)]
        /\ \A i \in 1 .. Len(q) : v[i] = Digesting[<<v[i - 1], q[i]>>]
  BY <1>3 DEF RunsTo
<1>5. PICK p \in [0 .. Len(q) -> W] :
        /\ p[0] = a /\ p[Len(q)] = b
        /\ \A i \in 1 .. Len(q) : Step(p[i - 1], q[i], p[i])
  BY DEF Path
<1>6. PICK n \in Nat : n = Len(q)
  OBVIOUS
<1> DEFINE Due(m) == \E i \in 1 .. n : m < i /\ q[i].kind = "snap"
           Good == {m \in Nat : m <= n => /\ Viewed(W, v[m], p[m])
                                          /\ v[m].status = "live" \/ (v[m].status # "none" /\ Due(m))}
<1>7. 0 \in Good
  <2>1. Snapped(q) => Due(0)
    BY <1>6 DEF Snapped
  <2> QED BY <1>4, <1>5, <2>1
<1>8. ASSUME NEW m \in Nat, m \in Good PROVE m + 1 \in Good
  <2> SUFFICES ASSUME m + 1 <= n
               PROVE  /\ Viewed(W, v[m + 1], p[m + 1])
                      /\ v[m + 1].status = "live" \/ (v[m + 1].status # "none" /\ Due(m + 1))
    OBVIOUS
  <2>1. m + 1 \in 1 .. n /\ (m + 1) - 1 = m /\ m <= n /\ m \in 0 .. n /\ m + 1 \in 0 .. n
    OBVIOUS
  <2>2. Viewed(W, v[m], p[m]) /\ (v[m].status = "live" \/ (v[m].status # "none" /\ Due(m)))
    BY <1>8, <2>1
  <2>3. /\ v[m] \in Viewer /\ q[m + 1] \in Frame /\ p[m] \in W /\ p[m + 1] \in W
        /\ Step(p[m], q[m + 1], p[m + 1]) /\ v[m + 1] = Digesting[<<v[m], q[m + 1]>>]
    BY <1>4, <1>5, <1>6, <2>1
  <2>4. v[m + 1] = Digest(v[m], q[m + 1])
    BY <1>2, <2>3
  <2> HIDE DEF Due
  <2>5. Digested(W, v[m], q[m + 1], p[m + 1], v[m + 1])
    BY <2>2, <2>3, <2>4, Digests
  <2>6. Due(m) => q[m + 1].kind = "snap" \/ Due(m + 1)
    <3> SUFFICES ASSUME NEW i \in 1 .. n, m < i, q[i].kind = "snap", q[m + 1].kind # "snap"
                 PROVE  m + 1 < i
      BY DEF Due
    <3>1. i # m + 1
      OBVIOUS
    <3> QED BY <3>1
  <2> QED BY <2>2, <2>5, <2>6 DEF Digested
<1>9. Nat \subseteq Good
  <2> HIDE DEF Good
  <2> QED BY <1>7, <1>8, NatSet
<1>10. Viewed(W, v[n], b) /\ v[n].status = "live" /\ v[n] \in Viewer
  <2>1. ~Due(n)
    OBVIOUS
  <2>2. n \in 0 .. n /\ n \in Good
    BY <1>9
  <2> QED BY <1>5, <1>6, <2>1, <2>2
<1>11. v[n].view = b /\ v[n].kept = <<>>
  BY <1>10 DEF Viewed
<1>12. v[n] = Fresh(b)
  BY <1>10, <1>11 DEF Viewer, Fresh
<1> QED BY <1>4, <1>6, <1>12

-----------------------------------------------------------------------------
(* Where a listener is among the publications in progress: the state it    *)
(* has reached, and what is left to be told to it.                         *)
Made(s, e, t) == \/ e.kind = "invalidate" /\ t = Changed(s, "plain")
                 \/ Follows(s, e, t)

\* From v, what c has still to be told leads to S.
Lead(c, st, S, v) ==
  \/ Len(st) = 0 /\ v = S
  \/ Len(st) = 1 /\ c \in st[1].seen /\ v = S
  \/ Len(st) = 1 /\ c \notin st[1].seen /\ Made(v, st[1].event, S)
  \/ Len(st) = 2 /\ c \in st[1].seen /\ c \in st[2].seen /\ v = S
  \/ Len(st) = 2 /\ c \in st[1].seen /\ c \notin st[2].seen /\ Made(v, st[2].event, S)
  \/ Len(st) = 2 /\ c \notin st[1].seen /\ c \in st[2].seen /\ Made(v, st[1].event, S)
  \/ /\ Len(st) = 2 /\ c \notin st[1].seen /\ c \notin st[2].seen
     /\ \E w \in State : Made(v, st[2].event, w) /\ S = Changed(w, "policy")

\* The stack: a publication inside another is that of the relaxed policy.
StackIs(st, S, tight) ==
  /\ Len(st) <= 2
  /\ Len(st) = 2 => ~tight /\ st[1].event = Rev(S, "policy")
  /\ \A i \in 1 .. Len(st) : st[i].event.kind # "invalidate" => Past(st[i].event, S)
  /\ Acp = {} => Len(st) <= 1 /\ ~tight

\* A publication begins; a listener is told.
Push(e, st) == <<[event |-> e, seen |-> {}]>> \o st
Mark(c, st) == [st EXCEPT ![1].seen = @ \cup {c}]

\* The stack with one more, one less, and one marked.
LEMMA Pushes ==
  ASSUME NEW st \in Seq(Publication), NEW e \in Signal
  PROVE  /\ Push(e, st) \in Seq(Publication) /\ Len(Push(e, st)) = Len(st) + 1
         /\ Push(e, st)[1].event = e /\ Push(e, st)[1].seen = {}
         /\ \A i \in 1 .. Len(st) : Push(e, st)[i + 1] = st[i]
         /\ Tail(Push(e, st)) = st
<1>1. PICK x : x = [event |-> e, seen |-> {}]
  OBVIOUS
<1>2. x \in Publication /\ x.event = e /\ x.seen = {}
  BY <1>1 DEF Publication
<1>3. Push(e, st) = <<x>> \o st
  BY <1>1 DEF Push
<1> QED BY <1>2, <1>3

\* A publication that ends leaves the others.
LEMMA Pops ==
  ASSUME NEW st \in Seq(Publication), st # <<>>
  PROVE  /\ Tail(st) \in Seq(Publication) /\ Len(st) = Len(Tail(st)) + 1
         /\ \A i \in 1 .. Len(Tail(st)) : Tail(st)[i] = st[i + 1]
  OBVIOUS

\* A listener that is told is marked in the innermost one.
LEMMA Marks ==
  ASSUME NEW st \in Seq(Publication), st # <<>>, NEW c \in Client
  PROVE  /\ Mark(c, st) \in Seq(Publication) /\ Len(Mark(c, st)) = Len(st)
         /\ Mark(c, st)[1].event = st[1].event /\ Mark(c, st)[1].seen = st[1].seen \cup {c}
         /\ \A i \in 2 .. Len(st) : Mark(c, st)[i] = st[i]
         /\ \A i \in 1 .. Len(st) : Mark(c, st)[i].event = st[i].event
<1>1. st[1] \in Publication
  OBVIOUS
<1>2. PICK x : x = [st[1] EXCEPT !.seen = @ \cup {c}]
  OBVIOUS
<1>3. x \in Publication /\ x.event = st[1].event /\ x.seen = st[1].seen \cup {c}
  BY <1>1, <1>2 DEF Publication
<1>4. Mark(c, st) = [st EXCEPT ![1] = x]
  BY <1>2 DEF Mark
<1>5. Mark(c, st) \in Seq(Publication) /\ Len(Mark(c, st)) = Len(st) /\ Mark(c, st)[1] = x
      /\ \A i \in 2 .. Len(st) : Mark(c, st)[i] = st[i]
  BY <1>3, <1>4
<1>6. \A i \in 1 .. Len(st) : i = 1 \/ i \in 2 .. Len(st)
  OBVIOUS
<1> QED BY <1>3, <1>5, <1>6

\* What a publication makes of a state comes later.
LEMMA MadeOn ==
  ASSUME NEW s \in State, NEW e \in Signal, NEW t, Made(s, e, t)
  PROVE  t \in State /\ Before(s, t)
<1>1. CASE e.kind = "invalidate" /\ t = Changed(s, "plain")
  BY <1>1, Changing, ChangesOn DEF Changes
<1>2. CASE Follows(s, e, t)
  <2>1. e \in Event
    BY <1>2 DEF Follows, Signal
  <2> QED BY <1>2, <2>1, FollowsOn
<1> QED BY <1>1, <1>2 DEF Made

\* How many publications there can be.
LEMMA FewNats ==
  /\ \A n \in Nat : n <= 1 => n \in {0, 1}
  /\ \A n \in Nat : n # 0 /\ n <= 2 => n = 1 \/ n = 2
  /\ \A m, n \in Nat : m = n + 1 => (m = 1 => n = 0) /\ (m = 2 => n = 1) /\ m # 0
  OBVIOUS

\* A publication starts: every listener has it before it.
LEMMA LeadPush ==
  ASSUME NEW st \in Seq(Publication), NEW e \in Signal, Len(st) <= 1, NEW S \in State, NEW T,
         Made(S, e, T), Len(st) = 1 => T = Changed(S, "policy"), NEW c \in Client, NEW v, Lead(c, st, S, v)
  PROVE  Lead(c, Push(e, st), T, v)
<1>1. PICK p : p = Push(e, st)
  OBVIOUS
<1>2. Len(p) = Len(st) + 1 /\ p[1].event = e /\ c \notin p[1].seen /\ \A i \in 1 .. Len(st) : p[i + 1] = st[i]
  BY <1>1, Pushes
<1>3. CASE Len(st) = 0
  BY <1>1, <1>2, <1>3 DEF Lead
<1>4. CASE Len(st) = 1
  <2>1. Len(p) = 2 /\ p[2] = st[1]
    <3>1. 1 \in 1 .. 1 /\ 1 + 1 = 2
      OBVIOUS
    <3> QED BY <1>2, <1>4, <3>1
  <2>2. T = Changed(S, "policy")
    BY <1>4
  <2>3. \/ c \in st[1].seen /\ v = S
        \/ c \notin st[1].seen /\ Made(v, st[1].event, S)
    BY <1>4 DEF Lead
  <2> QED BY <1>1, <1>2, <2>1, <2>2, <2>3 DEF Lead
<1>5. Len(st) \in {0, 1}
  <2>1. PICK n \in Nat : n = Len(st)
    OBVIOUS
  <2>2. n <= 1
    BY <2>1
  <2> QED BY <2>1, <2>2, FewNats, Zenon
<1> QED BY <1>3, <1>4, <1>5

\* One ends that the listener has been told.
LEMMA LeadPop ==
  ASSUME NEW st \in Seq(Publication), st # <<>>, NEW S, NEW c \in Client, c \in st[1].seen, NEW v,
         Lead(c, st, S, v)
  PROVE  Lead(c, Tail(st), S, v)
<1>1. PICK p : p = Tail(st)
  OBVIOUS
<1>2. Len(p) \in Nat /\ Len(st) = Len(p) + 1 /\ \A i \in 1 .. Len(p) : p[i] = st[i + 1]
  BY <1>1, Pops
<1>3. Len(st) # 0 /\ (Len(st) = 2 => Len(p) = 1) /\ (Len(st) = 1 => Len(p) = 0)
  <2>1. PICK m \in Nat, n \in Nat : m = Len(st) /\ n = Len(p)
    BY <1>2
  <2>2. m = n + 1
    BY <1>2, <2>1
  <2> QED BY <2>1, <2>2, FewNats, Zenon
<1>4. Len(st) = 2 => Len(p) = 1 /\ p[1] = st[2]
  <2>1. 1 \in 1 .. 1 /\ 1 + 1 = 2
    OBVIOUS
  <2> QED BY <1>2, <1>3, <2>1, Zenon
<1>5. Len(st) = 1 => Len(p) = 0
  BY <1>3
<1> QED BY <1>1, <1>3, <1>4, <1>5 DEF Lead

\* Another listener is told.
LEMMA LeadMark ==
  ASSUME NEW st \in Seq(Publication), st # <<>>, NEW S, NEW c \in Client, NEW l \in Client, c # l, NEW v,
         Lead(c, st, S, v)
  PROVE  Lead(c, Mark(l, st), S, v)
<1>1. PICK p : p = Mark(l, st)
  OBVIOUS
<1>2. /\ Len(p) = Len(st) /\ p[1].event = st[1].event /\ (c \in p[1].seen <=> c \in st[1].seen)
      /\ \A i \in 2 .. Len(st) : p[i] = st[i]
  <2>1. /\ Len(p) = Len(st) /\ p[1].event = st[1].event /\ p[1].seen = st[1].seen \cup {l}
        /\ \A i \in 2 .. Len(st) : p[i] = st[i]
    BY <1>1, Marks, Zenon
  <2> QED BY <2>1
<1>3. Len(st) = 2 => p[2] = st[2]
  <2>1. 2 \in 2 .. 2
    OBVIOUS
  <2> QED BY <1>2, <2>1
<1> QED BY <1>1, <1>2, <1>3 DEF Lead

\* A change of the policy and a delta commute.
LEMMA PolicyCommutes ==
  ASSUME NEW s \in State, NEW n \in Nat \ {0}
  PROVE  Changed(Longer(s, n), "policy") = Longer(Changed(s, "policy"), n)
<1>1. PICK t : t = Longer(s, n)
  OBVIOUS
<1>2. t \in State /\ t.rev = s.rev /\ t.done = s.done /\ t.lost = s.lost /\ t.off = s.off + n
  BY <1>1, Lengthens
<1>3. PICK u : u = Changed(t, "policy")
  OBVIOUS
<1>4. u \in State /\ u.rev = t.rev + 1 /\ u.done = t.done /\ u.off = t.off /\ (u.lost <=> t.lost)
  BY <1>2, <1>3, ChangedParts, Changing DEF Changes
<1>5. PICK v : v = Changed(s, "policy")
  OBVIOUS
<1>6. v \in State /\ v.rev = s.rev + 1 /\ v.done = s.done /\ v.off = s.off /\ (v.lost <=> s.lost)
  BY <1>5, ChangedParts, Changing DEF Changes
<1>7. PICK w : w = Longer(v, n)
  OBVIOUS
<1>8. w \in State /\ w.rev = v.rev /\ w.done = v.done /\ w.lost = v.lost /\ w.off = v.off + n
  BY <1>6, <1>7, Lengthens
<1>9. u.rev = w.rev /\ u.done = w.done /\ u.off = w.off /\ (u.lost <=> w.lost)
  BY <1>2, <1>4, <1>6, <1>8
<1>10. u = w
  <2>1. u.lost = w.lost
    BY <1>4, <1>8, <1>9, StateParts
  <2> QED BY <1>4, <1>8, <1>9, <2>1 DEF State
<1> QED BY <1>1, <1>3, <1>5, <1>7, <1>10

\* The listener itself is told: the event leads it on, and what is left to
\* be told leads to the session; or a policy that was relaxed meanwhile
\* reaches it before the revision that is still to be told.
LEMMA LeadTake ==
  ASSUME NEW st \in Seq(Publication), st # <<>>, NEW S \in State, NEW tight, StackIs(st, S, tight),
         NEW c \in Client, c \notin st[1].seen, st[1].event.kind # "invalidate",
         NEW v \in State, Lead(c, st, S, v)
  PROVE  \/ \E t \in State : /\ Follows(v, st[1].event, t) /\ Lead(c, Mark(c, st), S, t) /\ Before(t, S)
                             /\ Acp = {} => t = S
         \/ /\ Acp # {} /\ st[1].event.kind = "rev" /\ st[1].event.rev > v.rev + 1
            /\ Len(st) = 2 /\ c \notin st[2].seen /\ st[2].event.kind # "text" /\ st[1].event = Rev(S, "policy")
<1>1. PICK p, e : p = Mark(c, st) /\ e = st[1].event
  OBVIOUS
<1>2. /\ Len(p) = Len(st) /\ c \in p[1].seen
      /\ \A i \in 2 .. Len(st) : p[i] = st[i]
  BY <1>1, Marks
<1>3. Len(st) \in Nat /\ Len(st) # 0 /\ Len(st) <= 2
  BY DEF StackIs
<1>4. Before(S, S)
  BY BeforeSame
<1>5. CASE Len(st) = 1
  <2>1. Made(v, e, S)
    BY <1>1, <1>5 DEF Lead
  <2>2. Follows(v, e, S)
    BY <1>1, <2>1 DEF Made
  <2>3. Lead(c, p, S, S)
    BY <1>2, <1>5 DEF Lead
  <2> QED BY <1>1, <1>4, <2>2, <2>3
<1>6. CASE Len(st) = 2
  <2>1. p[2] = st[2] /\ Len(p) = 2 /\ st[1] \in Publication /\ st[2] \in Publication
    <3>1. 2 \in 2 .. 2
      OBVIOUS
    <3> QED BY <1>2, <1>6, <3>1
  <2>2. Acp # {} /\ e = Rev(S, "policy")
    BY <1>1, <1>6 DEF StackIs
  <2>3. CASE c \in st[2].seen
    <3>1. Made(v, e, S)
      BY <1>1, <1>6, <2>3 DEF Lead
    <3>2. Follows(v, e, S)
      BY <1>1, <3>1 DEF Made
    <3>3. Lead(c, p, S, S)
      BY <1>2, <2>1, <2>3 DEF Lead
    <3> QED BY <1>1, <1>4, <3>2, <3>3
  <2>4. CASE c \notin st[2].seen
    <3>1. PICK w \in State : Made(v, st[2].event, w) /\ S = Changed(w, "policy")
      BY <1>6, <2>4 DEF Lead
    <3>2. PICK f \in Signal : f = st[2].event
      BY <2>1 DEF Publication
    <3>3. e.kind = "rev" /\ e.rev = w.rev + 1 /\ e.change = "policy"
      BY <2>2, <3>1, ChangedParts DEF Rev
    <3>4. v.rev \in Nat /\ w.rev \in Nat
      BY StateParts
    <3>5. CASE f.kind = "text"
      <4>1. Follows(v, f, w) /\ f \in Event
        BY <3>1, <3>2, <3>5 DEF Made, Signal
      <4>2. f.msg = v.done + 1 /\ f.from = v.off /\ ~v.lost /\ w = Longer(v, f.len)
        BY <3>5, <4>1 DEF Follows
      <4>3. f.len \in Nat \ {0}
        BY <3>5, <4>1, EventParts
      <4>4. PICK t : t = Changed(v, "policy")
        OBVIOUS
      <4>5. t \in State /\ t.done = v.done /\ t.off = v.off /\ (t.lost <=> v.lost)
        BY <4>4, ChangedParts, Changing DEF Changes
      <4>6. w.rev = v.rev
        BY <4>2, <4>3, Lengthens
      <4>7. Follows(v, e, t)
        BY <3>3, <4>4, <4>6 DEF Follows
      <4>8. S = Longer(t, f.len)
        BY <3>1, <4>2, <4>3, <4>4, PolicyCommutes
      <4>9. Follows(t, f, S)
        BY <3>5, <4>2, <4>5, <4>8 DEF Follows
      <4>10. Lead(c, p, S, t)
        BY <1>2, <2>1, <2>4, <3>2, <4>9 DEF Lead, Made
      <4>11. Before(t, S)
        BY <4>1, <4>5, <4>9, FollowsOn
      <4> QED BY <1>1, <2>2, <4>5, <4>7, <4>10, <4>11
    <3>6. CASE f.kind # "text"
      <4>1. PICK change : w = Changed(v, change)
        BY <3>1, <3>2, <3>6 DEF Made, Follows
      <4>2. w.rev = v.rev + 1
        BY <4>1, ChangedParts
      <4>3. e.rev > v.rev + 1
        BY <3>3, <3>4, <4>2
      <4> QED BY <1>1, <1>6, <2>2, <2>4, <3>2, <3>3, <3>6, <4>3
    <3> QED BY <3>5, <3>6
  <2> QED BY <2>3, <2>4
<1>7. Len(st) = 1 \/ Len(st) = 2
  BY <1>3, FewNats, Zenon
<1> QED BY <1>5, <1>6, <1>7, Zenon

\* The stack with one more.
LEMMA StackPush ==
  ASSUME NEW st \in Seq(Publication), NEW S \in State, NEW tight, StackIs(st, S, tight), NEW e \in Signal,
         NEW T, Made(S, e, T), NEW firm, Acp = {} => ~firm,
         Len(st) = 0 \/ (Len(st) = 1 /\ e = Rev(T, "policy") /\ Acp # {} /\ ~firm)
  PROVE  StackIs(Push(e, st), T, firm)
<1>1. PICK p : p = Push(e, st)
  OBVIOUS
<1>2. Len(p) = Len(st) + 1 /\ p[1].event = e /\ \A i \in 1 .. Len(st) : p[i + 1] = st[i]
  BY <1>1, Pushes
<1>3. T \in State /\ Before(S, T)
  BY MadeOn
<1>4. e.kind # "invalidate" => Past(e, T)
  <2> SUFFICES ASSUME e.kind # "invalidate"
               PROVE  Past(e, T)
    OBVIOUS
  <2>1. e \in Event /\ Follows(S, e, T)
    BY DEF Made, Signal
  <2> QED BY <2>1, FollowsOn
<1>5. ASSUME NEW i \in 1 .. Len(p), p[i].event.kind # "invalidate"
      PROVE  Past(p[i].event, T)
  <2>1. CASE i = 1
    BY <1>2, <1>4, <1>5, <2>1
  <2>2. CASE i # 1
    <3>1. PICK j \in 1 .. Len(st) : i = j + 1
      <4>1. i - 1 \in 1 .. Len(st) /\ i = (i - 1) + 1
        BY <1>2, <2>2
      <4> QED BY <4>1
    <3>2. p[i] = st[j] /\ st[j] \in Publication
      BY <1>2, <3>1
    <3>3. st[j].event \in Event
      BY <1>5, <3>2 DEF Publication, Signal
    <3>4. Past(st[j].event, S)
      BY <1>5, <3>2 DEF StackIs
    <3> QED BY <1>3, <3>2, <3>3, <3>4, PastOn
  <2> QED BY <2>1, <2>2
<1>6. CASE Len(st) = 0
  <2>1. Len(p) = 1
    BY <1>2, <1>6
  <2> QED BY <1>1, <1>5, <2>1 DEF StackIs
<1>7. CASE Len(st) = 1 /\ e = Rev(T, "policy") /\ Acp # {} /\ ~firm
  <2>1. Len(p) = 2
    BY <1>2, <1>7
  <2> QED BY <1>1, <1>2, <1>5, <1>7, <2>1 DEF StackIs
<1> QED BY <1>6, <1>7

\* and with one less, or with one marked.
LEMMA StackPop ==
  ASSUME NEW st \in Seq(Publication), st # <<>>, NEW S, NEW tight, StackIs(st, S, tight)
  PROVE  StackIs(Tail(st), S, tight)
<1>1. PICK p : p = Tail(st)
  OBVIOUS
<1>2. Len(p) \in Nat /\ Len(st) = Len(p) + 1 /\ \A i \in 1 .. Len(p) : p[i] = st[i + 1]
  BY <1>1, Pops
<1>3. Len(p) <= 1 /\ Len(p) # 2 /\ Len(p) <= 2
  <2>1. PICK n \in Nat : n = Len(p)
    BY <1>2
  <2>2. PICK m \in Nat : m = Len(st)
    OBVIOUS
  <2>3. m <= 2 /\ m = n + 1
    BY <1>2, <2>1, <2>2 DEF StackIs
  <2>4. n <= 1 /\ n # 2 /\ n <= 2
    BY <2>3
  <2> QED BY <2>1, <2>4
<1>4. Acp = {} => ~tight
  BY DEF StackIs
<1>5. \A i \in 1 .. Len(p) : i + 1 \in 1 .. Len(st)
  BY <1>2
<1>6. \A i \in 1 .. Len(p) : p[i].event.kind # "invalidate" => Past(p[i].event, S)
  BY <1>2, <1>5 DEF StackIs
<1> QED BY <1>1, <1>3, <1>4, <1>6 DEF StackIs

\* The stack stays in order when a listener is marked.
LEMMA StackMark ==
  ASSUME NEW st \in Seq(Publication), st # <<>>, NEW S, NEW tight, StackIs(st, S, tight), NEW c \in Client
  PROVE  StackIs(Mark(c, st), S, tight)
<1>1. PICK p : p = Mark(c, st)
  OBVIOUS
<1>2. Len(p) = Len(st) /\ \A i \in 1 .. Len(st) : p[i].event = st[i].event
  BY <1>1, Marks, Zenon
<1>3. p[1].event = st[1].event
  BY <1>1, Marks, Zenon
<1> QED BY <1>1, <1>2, <1>3 DEF StackIs

-----------------------------------------------------------------------------
(* What a step does to the session: the log stays or grows by a state that *)
(* comes later, and nobody but the listener that is told loses its place.  *)
Later(s, t) ==
  \/ s.rev < t.rev
  \/ s.rev = t.rev /\ s.done = t.done /\ ~s.lost /\ ~t.lost /\ s.off < t.off

\* The log stays, or one later state is added.
Grew == log' = log \/ \E s \in State : log' = Append(log, s) /\ Later(Source, s)

\* A step that leaves st, and takes no listener off its way.
Turned(st) ==
  /\ Grew /\ Before(Source, Source') /\ StackIs(stack', Source', strict')
  /\ \A c \in Client, v \in State : Lead(c, st, Source, v) => Lead(c, stack', Source', v)

\* Nothing is published.
LEMMA TurnSame ==
  ASSUME LogOk, NEW st, stack' = st, log' = log, strict' = strict, StackIs(st, Source, strict)
  PROVE  Turned(st)
<1>1. Source' = Source
  BY DEF Source
<1>2. Before(Source, Source)
  BY SourceOk, BeforeSame
<1> QED BY <1>1, <1>2 DEF Turned, Grew

\* Something is.
LEMMA TurnPublish ==
  ASSUME LogOk, NEW e \in Signal, NEW s, NEW st \in Seq(Publication), StackOk(st, Source.rev),
         Made(Source, e, s), Later(Source, s),
         StackIs(st, Source, strict), Publish(e, s, st), Acp = {} => ~strict',
         Len(st) = 0 \/ (Len(st) = 1 /\ s = Changed(Source, "policy") /\ e = Rev(s, "policy") /\ Acp # {} /\ ~strict')
  PROVE  Turned(st) /\ Source' = s
<1>1. Source \in State /\ s \in State /\ Before(Source, s)
  BY SourceOk, MadeOn
<1>2. log' = Append(log, s) /\ stack' = Push(e, st)
  BY DEF Publish, Push
<1>3. Source' = s
  <2>1. PICK l : l = log'
    OBVIOUS
  <2>2. l \in Seq(State) /\ l = Append(log, s)
    BY <1>1, <1>2, <2>1 DEF LogOk
  <2>3. Last(l) = s
    BY <1>1, <2>2 DEF LogOk, Last
  <2> QED BY <2>1, <2>3 DEF Source
<1>4. PICK firm : firm = strict'
  OBVIOUS
<1>5. StackIs(Push(e, st), s, firm)
  BY <1>1, <1>4, StackPush
<1>6. Len(st) <= 1 /\ (Len(st) = 1 => s = Changed(Source, "policy"))
  <2>1. CASE Len(st) = 0
    BY <2>1
  <2>2. CASE Len(st) = 1 /\ s = Changed(Source, "policy")
    BY <2>2
  <2> QED BY <2>1, <2>2
<1>7. \A c \in Client, v \in State : Lead(c, st, Source, v) => Lead(c, Push(e, st), s, v)
  BY <1>1, <1>6, LeadPush
<1> QED BY <1>1, <1>2, <1>3, <1>4, <1>5, <1>7 DEF Turned, Grew

\* A change comes later.
LEMMA ChangedLater ==
  ASSUME NEW s \in State, NEW change
  PROVE  Later(s, Changed(s, change))
<1>1. s.rev \in Nat
  BY StateParts
<1>2. Changed(s, change).rev = s.rev + 1
  BY ChangedParts
<1> QED BY <1>1, <1>2 DEF Later

\* A change makes the next state.
LEMMA ChangeMade ==
  ASSUME NEW s \in State, NEW change \in Changes
  PROVE  LET t == Changed(s, change) IN Rev(t, change) \in Signal /\ Made(s, Rev(t, change), t)
<1>1. PICK t : t = Changed(s, change)
  OBVIOUS
<1>2. t \in State /\ t.rev = s.rev + 1
  BY <1>1, Changing
<1>3. PICK e : e = Rev(t, change)
  OBVIOUS
<1>4. e \in RevEvent /\ e.kind = "rev" /\ e.rev = s.rev + 1 /\ e.change = change
  BY <1>2, <1>3, Changing DEF Rev
<1>5. Made(s, e, t)
  BY <1>1, <1>4 DEF Made, Follows
<1> QED BY <1>1, <1>3, <1>4, <1>5 DEF Signal, Event

\* The policy is relaxed, or not.
LEMMA TurnRelax ==
  ASSUME SessionOk, NEW c \in Client, NEW st, StackOk(st, Source.rev), StackIs(st, Source, strict), Relax(c, st)
  PROVE  Turned(st)
<1>1. LogOk /\ Source \in State /\ st \in Seq(Publication)
  BY SourceOk DEF SessionOk, StackOk
<1>2. CASE c \in Acp /\ strict /\ (Bound \cap Acp) \subseteq {c}
  <2>1. strict' = FALSE /\ PublishChange("policy", st)
    BY <1>2 DEF Relax
  <2>2. PICK s : s = Changed(Source, "policy")
    OBVIOUS
  <2>3. Publish(Rev(s, "policy"), s, st)
    BY <2>1, <2>2 DEF PublishChange
  <2>4. "policy" \in Changes
    BY DEF Changes
  <2>5. Rev(s, "policy") \in Signal /\ Made(Source, Rev(s, "policy"), s) /\ Later(Source, s)
    BY <1>1, <2>2, <2>4, ChangeMade, ChangedLater
  <2>6. Acp # {}
    BY <1>2
  <2>7. Len(st) = 0 \/ Len(st) = 1
    <3>1. PICK n \in Nat : n = Len(st)
      BY <1>1
    <3>2. n <= 2 /\ n # 2
      BY <1>2, <3>1 DEF StackIs
    <3>3. n = 0 \/ n = 1
      BY <3>2
    <3> QED BY <3>1, <3>3
  <2> QED BY <1>1, <2>1, <2>2, <2>3, <2>5, <2>6, <2>7, TurnPublish
<1>3. CASE ~(c \in Acp /\ strict /\ (Bound \cap Acp) \subseteq {c})
  <2>1. stack' = st /\ log' = log /\ strict' = strict
    BY <1>3 DEF Relax
  <2> QED BY <1>1, <2>1, TurnSame
<1> QED BY <1>2, <1>3

\* A connection closes.
LEMMA TurnClose ==
  ASSUME SessionOk, NEW c \in Client, NEW why, NEW st, StackOk(st, Source.rev), StackIs(st, Source, strict),
         Close(c, why, st)
  PROVE  Turned(st)
<1>1. CASE Relax(c, st)
  BY <1>1, TurnRelax
<1>2. CASE stack' = st /\ UNCHANGED <<log, strict>>
  <2>1. LogOk
    BY DEF SessionOk
  <2> QED BY <1>2, <2>1, TurnSame
<1> QED BY <1>1, <1>2 DEF Close

\* An outbox is stored.
LEMMA TurnStore ==
  ASSUME SessionOk, NEW c \in Client, NEW o, NEW r, NEW st, StackOk(st, Source.rev), StackIs(st, Source, strict),
         Store(c, o, r, st)
  PROVE  Turned(st)
<1>1. CASE o = Overflowed
  <2>1. Close(c, "overflow", st)
    BY <1>1 DEF Store
  <2> QED BY <2>1, TurnClose
<1>2. CASE o # Overflowed
  <2>1. stack' = st /\ log' = log /\ strict' = strict /\ LogOk
    BY <1>2 DEF Store, SessionOk
  <2> QED BY <2>1, TurnSame
<1> QED BY <1>1, <1>2

\* A listener is told.
LEMMA TurnReceives ==
  ASSUME SessionOk, NEW c \in Client, NEW e, NEW st, StackOk(st, Source.rev), StackIs(st, Source, strict),
         Receives(c, e, st)
  PROVE  Turned(st)
<1>1. \/ \E why : Close(c, why, st)
      \/ \E o, r : Store(c, o, r, st)
      \/ stack' = st /\ log' = log /\ strict' = strict
  BY DEF Receives
<1>2. LogOk
  BY DEF SessionOk
<1> QED BY <1>1, <1>2, TurnClose, TurnStore, TurnSame

-----------------------------------------------------------------------------
(* Where a connection is: what its client has, the frames that lead it on, *)
(* and what is held, queued and still to be told.                          *)
Tracks(l) == IF Acp = {} THEN ToSet(l) ELSE State

\* What was held since the snapshot: first what the snapshot has, then what
\* follows it.  With an ACP client a revision may be missing in between.
HeldOver(W, c, h, ct, S, st) == \E g \in Seq(Event), f \in Seq(Event), u \in W :
  /\ \A i \in 1 .. Len(g) : Past(g[i], ct)
  /\ Path(W, ct, f, u) /\ Before(u, S)
  /\ \/ h = g \o f /\ Lead(c, st, S, u)
     \/ Acp # {} /\ \E e \in RevEvent, r \in Seq(Event) : h = (g \o f) \o (<<e>> \o r) /\ e.rev > u.rev + 1

\* Frames lead from what a client shows to a state.
LineAt(W, k, q, a, b, S) == Path(W, a, q, b) /\ Viewed(W, k, a) /\ Before(b, S)

\* A live connection: what is not yet queued is still to be told.
LiveAt(c, k, q, o, r, att, S, st, b) ==
  /\ r = b.rev /\ o.held = <<>> /\ Lead(c, st, S, b)
  /\ att = c \/ k.status = "live" \/ (k.status # "none" /\ Snapped(q))

\* A connection with a snapshot, and the events held since.
CapturedAt(W, c, o, r, ct, S, st, b) ==
  ct = b /\ r = b.rev /\ Snapped(o.queue) /\ HeldOver(W, c, o.held, ct, S, st)

\* What each mode of a connection asks for.
ModeAt(W, c, k, q, o, m, r, att, ct, S, st, b) ==
  /\ m = "live" => LiveAt(c, k, q, o, r, att, S, st, b)
  /\ m = "open" => o.held = <<>>
  /\ m = "held" => att = c /\ \A i \in 1 .. Len(o.held) : Past(o.held[i], S)
  /\ m = "captured" => att = c /\ CapturedAt(W, c, o, r, ct, S, st, b)

\* A connection is on its way, with its parts as parameters.
StreamAt(W, c, k, w, o, m, r, att, ct, S, st) ==
  /\ att = c => k.status = "awaiting"
  /\ \E a \in W, b \in W : /\ LineAt(W, k, w \o o.queue, a, b, S)
                           /\ ModeAt(W, c, k, w \o o.queue, o, m, r, att, ct, S, st, b)

\* The session goes on: what is held is still what was missed.
LEMMA HeldOn ==
  ASSUME NEW W \in SUBSET State, NEW V \in SUBSET State, W \subseteq V, NEW c \in Client, NEW h, NEW ct \in State,
         NEW S \in State, NEW T \in State, Before(S, T), NEW st, NEW su,
         \A v \in State : Lead(c, st, S, v) => Lead(c, su, T, v), HeldOver(W, c, h, ct, S, st)
  PROVE  HeldOver(V, c, h, ct, T, su)
<1>1. PICK g \in Seq(Event), f \in Seq(Event), u \in W :
        /\ \A i \in 1 .. Len(g) : Past(g[i], ct)
        /\ Path(W, ct, f, u) /\ Before(u, S)
        /\ \/ h = g \o f /\ Lead(c, st, S, u)
           \/ Acp # {} /\ \E e \in RevEvent, r \in Seq(Event) : h = (g \o f) \o (<<e>> \o r) /\ e.rev > u.rev + 1
  BY DEF HeldOver
<1>2. u \in State /\ u \in V
  OBVIOUS
<1>3. Path(V, ct, f, u)
  BY <1>1, PathWide
<1>4. Before(u, T)
  BY <1>1, <1>2, BeforeOn
<1>5. Lead(c, st, S, u) => Lead(c, su, T, u)
  BY <1>2
<1> QED BY <1>1, <1>2, <1>3, <1>4, <1>5, Zenon DEF HeldOver

\* The session goes on, and a connection stays.
LEMMA StreamStay ==
  ASSUME NEW W \in SUBSET State, NEW V \in SUBSET State, W \subseteq V, NEW c \in Client, NEW k \in Viewer,
         NEW w \in Seq(Frame), NEW o \in Outbox, NEW m, NEW r, NEW att, NEW ct, NEW S \in State, NEW st,
         StreamAt(W, c, k, w, o, m, r, att, ct, S, st),
         NEW T \in State, Before(S, T), NEW su,
         m \in {"live", "captured"} => \A v \in State : Lead(c, st, S, v) => Lead(c, su, T, v),
         NEW att2, att2 = c <=> att = c, NEW ct2, att = c => ct2 = ct
  PROVE  StreamAt(V, c, k, w, o, m, r, att2, ct2, T, su)
<1>1. PICK q \in Seq(Frame) : q = w \o o.queue
  BY Glues DEF Outbox
<1>2. PICK a \in W, b \in W : LineAt(W, k, q, a, b, S) /\ ModeAt(W, c, k, q, o, m, r, att, ct, S, st, b)
  BY <1>1 DEF StreamAt
<1>3. a \in State /\ b \in State /\ a \in V /\ b \in V
  OBVIOUS
<1>4. LineAt(V, k, q, a, b, T)
  <2>1. Path(V, a, q, b)
    BY <1>2, PathWide DEF LineAt
  <2>2. Viewed(V, k, a)
    BY <1>2 DEF LineAt, Viewed
  <2>3. Before(b, T)
    BY <1>2, <1>3, BeforeOn DEF LineAt
  <2> QED BY <2>1, <2>2, <2>3 DEF LineAt
<1>5. ModeAt(V, c, k, q, o, m, r, att2, ct2, T, su, b)
  <2>1. m = "live" => LiveAt(c, k, q, o, r, att2, T, su, b)
    BY <1>2, <1>3 DEF ModeAt, LiveAt
  <2>2. m = "open" => o.held = <<>>
    BY <1>2 DEF ModeAt
  <2>3. ASSUME m = "held" PROVE att2 = c /\ \A i \in 1 .. Len(o.held) : Past(o.held[i], T)
    <3>1. att = c /\ \A i \in 1 .. Len(o.held) : Past(o.held[i], S)
      BY <1>2, <2>3 DEF ModeAt
    <3>2. \A i \in 1 .. Len(o.held) : o.held[i] \in Event
      <4>1. o.held \in Seq(Event)
        BY DEF Outbox
      <4> QED BY <4>1
    <3>3. \A i \in 1 .. Len(o.held) : Past(o.held[i], T)
      BY <3>1, <3>2, PastOn
    <3> QED BY <3>1, <3>3
  <2>4. ASSUME m = "captured" PROVE att2 = c /\ CapturedAt(V, c, o, r, ct2, T, su, b)
    <3>1. att = c /\ CapturedAt(W, c, o, r, ct, S, st, b) /\ ct2 = ct /\ ct = b
      BY <1>2, <2>4 DEF ModeAt, CapturedAt
    <3>2. HeldOver(W, c, o.held, b, S, st)
      BY <3>1 DEF CapturedAt
    <3>3. HeldOver(V, c, o.held, b, T, su)
      <4>1. \A v \in State : Lead(c, st, S, v) => Lead(c, su, T, v)
        BY <2>4
      <4> QED BY <1>3, <3>2, <4>1, HeldOn
    <3> QED BY <3>1, <3>3 DEF CapturedAt
  <2> QED BY <2>1, <2>2, <2>3, <2>4 DEF ModeAt
<1>6. att2 = c => k.status = "awaiting"
  BY DEF StreamAt
<1> QED BY <1>1, <1>3, <1>4, <1>5, <1>6 DEF StreamAt

\* A connection closes: what is queued for it is dropped, and the end of
\* what is on its wire may be.
LEMMA StreamCut ==
  ASSUME NEW W \in SUBSET State, NEW V \in SUBSET State, W \subseteq V, NEW c \in Client, NEW k \in Viewer,
         NEW w \in Seq(Frame), NEW o \in Outbox, NEW m, NEW r, NEW att, NEW ct, NEW S \in State, NEW st,
         StreamAt(W, c, k, w, o, m, r, att, ct, S, st),
         NEW T \in State, Before(S, T), NEW su, NEW s, NEW att2, att2 = c => att = c, NEW ct2,
         NEW x \in Seq(Frame), NEW y \in Seq(Frame), w = x \o y
  PROVE  StreamAt(V, c, k, x, Empty, "closed", s, att2, ct2, T, su)
<1>1. PICK p \in Seq(Frame) : p = o.queue
  BY DEF Outbox
<1>2. w \o p = x \o (y \o p) /\ y \o p \in Seq(Frame) /\ x \o <<>> = x
  OBVIOUS
<1>3. PICK a \in W, b \in W : LineAt(W, k, w \o p, a, b, S)
  BY <1>1 DEF StreamAt
<1>4. Path(W, a, x \o (y \o p), b) /\ Viewed(W, k, a) /\ Before(b, S)
  BY <1>2, <1>3 DEF LineAt
<1>5. PICK d \in W : Path(W, a, x, d) /\ Path(W, d, y \o p, b)
  <2> HIDE <1>1
  <2> QED BY <1>2, <1>4, PathSplit
<1>6. Before(d, b)
  BY <1>2, <1>5, PathOn
<1>7. d \in State /\ b \in State /\ a \in V /\ d \in V
  OBVIOUS
<1>8. Before(d, T)
  <2>1. Before(d, S)
    BY <1>4, <1>6, <1>7, BeforeOn
  <2> QED BY <1>7, <2>1, BeforeOn
<1>9. Path(V, a, x, d) /\ Viewed(V, k, a)
  <2>1. Path(V, a, x, d)
    BY <1>5, PathWide
  <2>2. Viewed(V, k, a)
    BY <1>4 DEF Viewed
  <2> QED BY <2>1, <2>2
<1>10. Empty.queue = <<>> /\ Empty.held = <<>>
  BY DEF Empty
<1>11. LineAt(V, k, x \o Empty.queue, a, d, T)
  BY <1>2, <1>8, <1>9, <1>10 DEF LineAt
<1>12. ModeAt(V, c, k, x \o Empty.queue, Empty, "closed", s, att2, ct2, T, su, d)
  BY DEF ModeAt
<1>13. att2 = c => k.status = "awaiting"
  BY DEF StreamAt
<1> QED BY <1>7, <1>11, <1>12, <1>13 DEF StreamAt

\* A snapshot is in one part or the other.
LEMMA SnappedParts ==
  ASSUME NEW w \in Seq(Frame), NEW q \in Seq(Frame), Snapped(w \o q)
  PROVE  Snapped(w) \/ Snapped(q)
<1>1. PICK i \in 1 .. Len(w \o q) : (w \o q)[i].kind = "snap"
  BY DEF Snapped
<1>2. PICK m \in Nat, n \in Nat : m = Len(w) /\ n = Len(q)
  BY Glues
<1>3. i \in Nat /\ 1 <= i /\ i <= m + n
  BY <1>1, <1>2, Glues
<1>4. CASE i <= m
  <2>1. i \in 1 .. Len(w) /\ (w \o q)[i] = w[i]
    BY <1>2, <1>3, <1>4, Glues
  <2> QED BY <1>1, <2>1 DEF Snapped
<1>5. CASE ~(i <= m)
  <2>1. PICK j \in 1 .. n : i = m + j
    <3>1. i - m \in 1 .. n /\ i = m + (i - m)
      BY <1>3, <1>5
    <3> QED BY <3>1
  <2>2. (w \o q)[m + j] = q[j]
    BY <1>2, <2>1, Glues
  <2> QED BY <1>1, <1>2, <2>1, <2>2 DEF Snapped
<1> QED BY <1>4, <1>5

\* A live listener is sent what follows.
LEMMA StreamSent ==
  ASSUME NEW W \in SUBSET State, NEW c \in Client, NEW k \in Viewer,
         NEW w \in Seq(Frame), NEW o \in Outbox, NEW r, NEW att, NEW ct, NEW S \in State, NEW st,
         StreamAt(W, c, k, w, o, "live", r, att, ct, S, st),
         NEW su, NEW e \in Event, NEW p \in Outbox, p.held = o.held, Joined(o.queue, e, p.queue), NEW s,
         \A b \in W : Lead(c, st, S, b) /\ r = b.rev =>
           \E t \in W : Follows(b, e, t) /\ Lead(c, su, S, t) /\ Before(t, S) /\ s = t.rev
  PROVE  StreamAt(W, c, k, w, p, "live", s, att, ct, S, su)
<1>1. PICK a \in W, b \in W : /\ LineAt(W, k, w \o o.queue, a, b, S)
                              /\ ModeAt(W, c, k, w \o o.queue, o, "live", r, att, ct, S, st, b)
  BY DEF StreamAt
<1>2. LiveAt(c, k, w \o o.queue, o, r, att, S, st, b)
  BY <1>1 DEF ModeAt
<1>3. PICK t \in W : Follows(b, e, t) /\ Lead(c, su, S, t) /\ Before(t, S) /\ s = t.rev
  BY <1>2 DEF LiveAt
<1>4. o.queue \in Seq(Frame) /\ p.queue \in Seq(Frame) /\ e \in Frame
  BY EventsAreFrames DEF Outbox
<1>5. Path(W, a, w \o p.queue, t)
  <2>1. Step(b, e, t)
    BY <1>3 DEF Step
  <2>2. Path(W, a, w \o o.queue, b)
    BY <1>1 DEF LineAt
  <2> QED BY <1>4, <2>1, <2>2, PathJoined
<1>6. LineAt(W, k, w \o p.queue, a, t, S)
  BY <1>1, <1>3, <1>5 DEF LineAt
<1>7. Snapped(w \o o.queue) => Snapped(w \o p.queue)
  BY <1>4, SnappedParts, SnappedJoined, SnappedEnd
<1>8. LiveAt(c, k, w \o p.queue, p, s, att, S, su, t)
  BY <1>2, <1>3, <1>7 DEF LiveAt
<1>9. ModeAt(W, c, k, w \o p.queue, p, "live", s, att, ct, S, su, t)
  BY <1>8 DEF ModeAt
<1>10. att = c => k.status = "awaiting"
  BY DEF StreamAt
<1> QED BY <1>6, <1>9, <1>10 DEF StreamAt

\* A listener that is not live yet keeps what it is told before the snapshot.
LEMMA StreamKept ==
  ASSUME NEW W \in SUBSET State, NEW c \in Client, NEW k \in Viewer,
         NEW w \in Seq(Frame), NEW o \in Outbox, NEW r, NEW att, NEW ct, NEW S \in State, NEW st,
         StreamAt(W, c, k, w, o, "held", r, att, ct, S, st),
         NEW su, NEW e \in Event, Past(e, S),
         NEW p \in Outbox, p.queue = o.queue, p.held = Append(o.held, e)
  PROVE  StreamAt(W, c, k, w, p, "held", r, att, ct, S, su)
<1>1. PICK a \in W, b \in W : /\ LineAt(W, k, w \o o.queue, a, b, S)
                              /\ ModeAt(W, c, k, w \o o.queue, o, "held", r, att, ct, S, st, b)
  BY DEF StreamAt
<1>2. att = c /\ \A i \in 1 .. Len(o.held) : Past(o.held[i], S)
  BY <1>1 DEF ModeAt
<1>3. PICK h \in Seq(Event) : h = o.held
  BY DEF Outbox
<1>4. PICK g : g = Append(h, e)
  OBVIOUS
<1>5. /\ \A i \in 1 .. Len(g) : i \in 1 .. Len(h) \/ i = Len(h) + 1
      /\ \A i \in 1 .. Len(h) : g[i] = h[i]
      /\ g[Len(h) + 1] = e
  BY <1>3, <1>4
<1>6. \A i \in 1 .. Len(g) : Past(g[i], S)
  BY <1>2, <1>3, <1>5
<1>7. \A i \in 1 .. Len(p.held) : Past(p.held[i], S)
  BY <1>3, <1>4, <1>6
<1>8. ModeAt(W, c, k, w \o p.queue, p, "held", r, att, ct, S, su, b)
  BY <1>2, <1>7 DEF ModeAt
<1>9. LineAt(W, k, w \o p.queue, a, b, S)
  BY <1>1
<1>10. att = c => k.status = "awaiting"
  BY DEF StreamAt
<1> QED BY <1>8, <1>9, <1>10 DEF StreamAt

\* One event more behind others.
LEMMA GlueEvent ==
  ASSUME NEW g \in Seq(Event), NEW f \in Seq(Event), NEW e \in Event
  PROVE  /\ g \o f \in Seq(Event) /\ <<e>> \in Seq(Event) /\ Append(f, e) \in Seq(Event)
         /\ <<>> \in Seq(Event) /\ <<e>> \o <<>> = <<e>>
         /\ Append(f, e) = f \o <<e>> /\ Append(g \o f, e) = g \o Append(f, e)
<1>1. <<e>> \in Seq(Event) /\ g \o f \in Seq(Event) /\ Append(f, e) = f \o <<e>> /\ Append(f, e) \in Seq(Event)
  OBVIOUS
<1>2. PICK z \in Seq(Event) : z = g \o f
  BY <1>1
<1>3. Append(z, e) = z \o <<e>>
  OBVIOUS
<1>4. g \o (f \o <<e>>) = (g \o f) \o <<e>>
  BY <1>1
<1>5. <<>> \in Seq(Event) /\ <<e>> \o <<>> = <<e>>
  OBVIOUS
<1> QED BY <1>1, <1>2, <1>3, <1>4, <1>5

\* The same, on its own.
LEMMA GlueAppend ==
  ASSUME NEW g \in Seq(Event), NEW f \in Seq(Event), NEW e \in Event
  PROVE  Append(g \o f, e) = g \o Append(f, e)
  BY GlueEvent, Zenon

\* What was missed since the snapshot, with one more.
LEMMA HeldMore ==
  ASSUME NEW W \in SUBSET State, NEW c \in Client, NEW h, NEW ct, NEW S \in State, NEW st, NEW su,
         HeldOver(W, c, h, ct, S, st), NEW x \in Event,
         \A u \in W : Lead(c, st, S, u) =>
           \/ \E t \in W : Follows(u, x, t) /\ Lead(c, su, S, t) /\ Before(t, S)
           \/ Acp # {} /\ x \in RevEvent /\ x.rev > u.rev + 1
  PROVE  HeldOver(W, c, Append(h, x), ct, S, su)
<1>1. PICK g \in Seq(Event), f \in Seq(Event), u \in W :
        /\ \A i \in 1 .. Len(g) : Past(g[i], ct)
        /\ Path(W, ct, f, u) /\ Before(u, S)
        /\ \/ h = g \o f /\ Lead(c, st, S, u)
           \/ Acp # {} /\ \E e \in RevEvent, r \in Seq(Event) : h = (g \o f) \o (<<e>> \o r) /\ e.rev > u.rev + 1
  BY DEF HeldOver
<1>2. ASSUME NEW t \in W, Follows(u, x, t), Lead(c, su, S, t), Before(t, S), h = g \o f
      PROVE  HeldOver(W, c, Append(h, x), ct, S, su)
  <2>1. /\ <<x>> \in Seq(Event) /\ Append(f, x) \in Seq(Event) /\ Append(f, x) = f \o <<x>>
        /\ Append(g \o f, x) = g \o Append(f, x)
    BY GlueEvent, Zenon
  <2>2. PICK y : y = Append(h, x)
    OBVIOUS
  <2>3. PICK j \in Seq(Event) : j = f \o <<x>> /\ y = Append(h, x) /\ y = g \o j
    BY <2>2, <1>2, <2>1, Zenon
  <2>4. Step(u, x, t)
    BY <1>2 DEF Step
  <2>5. Path(W, u, <<x>>, t)
    BY <2>4, PathOne
  <2>6. Path(W, ct, f \o <<x>>, t)
    BY <1>1, <2>1, <2>5, PathJoin, Zenon
  <2>7. Path(W, ct, j, t)
    BY <2>3, <2>6
  <2>8. HeldOver(W, c, y, ct, S, su)
    <3>1. \A i \in 1 .. Len(g) : Past(g[i], ct)
      BY <1>1
    <3>2. y = g \o j /\ Lead(c, su, S, t) /\ Before(t, S) /\ t \in W /\ g \in Seq(Event) /\ j \in Seq(Event)
      BY <1>2, <2>3
    <3> QED BY <2>7, <3>1, <3>2, Zenon DEF HeldOver
  <2> QED BY <2>3, <2>8
<1>3. ASSUME Acp # {}, NEW e \in RevEvent, NEW s \in Seq(Event), NEW y, y = (g \o f) \o (<<e>> \o s), e.rev > u.rev + 1
      PROVE  HeldOver(W, c, y, ct, S, su)
  BY <1>1, <1>3, Zenon DEF HeldOver
<1>4. ASSUME Acp # {}, x \in RevEvent, x.rev > u.rev + 1, h = g \o f
      PROVE  HeldOver(W, c, Append(h, x), ct, S, su)
  <2>1. <<>> \in Seq(Event) /\ <<x>> \o <<>> = <<x>>
    BY GlueEvent, Zenon
  <2>2. PICK s \in Seq(Event) : s = <<>> /\ <<x>> \o s = <<x>>
    BY <2>1
  <2>3. PICK z \in Seq(Event) : z = g \o f
    BY Glues
  <2>4. Append(z, x) = z \o <<x>>
    OBVIOUS
  <2>5. Append(h, x) = (g \o f) \o (<<x>> \o s)
    BY <1>4, <2>2, <2>3, <2>4, Zenon
  <2> QED BY <1>3, <1>4, <2>5
<1>5. ASSUME Acp # {}, NEW e \in RevEvent, NEW r \in Seq(Event), h = (g \o f) \o (<<e>> \o r), e.rev > u.rev + 1
      PROVE  HeldOver(W, c, Append(h, x), ct, S, su)
  <2>1. e \in Event
    BY DEF Event
  <2>2. Append(r, x) \in Seq(Event)
    BY GlueEvent, Zenon
  <2>3. PICK s \in Seq(Event) : s = Append(r, x)
    BY <2>2
  <2>4. PICK z \in Seq(Event) : z = g \o f
    BY Glues
  <2>5. <<e>> \in Seq(Event)
    BY <2>1, GlueEvent, Zenon
  <2>6. PICK one \in Seq(Event) : one = <<e>>
    BY <2>5
  <2>7. PICK y \in Seq(Event) : y = one \o r
    BY Glues
  <2>8. Append(z \o y, x) = z \o Append(y, x)
    BY GlueAppend, Zenon
  <2>9. Append(one \o r, x) = one \o Append(r, x)
    BY GlueAppend, Zenon
  <2>10. Append(h, x) = (g \o f) \o (<<e>> \o s)
    BY <1>5, <2>3, <2>4, <2>6, <2>7, <2>8, <2>9, Zenon
  <2> QED BY <1>3, <1>5, <2>10
<1> QED BY <1>1, <1>2, <1>4, <1>5

\* and after it, what follows it.
LEMMA StreamOver ==
  ASSUME NEW W \in SUBSET State, NEW c \in Client, NEW k \in Viewer,
         NEW w \in Seq(Frame), NEW o \in Outbox, NEW r, NEW att, NEW ct, NEW S \in State, NEW st,
         StreamAt(W, c, k, w, o, "captured", r, att, ct, S, st),
         NEW su, NEW e \in Event,
         \A u \in W : Lead(c, st, S, u) =>
           \/ \E t \in W : Follows(u, e, t) /\ Lead(c, su, S, t) /\ Before(t, S)
           \/ Acp # {} /\ e \in RevEvent /\ e.rev > u.rev + 1,
         NEW p \in Outbox, p.queue = o.queue, p.held = Append(o.held, e)
  PROVE  StreamAt(W, c, k, w, p, "captured", r, att, ct, S, su)
<1>1. PICK a \in W, b \in W : /\ LineAt(W, k, w \o o.queue, a, b, S)
                              /\ ModeAt(W, c, k, w \o o.queue, o, "captured", r, att, ct, S, st, b)
  BY DEF StreamAt
<1>2. att = c /\ CapturedAt(W, c, o, r, ct, S, st, b)
  BY <1>1 DEF ModeAt
<1>3. HeldOver(W, c, Append(o.held, e), ct, S, su)
  BY <1>2, HeldMore DEF CapturedAt
<1>4. CapturedAt(W, c, p, r, ct, S, su, b)
  BY <1>2, <1>3 DEF CapturedAt
<1>5. ModeAt(W, c, k, w \o p.queue, p, "captured", r, att, ct, S, su, b)
  BY <1>2, <1>4 DEF ModeAt
<1>6. LineAt(W, k, w \o p.queue, a, b, S)
  BY <1>1
<1>7. att = c => k.status = "awaiting"
  BY DEF StreamAt
<1> QED BY <1>5, <1>6, <1>7 DEF StreamAt

-----------------------------------------------------------------------------
(* The invariant of the feed: the log climbs, the publications in progress *)
(* are told in order, and every connection is on its way.                  *)
Climbs == \A i, j \in 1 .. Len(log) : i < j => Later(log[i], log[j])
\* The same of the state.
Stream(c) == StreamAt(Tracks(log), c, client[c], wire[c], out[c], mode[c], at[c], attaching, cut, Source, stack)
\* The inductive invariant.
FeedInv == TypeInv /\ Climbs /\ StackIs(stack, Source, strict) /\ \A c \in Client : Stream(c)

\* The states a client may be led through.
LEMMA TracksParts ==
  ASSUME NEW l \in Seq(State), l # <<>>
  PROVE  Tracks(l) \subseteq State /\ Last(l) \in Tracks(l) /\ Last(l) \in State
<1>1. Last(l) \in State /\ Last(l) \in ToSet(l)
  BY DEF Last, ToSet
<1>2. ToSet(l) \subseteq State
  BY DEF ToSet
<1> QED BY <1>1, <1>2 DEF Tracks

\* There are more of them when the log grows.
LEMMA TracksOn ==
  ASSUME NEW l \in Seq(State), NEW s \in State
  PROVE  Tracks(l) \subseteq Tracks(Append(l, s))
<1>1. ToSet(l) \subseteq ToSet(Append(l, s))
  BY DEF ToSet
<1> QED BY <1>1 DEF Tracks

\* Later than later.
LEMMA LaterOn ==
  ASSUME NEW s \in State, NEW t \in State, NEW u \in State, Later(s, t), Later(t, u)
  PROVE  Later(s, u)
<1>1. /\ s.rev \in Nat /\ s.off \in Nat /\ t.rev \in Nat /\ t.off \in Nat /\ u.rev \in Nat /\ u.off \in Nat
  BY StateParts
<1> QED BY <1>1 DEF Later

\* A log that climbs, and a later state.
LEMMA ClimbsOn ==
  ASSUME LogOk, Climbs, NEW s \in State, Later(Source, s), NEW l, l = Append(log, s)
  PROVE  \A i, j \in 1 .. Len(l) : i < j => Later(l[i], l[j])
<1>1. PICK n \in Nat : n = Len(log) /\ n # 0
  BY DEF LogOk
<1>2. Len(l) = n + 1 /\ l[n + 1] = s /\ \A i \in 1 .. n : l[i] = log[i] /\ log[i] \in State
  BY <1>1 DEF LogOk
<1>3. Source = log[n] /\ Source \in State /\ n \in 1 .. n
  BY <1>1, SourceOk DEF Source, Last
<1> SUFFICES ASSUME NEW i \in 1 .. (n + 1), NEW j \in 1 .. (n + 1), i < j
             PROVE  Later(l[i], l[j])
  BY <1>2
<1>4. CASE j <= n
  <2>1. i \in 1 .. n /\ j \in 1 .. n
    BY <1>4
  <2> QED BY <1>1, <1>2, <2>1 DEF Climbs
<1>5. CASE j = n + 1
  <2>1. i \in 1 .. n /\ (i = n \/ i < n)
    BY <1>5
  <2>2. CASE i = n
    BY <1>2, <1>3, <1>5, <2>1, <2>2
  <2>3. CASE i < n
    <3>1. Later(log[i], log[n])
      BY <1>1, <1>3, <2>1, <2>3 DEF Climbs
    <3>2. Later(log[i], s)
      BY <1>2, <1>3, <2>1, <3>1, LaterOn
    <3> QED BY <1>2, <1>5, <2>1, <3>2
  <2> QED BY <2>1, <2>2, <2>3
<1>6. j <= n \/ j = n + 1
  OBVIOUS
<1> QED BY <1>4, <1>5, <1>6

\* What a step that is a turn leaves of the session.
LEMMA Turns ==
  ASSUME FeedInv, NEW st, Turned(st)
  PROVE  /\ Climbs' /\ StackIs(stack', Source', strict')
         /\ Tracks(log) \subseteq Tracks(log') /\ Tracks(log) \subseteq State /\ Tracks(log') \subseteq State
         /\ Source \in State /\ Source' \in State /\ Source \in Tracks(log) /\ Source' \in Tracks(log')
         /\ Before(Source, Source')
         /\ \A c \in Client, v \in State : Lead(c, st, Source, v) => Lead(c, stack', Source', v)
<1>1. LogOk /\ Climbs /\ log \in Seq(State) /\ log # <<>>
  BY DEF FeedInv, TypeInv, SessionOk, LogOk
<1>2. Tracks(log) \subseteq State /\ Source \in Tracks(log) /\ Source \in State
  BY <1>1, TracksParts DEF Source
<1>3. PICK l : l = log'
  OBVIOUS
<1>4. l = log \/ \E s \in State : l = Append(log, s) /\ Later(Source, s)
  BY <1>3 DEF Turned, Grew
<1>5. l \in Seq(State) /\ l # <<>> /\ Tracks(log) \subseteq Tracks(l)
      /\ \A i, j \in 1 .. Len(l) : i < j => Later(l[i], l[j])
  <2>1. CASE l = log
    BY <1>1, <2>1 DEF Climbs
  <2>2. ASSUME NEW s \in State, l = Append(log, s), Later(Source, s)
        PROVE  l \in Seq(State) /\ l # <<>> /\ Tracks(log) \subseteq Tracks(l)
               /\ \A i, j \in 1 .. Len(l) : i < j => Later(l[i], l[j])
    <3>1. l \in Seq(State) /\ l # <<>>
      BY <1>1, <2>2
    <3>2. Tracks(log) \subseteq Tracks(l)
      BY <1>1, <2>2, TracksOn
    <3>3. \A i, j \in 1 .. Len(l) : i < j => Later(l[i], l[j])
      BY <1>1, <2>2, ClimbsOn
    <3> QED BY <3>1, <3>2, <3>3
  <2> QED BY <1>4, <2>1, <2>2
<1>6. Tracks(l) \subseteq State /\ Last(l) \in Tracks(l) /\ Last(l) \in State
  BY <1>5, TracksParts
<1>7. Source' = Last(l) /\ (Climbs' <=> \A i, j \in 1 .. Len(l) : i < j => Later(l[i], l[j]))
  BY <1>3 DEF Source, Climbs
<1> QED BY <1>2, <1>3, <1>5, <1>6, <1>7 DEF Turned

\* A connection that the step leaves alone.
LEMMA Others ==
  ASSUME FeedInv, NEW st, Turned(st), NEW c \in Client,
         client'[c] = client[c], wire'[c] = wire[c], out'[c] = out[c], mode'[c] = mode[c], at'[c] = at[c],
         attaching' = c <=> attaching = c, attaching = c => cut' = cut,
         mode[c] \in {"live", "captured"} => \A v \in State : Lead(c, stack, Source, v) => Lead(c, st, Source, v)
  PROVE  Stream(c)'
<1>1. PICK su, att2, ct2 : su = stack' /\ att2 = attaching' /\ ct2 = cut'
  OBVIOUS
<1>2. PICK W \in SUBSET State, V \in SUBSET State, S \in State, T \in State :
        /\ W = Tracks(log) /\ V = Tracks(log') /\ S = Source /\ T = Source' /\ su = stack'
        /\ att2 = attaching' /\ ct2 = cut'
        /\ W \subseteq V /\ Before(S, T) /\ \A v \in State : Lead(c, st, S, v) => Lead(c, su, T, v)
  BY <1>1, Turns
<1>3. client[c] \in Viewer /\ wire[c] \in Seq(Frame) /\ out[c] \in Outbox
  BY Now DEF FeedInv, ClientsOk
<1>4. StreamAt(W, c, client[c], wire[c], out[c], mode[c], at[c], attaching, cut, S, stack)
  BY <1>2 DEF FeedInv, Stream
<1>5. mode[c] \in {"live", "captured"} => \A v \in State : Lead(c, stack, S, v) => Lead(c, su, T, v)
  BY <1>2
<1>6. (att2 = c <=> attaching = c) /\ (attaching = c => ct2 = cut)
  BY <1>2
<1>7. StreamAt(V, c, client[c], wire[c], out[c], mode[c], at[c], att2, ct2, T, su)
  BY <1>2, <1>3, <1>4, <1>5, <1>6, StreamStay
<1> QED BY <1>2, <1>7 DEF Stream

\* One that closes.
LEMMA Goes ==
  ASSUME FeedInv, NEW st, Turned(st), NEW c \in Client,
         client'[c] = client[c], out'[c] = Empty, mode'[c] = "closed", attaching' = c => attaching = c,
         wire'[c] \in {wire[c], <<>>}
  PROVE  Stream(c)'
<1>1. PICK su, att2, ct2 : su = stack' /\ att2 = attaching' /\ ct2 = cut'
  OBVIOUS
<1>2. PICK W \in SUBSET State, V \in SUBSET State, S \in State, T \in State :
        /\ W = Tracks(log) /\ V = Tracks(log') /\ S = Source /\ T = Source' /\ su = stack'
        /\ att2 = attaching' /\ ct2 = cut'
        /\ W \subseteq V /\ Before(S, T)
  BY <1>1, Turns
<1>3. client[c] \in Viewer /\ wire[c] \in Seq(Frame) /\ out[c] \in Outbox
  BY Now DEF FeedInv, ClientsOk
<1>4. StreamAt(W, c, client[c], wire[c], out[c], mode[c], at[c], attaching, cut, S, stack)
  BY <1>2 DEF FeedInv, Stream
<1>5. PICK x \in Seq(Frame), y \in Seq(Frame) : x = wire'[c] /\ wire[c] = x \o y
  <2>1. <<>> \in Seq(Frame) /\ wire[c] \o <<>> = wire[c] /\ <<>> \o wire[c] = wire[c]
    BY <1>3
  <2>2. CASE wire'[c] = wire[c]
    BY <1>3, <2>1, <2>2
  <2>3. CASE wire'[c] = <<>>
    BY <1>3, <2>1, <2>3
  <2> QED BY <2>2, <2>3
<1>6. att2 = c => attaching = c
  BY <1>2
<1>7. PICK s : s = at'[c]
  OBVIOUS
<1>8. StreamAt(V, c, client[c], x, Empty, "closed", s, att2, ct2, T, su)
  <2>1. PICK m, r, att, ct, tt : m = mode[c] /\ r = at[c] /\ att = attaching /\ ct = cut /\ tt = stack
    OBVIOUS
  <2>2. PICK k \in Viewer, w \in Seq(Frame), o \in Outbox :
          /\ k = client[c] /\ w = wire[c] /\ o = out[c] /\ m = mode[c] /\ r = at[c] /\ att = attaching
          /\ ct = cut /\ tt = stack
    BY <2>1, <1>3
  <2>3. StreamAt(W, c, k, w, o, m, r, att, ct, S, tt)
    BY <1>4, <2>2
  <2>4. w = x \o y /\ (att2 = c => att = c) /\ W \subseteq V /\ Before(S, T)
    BY <1>2, <1>5, <1>6, <2>2
  <2>5. StreamAt(V, c, k, x, Empty, "closed", s, att2, ct2, T, su)
    BY <2>3, <2>4, StreamCut
  <2> QED BY <2>2, <2>5
<1> QED BY <1>2, <1>5, <1>7, <1>8 DEF Stream

\* What the listener is told leads it on.
LEMMA Takes ==
  ASSUME FeedInv, stack # <<>>, NEW c \in Client, c \notin stack[1].seen, NEW e, e = stack[1].event,
         e.kind # "invalidate", NEW v \in Tracks(log), Lead(c, stack, Source, v)
  PROVE  \/ \E t \in Tracks(log) : Follows(v, e, t) /\ Lead(c, Mark(c, stack), Source, t) /\ Before(t, Source)
         \/ Acp # {} /\ e.kind = "rev" /\ e.rev > v.rev + 1
<1>1. Tracks(log) \subseteq State /\ Source \in Tracks(log) /\ Source \in State
  BY Now, TracksParts DEF FeedInv, LogOk, Source
<1>2. stack \in Seq(Publication) /\ StackIs(stack, Source, strict)
  BY Now DEF FeedInv, StackOk
<1>3. v \in State
  BY <1>1
<1>4. \/ \E t \in State : /\ Follows(v, e, t) /\ Lead(c, Mark(c, stack), Source, t) /\ Before(t, Source)
                          /\ Acp = {} => t = Source
      \/ Acp # {} /\ e.kind = "rev" /\ e.rev > v.rev + 1
  BY <1>1, <1>2, <1>3, LeadTake
<1>5. Acp # {} => Tracks(log) = State
  BY DEF Tracks
<1> QED BY <1>1, <1>4, <1>5

\* The outbox of a connection is stored.
LEMMA Storing ==
  ASSUME TypeInv, NEW c \in Client, NEW o, o # Overflowed, NEW r, NEW st, Store(c, o, r, st)
  PROVE  /\ out'[c] = o /\ at'[c] = r /\ mode'[c] = mode[c] /\ stack' = st /\ log' = log /\ Source' = Source
         /\ \A d \in Client : d # c => out'[d] = out[d] /\ at'[d] = at[d] /\ mode'[d] = mode[d]
<1>1. ConnectionsOk
  BY Now
<1>2. out' = [out EXCEPT ![c] = o] /\ at' = [at EXCEPT ![c] = r] /\ stack' = st
      /\ UNCHANGED <<log, strict, order, mode, cause>>
  BY DEF Store
<1> QED BY <1>1, <1>2 DEF ConnectionsOk, Source

\* A connection is closed.
LEMMA Closing ==
  ASSUME TypeInv, NEW c \in Client, NEW why, NEW st, Close(c, why, st)
  PROVE  /\ out'[c] = Empty /\ mode'[c] = "closed"
         /\ \A d \in Client : d # c => out'[d] = out[d] /\ at'[d] = at[d] /\ mode'[d] = mode[d]
<1>1. ConnectionsOk
  BY Now
<1>2. /\ mode' = [mode EXCEPT ![c] = "closed"] /\ out' = [out EXCEPT ![c] = Empty]
      /\ at' = [at EXCEPT ![c] = 0]
  BY DEF Close
<1> QED BY <1>1, <1>2 DEF ConnectionsOk

\* A listener is told, and only it changes.
LEMMA Telling ==
  ASSUME TypeInv, NEW c \in Client, NEW e, NEW st, Receives(c, e, st)
  PROVE  \A d \in Client : d # c => out'[d] = out[d] /\ at'[d] = at[d] /\ mode'[d] = mode[d]
<1>1. \/ \E why : Close(c, why, st)
      \/ \E o, r : Store(c, o, r, st)
      \/ out' = out /\ at' = at /\ mode' = mode
  BY DEF Receives
<1>2. ASSUME NEW o, NEW r, Store(c, o, r, st)
      PROVE  \A d \in Client : d # c => out'[d] = out[d] /\ at'[d] = at[d] /\ mode'[d] = mode[d]
  <2>1. CASE o = Overflowed
    <3>1. Close(c, "overflow", st)
      BY <1>2, <2>1 DEF Store
    <3> QED BY <3>1, Closing
  <2>2. CASE o # Overflowed
    BY <1>2, <2>2, Storing
  <2> QED BY <2>1, <2>2
<1> QED BY <1>1, <1>2, Closing

\* A live listener is told.
LEMMA ToldLive ==
  ASSUME FeedInv, stack # <<>>, NEW c \in Client, c \notin stack[1].seen, mode[c] = "live",
         NEW e \in Event, e = stack[1].event, Turned(Mark(c, stack)),
         Receives(c, e, Mark(c, stack)), UNCHANGED <<attaching, cut, wire, client>>
  PROVE  Stream(c)'
<1>1. PICK W \in SUBSET State, S \in State, k \in Viewer, w \in Seq(Frame), o \in Outbox :
        W = Tracks(log) /\ S = Source /\ k = client[c] /\ w = wire[c] /\ o = out[c]
  <2>1. Tracks(log) \subseteq State /\ Source \in State
    BY Turns
  <2>2. client[c] \in Viewer /\ wire[c] \in Seq(Frame) /\ out[c] \in Outbox
    BY Now DEF FeedInv, ClientsOk
  <2> QED BY <2>1, <2>2
<1>2. PICK st, su, r, att, ct : st = stack /\ su = Mark(c, stack) /\ r = at[c] /\ att = attaching /\ ct = cut
  OBVIOUS
<1>3. StreamAt(W, c, k, w, o, "live", r, att, ct, S, st)
  BY <1>1, <1>2 DEF FeedInv, Stream
<1>4. \A v \in W : Lead(c, st, S, v) =>
        \/ \E t \in W : Follows(v, e, t) /\ Lead(c, su, S, t) /\ Before(t, S)
        \/ Acp # {} /\ e.kind = "rev" /\ e.rev > v.rev + 1
  BY <1>1, <1>2, Takes, EventParts
<1>5. PICK b \in W : r = b.rev /\ Lead(c, st, S, b)
  BY <1>3 DEF StreamAt, ModeAt, LiveAt
<1>6. b.rev \in Nat /\ TypeInv /\ OutboxOk(o)
  BY <1>1, Now, StateParts DEF FeedInv
<1>7. CASE e.kind = "text" \/ e.rev = r + 1
  <2>1. e.kind = "rev" => ~(e.rev <= r)
    BY <1>5, <1>6, <1>7, EventParts
  <2>2. ~Covered(c, e) /\ Expected(c, e) /\ e.kind # "invalidate"
    BY <1>2, <1>7, <2>1, EventParts DEF Covered, Expected
  <2>3. PICK p, s : p = Send(o, e) /\ s = (IF e.kind = "rev" THEN e.rev ELSE r)
    OBVIOUS
  <2>4. Store(c, p, s, su)
    BY <1>1, <1>2, <2>2, <2>3 DEF Receives
  <2>5. CASE p = Overflowed
    <3>1. Close(c, "overflow", su)
      BY <2>4, <2>5 DEF Store
    <3>2. out'[c] = Empty /\ mode'[c] = "closed"
      BY <1>6, <3>1, Closing
    <3> QED BY <3>2, Goes
  <2>6. CASE p # Overflowed
    <3>1. /\ out'[c] = p /\ at'[c] = s /\ mode'[c] = mode[c] /\ stack' = su /\ log' = log /\ Source' = Source
      BY <1>6, <2>4, <2>6, Storing
    <3>2. p \in Outbox /\ p.held = o.held /\ Joined(o.queue, e, p.queue)
      <4>1. e \in Frame
        BY EventsAreFrames
      <4>2. OutboxOk(p) /\ Joined(o.queue, e, p.queue) /\ p.held = o.held
        BY <1>6, <2>3, <2>6, <4>1, Sends
      <4> QED BY <4>2 DEF OutboxOk
    <3>3. ASSUME NEW v \in W, Lead(c, st, S, v), r = v.rev
          PROVE  \E t \in W : Follows(v, e, t) /\ Lead(c, su, S, t) /\ Before(t, S) /\ s = t.rev
      <4>1. v \in State /\ v.rev \in Nat
        BY StateParts
      <4>2. CASE e.kind = "text"
        <5>1. PICK t \in W : Follows(v, e, t) /\ Lead(c, su, S, t) /\ Before(t, S)
          BY <1>4, <3>3, <4>2
        <5>2. t.rev = v.rev
          <6>1. t = Longer(v, e.len) /\ e.len \in Nat \ {0}
            BY <4>2, <5>1, EventParts DEF Follows
          <6> QED BY <4>1, <6>1, Lengthens
        <5>3. s = v.rev
          BY <2>3, <3>3, <4>2
        <5> QED BY <5>1, <5>2, <5>3
      <4>3. CASE e.kind = "rev"
        <5>1. \/ \E t \in W : Follows(v, e, t) /\ Lead(c, su, S, t) /\ Before(t, S)
              \/ e.rev > v.rev + 1
          BY <1>4, <3>3
        <5>2. \A t \in W : Follows(v, e, t) => t.rev = e.rev
          <6>1. SUFFICES ASSUME NEW t \in W, Follows(v, e, t)
                         PROVE  t.rev = e.rev
            OBVIOUS
          <6>2. t = Changed(v, e.change) /\ e.rev = v.rev + 1
            BY <4>3, <6>1 DEF Follows
          <6>3. Changed(v, e.change).rev = v.rev + 1
            BY ChangedParts
          <6> QED BY <6>2, <6>3
        <5>3. ~(e.rev > v.rev + 1)
          BY <1>7, <3>3, <4>1, <4>3
        <5> QED BY <2>3, <4>3, <5>1, <5>2, <5>3
      <4> QED BY <4>2, <4>3, EventParts
    <3>4. StreamAt(W, c, k, w, p, "live", s, att, ct, S, su)
      BY <1>3, <3>2, <3>3, StreamSent
    <3> QED BY <1>1, <1>2, <3>1, <3>4 DEF Stream
  <2> QED BY <2>5, <2>6
<1>8. CASE e.kind = "rev" /\ e.rev > r + 1
  <2>1. e.rev \in Nat /\ r \in Nat
    BY <1>5, <1>6, <1>8, EventParts
  <2>2. ~(e.rev <= r) /\ e.rev # r + 1
    BY <1>8, <2>1
  <2>3. ~Covered(c, e) /\ ~Expected(c, e)
    BY <1>2, <1>8, <2>2 DEF Covered, Expected
  <2>4. Close(c, "gap", su)
    BY <1>2, <1>8, <2>3 DEF Receives
  <2>5. out'[c] = Empty /\ mode'[c] = "closed"
    BY <1>6, <2>4, Closing
  <2> QED BY <2>5, Goes
<1>9. e.kind = "text" \/ e.rev = r + 1 \/ (e.kind = "rev" /\ e.rev > r + 1)
  <2>1. CASE e.kind = "text"
    BY <2>1
  <2>2. CASE e.kind = "rev"
    <3>1. CASE \E t \in W : Follows(b, e, t)
      BY <1>5, <2>2, <3>1 DEF Follows
    <3>2. CASE e.rev > b.rev + 1
      BY <1>5, <2>2, <3>2
    <3> QED BY <1>4, <1>5, <3>1, <3>2
  <2> QED BY <2>1, <2>2, EventParts
<1> QED BY <1>7, <1>8, <1>9

\* One that is not live yet is.
LEMMA ToldEarly ==
  ASSUME FeedInv, stack # <<>>, NEW c \in Client, c \notin stack[1].seen, mode[c] \in {"held", "captured"},
         NEW e \in Event, e = stack[1].event, Turned(Mark(c, stack)),
         Receives(c, e, Mark(c, stack)), UNCHANGED <<attaching, cut, wire, client>>
  PROVE  Stream(c)'
<1>1. PICK W \in SUBSET State, S \in State, k \in Viewer, w \in Seq(Frame), o \in Outbox :
        W = Tracks(log) /\ S = Source /\ k = client[c] /\ w = wire[c] /\ o = out[c] /\ OutboxOk(o)
  <2>1. Tracks(log) \subseteq State /\ Source \in State
    BY Turns
  <2>2. client[c] \in Viewer /\ wire[c] \in Seq(Frame) /\ out[c] \in Outbox /\ OutboxOk(out[c])
    BY Now DEF FeedInv, ClientsOk
  <2> QED BY <2>1, <2>2
<1>2. PICK st, su, m, r, att, ct :
        st = stack /\ su = Mark(c, stack) /\ m = mode[c] /\ r = at[c] /\ att = attaching /\ ct = cut
  OBVIOUS
<1>3. StreamAt(W, c, k, w, o, m, r, att, ct, S, st)
  BY <1>1, <1>2 DEF FeedInv, Stream
<1>4. PICK p : p = Hold(o, e)
  OBVIOUS
<1>5. Store(c, p, r, su)
  <2>1. e.kind # "invalidate" /\ mode[c] # "live"
    BY EventParts
  <2> QED BY <1>1, <1>2, <1>4, <2>1 DEF Receives
<1>6. TypeInv
  BY DEF FeedInv
<1>7. CASE p = Overflowed
  <2>1. Close(c, "overflow", su)
    BY <1>5, <1>7 DEF Store
  <2>2. out'[c] = Empty /\ mode'[c] = "closed"
    BY <1>6, <2>1, Closing
  <2> QED BY <2>2, Goes
<1>8. CASE p # Overflowed
  <2>1. /\ out'[c] = p /\ at'[c] = r /\ mode'[c] = m /\ stack' = su /\ log' = log /\ Source' = Source
    BY <1>2, <1>5, <1>6, <1>8, Storing
  <2>2. p \in Outbox /\ p.queue = o.queue /\ p.held = Append(o.held, e)
    <3>1. OutboxOk(p) /\ p.queue = o.queue /\ p.held = Append(o.held, e)
      BY <1>1, <1>4, <1>8, Holds
    <3> QED BY <3>1 DEF OutboxOk
  <2>3. CASE m = "held"
    <3>1. Past(e, S)
      <4>1. 1 \in 1 .. Len(stack)
        <5>1. stack \in Seq(Publication)
          BY Now DEF FeedInv, StackOk
        <5> QED BY <5>1
      <4>2. stack[1].event.kind # "invalidate"
        BY EventParts
      <4> QED BY <1>1, <4>1, <4>2 DEF FeedInv, StackIs
    <3>2. StreamAt(W, c, k, w, o, "held", r, att, ct, S, st)
      BY <1>3, <2>3
    <3>3. StreamAt(W, c, k, w, p, "held", r, att, ct, S, su)
      BY <2>2, <3>1, <3>2, StreamKept
    <3> QED BY <1>1, <1>2, <2>1, <2>3, <3>3 DEF Stream
  <2>4. CASE m = "captured"
    <3>1. StreamAt(W, c, k, w, o, "captured", r, att, ct, S, st)
      BY <1>3, <2>4
    <3>2. ASSUME NEW u \in W, Lead(c, st, S, u)
          PROVE  \/ \E t \in W : Follows(u, e, t) /\ Lead(c, su, S, t) /\ Before(t, S)
                 \/ Acp # {} /\ e \in RevEvent /\ e.rev > u.rev + 1
      <4>1. \/ \E t \in W : Follows(u, e, t) /\ Lead(c, su, S, t) /\ Before(t, S)
            \/ Acp # {} /\ e.kind = "rev" /\ e.rev > u.rev + 1
        BY <1>1, <1>2, <3>2, Takes, EventParts
      <4>2. e.kind = "rev" => e \in RevEvent
        BY EventParts
      <4> QED BY <4>1, <4>2
    <3>3. StreamAt(W, c, k, w, p, "captured", r, att, ct, S, su)
      BY <2>2, <3>1, <3>2, StreamOver
    <3> QED BY <1>1, <1>2, <2>1, <2>4, <3>3 DEF Stream
  <2> QED BY <1>2, <2>3, <2>4
<1> QED BY <1>7, <1>8

\* A listener is told.
LEMMA DeliverFeed ==
  ASSUME FeedInv, Deliver
  PROVE  FeedInv'
<1>1. /\ stack # <<>> /\ Uncalled # {}
      /\ Receives(Listener, stack[1].event, [stack EXCEPT ![1].seen = @ \cup {Listener}])
      /\ UNCHANGED <<attaching, cut, wire, client, tries>>
  BY DEF Deliver
<1>2. TypeInv /\ SessionOk /\ OrderOk /\ StackOk(stack, Source.rev) /\ Source.rev \in Nat
      /\ stack \in Seq(Publication) /\ StackIs(stack, Source, strict)
  BY Now DEF FeedInv, StackOk
<1>3. PICK c \in Client : c = Listener /\ c \in ToSet(order) /\ c \notin stack[1].seen
  BY <1>1, <1>2, Listens DEF OrderOk
<1>4. mode[c] \in {"held", "captured", "live"}
  BY <1>2, <1>3 DEF OrderOk, Bound
<1>5. PICK e \in Signal : e = stack[1].event
  BY <1>1, <1>2, StackSteps
<1>6. PICK st : st = Mark(c, stack) /\ StackOk(st, Source.rev) /\ StackIs(st, Source, strict)
  <2>1. StackOk([stack EXCEPT ![1].seen = @ \cup {c}], Source.rev)
    BY <1>1, <1>2, StackSteps
  <2>2. StackIs(Mark(c, stack), Source, strict)
    BY <1>1, <1>2, StackMark
  <2> QED BY <2>1, <2>2 DEF Mark
<1>7. Receives(c, e, st)
  BY <1>1, <1>3, <1>5, <1>6 DEF Mark
<1>8. Turned(st)
  BY <1>2, <1>6, <1>7, TurnReceives
<1>9. ASSUME NEW d \in Client, d # c
      PROVE  Stream(d)'
  <2>1. out'[d] = out[d] /\ at'[d] = at[d] /\ mode'[d] = mode[d]
    BY <1>2, <1>7, <1>9, Telling
  <2>2. client'[d] = client[d] /\ wire'[d] = wire[d] /\ attaching' = attaching /\ cut' = cut
    BY <1>1
  <2>3. \A v \in State : Lead(d, stack, Source, v) => Lead(d, st, Source, v)
    BY <1>1, <1>2, <1>6, <1>9, LeadMark
  <2> QED BY <1>8, <2>1, <2>2, <2>3, Others
<1>10. Stream(c)'
  <2>1. CASE e.kind = "invalidate"
    <3>1. Close(c, "invalidated", st)
      BY <1>7, <2>1 DEF Receives
    <3>2. out'[c] = Empty /\ mode'[c] = "closed"
      BY <1>2, <3>1, Closing
    <3> QED BY <1>1, <1>8, <3>2, Goes
  <2>2. CASE e \in Event
    BY <1>1, <1>3, <1>4, <1>5, <1>6, <1>7, <1>8, <2>2, ToldLive, ToldEarly
  <2> QED BY <2>1, <2>2 DEF Signal
<1>11. TypeInv'
  BY <1>2, DeliverTypes
<1>12. Climbs' /\ StackIs(stack', Source', strict')
  BY <1>8, Turns
<1>13. (\A d \in Client : Stream(d))'
  BY <1>9, <1>10
<1> QED BY <1>11, <1>12, <1>13 DEF FeedInv

\* The session publishes.
LEMMA TurnProduce ==
  ASSUME FeedInv, Produce
  PROVE  Turned(stack)
<1>1. /\ LogOk /\ Source \in State /\ StackOk(stack, Source.rev) /\ StackIs(stack, Source, strict)
      /\ stack \in Seq(Publication) /\ (Acp = {} => ~strict)
  BY Now DEF FeedInv, StackOk, StackIs
<1>2. strict' = strict
  BY DEF Produce
<1>3. CASE Delta
  <2>1. PICK n \in 1 .. MaxText : stack = <<>> /\ ~Source.lost /\ Publish(Text(Source, n), [Source EXCEPT !.off = @ + n], stack)
    BY <1>3 DEF Delta
  <2>2. n \in Nat \ {0}
    BY FanoutAssumption
  <2>3. PICK s \in State : /\ s = Longer(Source, n) /\ s.rev = Source.rev /\ s.done = Source.done
                           /\ s.lost = Source.lost /\ s.off = Source.off + n
    BY <1>1, <2>2, Lengthens
  <2>4. PICK e \in Signal : e = Text(Source, n) /\ e.kind = "text"
    BY <1>1, <2>2, Lengthens DEF Signal, Event, TextEvent
  <2>5. Publish(e, s, stack)
    BY <2>1, <2>3, <2>4 DEF Longer
  <2>6. e.msg = Source.done + 1 /\ e.from = Source.off /\ e.len = n
    BY <2>4 DEF Text
  <2>7. Made(Source, e, s)
    BY <2>1, <2>3, <2>4, <2>6 DEF Made, Follows
  <2>8. Later(Source, s)
    <3>1. Source.off \in Nat
      BY <1>1, StateParts
    <3> QED BY <2>1, <2>2, <2>3, <3>1 DEF Later
  <2>9. Len(stack) = 0
    BY <2>1
  <2> QED BY <1>1, <1>2, <2>5, <2>7, <2>8, <2>9, TurnPublish
<1>4. CASE Change
  <2>1. PICK change \in Kinds \ {"silent"} : stack = <<>> /\ PublishChange(change, stack)
    BY <1>4 DEF Change
  <2>2. change \in Changes
    BY FanoutAssumption DEF Changes
  <2>3. PICK s : s = Changed(Source, change)
    OBVIOUS
  <2>4. Rev(s, change) \in Signal /\ Made(Source, Rev(s, change), s) /\ Later(Source, s)
    BY <1>1, <2>2, <2>3, ChangeMade, ChangedLater
  <2>5. Publish(Rev(s, change), s, stack)
    BY <2>1, <2>3 DEF PublishChange
  <2>6. Len(stack) = 0
    BY <2>1
  <2> QED BY <1>1, <1>2, <2>4, <2>5, <2>6, TurnPublish
<1>5. CASE Invalidate
  <2>1. PICK s : s = Changed(Source, "plain")
    OBVIOUS
  <2>2. PICK e \in Signal : e = [kind |-> "invalidate"] /\ e.kind = "invalidate"
    <3>1. [kind |-> "invalidate"] \in Signal /\ [kind |-> "invalidate"].kind = "invalidate"
      BY DEF Signal
    <3> QED BY <3>1
  <2>3. Publish(e, s, stack) /\ stack = <<>>
    BY <1>5, <2>1, <2>2 DEF Invalidate, Quiet
  <2>4. Made(Source, e, s) /\ Later(Source, s)
    BY <1>1, <2>1, <2>2, ChangedLater DEF Made
  <2>5. Len(stack) = 0
    BY <2>3
  <2> QED BY <1>1, <1>2, <2>3, <2>4, <2>5, TurnPublish
<1> QED BY <1>3, <1>4, <1>5 DEF Produce

\* The session publishes, and no connection changes.
LEMMA ProduceFeed ==
  ASSUME FeedInv, Produce
  PROVE  FeedInv'
<1>1. Turned(stack)
  BY TurnProduce
<1>2. UNCHANGED <<order, attaching, cut, mode, at, out, cause, wire, client, tries>>
  BY DEF Produce
<1>3. \A d \in Client : Stream(d)'
  BY <1>1, <1>2, Others
<1>4. TypeInv'
  BY ProduceTypes DEF FeedInv
<1>5. Climbs' /\ StackIs(stack', Source', strict')
  BY <1>1, Turns
<1> QED BY <1>3, <1>4, <1>5 DEF FeedInv

\* A publication ends: every listener has been told.
LEMMA DeliveredFeed ==
  ASSUME FeedInv, Delivered
  PROVE  FeedInv'
<1>1. /\ stack # <<>> /\ Uncalled = {} /\ stack' = Tail(stack)
      /\ UNCHANGED <<log, strict, order, attaching, cut, mode, at, out, cause, wire, client, tries>>
  BY DEF Delivered
<1>2. TypeInv /\ LogOk /\ OrderOk /\ stack \in Seq(Publication) /\ StackIs(stack, Source, strict)
  BY Now DEF FeedInv, StackOk
<1>3. PICK st : st = Tail(stack) /\ StackIs(st, Source, strict)
  BY <1>1, <1>2, StackPop
<1>4. Turned(st)
  BY <1>1, <1>2, <1>3, TurnSame
<1>5. ASSUME NEW c \in Client, mode[c] \in {"live", "captured"}
      PROVE  c \in stack[1].seen
  <2>1. c \in ToSet(order)
    BY <1>2, <1>5 DEF OrderOk, Bound
  <2>2. PICK i \in DOMAIN order : order[i] = c
    BY <2>1 DEF ToSet
  <2> QED BY <1>1, <2>2 DEF Uncalled
<1>6. ASSUME NEW c \in Client PROVE Stream(c)'
  <2>1. mode[c] \in {"live", "captured"} => \A v \in State : Lead(c, stack, Source, v) => Lead(c, st, Source, v)
    BY <1>1, <1>2, <1>3, <1>5, LeadPop
  <2> QED BY <1>1, <1>4, <2>1, Others
<1>7. TypeInv'
  BY <1>2, DeliveredTypes
<1>8. Climbs' /\ StackIs(stack', Source', strict')
  BY <1>4, Turns
<1> QED BY <1>6, <1>7, <1>8 DEF FeedInv

\* An attachment that came too late goes.
LEMMA AbandonFeed ==
  ASSUME FeedInv, NEW c \in Client, Abandon(c)
  PROVE  FeedInv'
<1>1. /\ attaching = c /\ mode[c] = "closed" /\ attaching' = NoClient /\ Relax(c, stack)
      /\ UNCHANGED <<order, mode, at, out, cause, wire, client, tries>>
  BY DEF Abandon
<1>2. TypeInv /\ SessionOk /\ StackOk(stack, Source.rev) /\ StackIs(stack, Source, strict) /\ ConnectionOk(c)
  BY Now DEF FeedInv
<1>3. Turned(stack)
  BY <1>1, <1>2, TurnRelax
<1>4. NoClient \notin Client
  BY FanoutAssumption
<1>5. ASSUME NEW d \in Client, d # c PROVE Stream(d)'
  BY <1>1, <1>3, <1>4, <1>5, Others
<1>6. Stream(c)'
  <2>1. out[c] = Empty
    BY <1>1, <1>2 DEF ConnectionOk
  <2>2. out'[c] = Empty /\ mode'[c] = "closed" /\ client'[c] = client[c] /\ wire'[c] = wire[c]
    BY <1>1, <2>1
  <2> QED BY <1>1, <1>3, <1>4, <2>2, Goes
<1>7. TypeInv'
  BY <1>2, AbandonTypes
<1>8. Climbs' /\ StackIs(stack', Source', strict')
  BY <1>3, Turns
<1> QED BY <1>5, <1>6, <1>7, <1>8 DEF FeedInv

\* Frames move from the queue to the wire.
LEMMA StreamMoves ==
  ASSUME NEW W, NEW c, NEW k, NEW w, NEW o, NEW m, NEW r, NEW att, NEW ct, NEW S, NEW st,
         StreamAt(W, c, k, w, o, m, r, att, ct, S, st), att # c,
         NEW x, NEW p, x \o p.queue = w \o o.queue, p.held = o.held
  PROVE  StreamAt(W, c, k, x, p, m, r, att, ct, S, st)
<1>1. PICK a \in W, b \in W : /\ LineAt(W, k, w \o o.queue, a, b, S)
                              /\ ModeAt(W, c, k, w \o o.queue, o, m, r, att, ct, S, st, b)
  BY DEF StreamAt
<1>2. LineAt(W, k, x \o p.queue, a, b, S)
  BY <1>1
<1>3. m = "live" => LiveAt(c, k, x \o p.queue, p, r, att, S, st, b)
  BY <1>1 DEF ModeAt, LiveAt
<1>4. m # "held" /\ m # "captured" /\ (m = "open" => p.held = <<>>)
  BY <1>1 DEF ModeAt
<1>5. ModeAt(W, c, k, x \o p.queue, p, m, r, att, ct, S, st, b)
  BY <1>3, <1>4 DEF ModeAt
<1> QED BY <1>2, <1>5 DEF StreamAt

\* The head of what is under way, and the rest.
LEMMA HeadFirst ==
  ASSUME NEW w \in Seq(Frame), w # <<>>, NEW q \in Seq(Frame)
  PROVE  /\ w \o q = <<Head(w)>> \o (Tail(w) \o q) /\ Head(w) \in Frame /\ <<Head(w)>> \in Seq(Frame)
         /\ Tail(w) \in Seq(Frame) /\ Tail(w) \o q \in Seq(Frame)
<1>1. PICK e \in Frame, x \in Seq(Frame) : e = Head(w) /\ x = Tail(w)
  BY Starts
<1>2. w = <<e>> \o x
  BY <1>1
<1>3. <<e>> \in Seq(Frame) /\ x \o q \in Seq(Frame)
  OBVIOUS
<1>4. (<<e>> \o x) \o q = <<e>> \o (x \o q)
  BY <1>3
<1> QED BY <1>1, <1>2, <1>3, <1>4

\* A client reads a frame.
LEMMA StreamRead ==
  ASSUME NEW W \in SUBSET State, NEW c \in Client, NEW k \in Viewer,
         NEW w \in Seq(Frame), w # <<>>, NEW o \in Outbox, NEW m, NEW r, NEW att, NEW ct, NEW S, NEW st,
         StreamAt(W, c, k, w, o, m, r, att, ct, S, st), att # c,
         NEW d, d = Digest(k, Head(w))
  PROVE  /\ StreamAt(W, c, d, Tail(w), o, m, r, att, ct, S, st)
         /\ d.view = k.view \/ (d.view \in W /\ (k.view = NoView \/ Before(k.view, d.view)))
<1>1. PICK q \in Seq(Frame), e \in Frame, x \in Seq(Frame), y \in Seq(Frame) :
        q = o.queue /\ e = Head(w) /\ x = Tail(w) /\ y = x \o q /\ w \o q = <<e>> \o y /\ <<e>> \in Seq(Frame)
  <2>1. o.queue \in Seq(Frame)
    BY DEF Outbox
  <2> QED BY <2>1, HeadFirst
<1>2. PICK a \in W, b \in W : /\ LineAt(W, k, <<e>> \o y, a, b, S)
                              /\ ModeAt(W, c, k, <<e>> \o y, o, m, r, att, ct, S, st, b)
  BY <1>1 DEF StreamAt
<1>3. Path(W, a, <<e>> \o y, b) /\ Viewed(W, k, a) /\ Before(b, S)
  BY <1>2 DEF LineAt
<1>4. PICK z \in W : Path(W, a, <<e>>, z) /\ Path(W, z, y, b)
  <2> QED BY <1>1, <1>3, PathSplit
<1>5. Step(a, e, z)
  BY <1>4, PathStep
<1>6. Digested(W, k, e, z, d)
  BY <1>1, <1>3, <1>5, Digests
<1>7. LineAt(W, d, y, z, b, S)
  BY <1>3, <1>4, <1>6 DEF LineAt, Digested
<1>8. ASSUME m = "live" PROVE LiveAt(c, d, y, o, r, att, S, st, b)
  <2>1. LiveAt(c, k, <<e>> \o y, o, r, att, S, st, b)
    BY <1>2, <1>8 DEF ModeAt
  <2>2. k.status = "live" \/ (k.status # "none" /\ Snapped(<<e>> \o y))
    BY <2>1 DEF LiveAt
  <2>3. Snapped(<<e>> \o y) => e.kind = "snap" \/ Snapped(y)
    <3>1. Snapped(<<e>>) => e.kind = "snap"
      <4>1. Len(<<e>>) = 1 /\ <<e>>[1] = e /\ \A i \in 1 .. 1 : i = 1
        OBVIOUS
      <4> QED BY <4>1 DEF Snapped
    <3> QED BY <1>1, <3>1, SnappedParts
  <2>4. d.status = "live" \/ (d.status # "none" /\ Snapped(y))
    BY <1>6, <2>2, <2>3 DEF Digested
  <2> QED BY <2>1, <2>4 DEF LiveAt
<1>9. m # "held" /\ m # "captured" /\ (m = "open" => o.held = <<>>)
  BY <1>2 DEF ModeAt
<1>10. ModeAt(W, c, d, y, o, m, r, att, ct, S, st, b)
  BY <1>8, <1>9 DEF ModeAt
<1>11. d.view = k.view \/ (d.view \in W /\ (k.view = NoView \/ Before(k.view, d.view)))
  <2>1. d.view \in {k.view, z}
    BY <1>6 DEF Digested
  <2>2. Before(a, z) /\ a \in State /\ z \in State
    BY <1>5, StepOn
  <2>3. k.view = NoView \/ (k.view \in State /\ Before(k.view, a))
    BY <1>3 DEF Viewed
  <2>4. k.view = NoView \/ Before(k.view, z)
    BY <2>2, <2>3, BeforeOn
  <2> QED BY <2>1, <2>4
<1> QED BY <1>1, <1>7, <1>10, <1>11 DEF StreamAt

\* A client goes: nothing on the way to it matters to it.
LEMMA StreamIdle ==
  ASSUME NEW W \in SUBSET State, NEW V \in SUBSET State, W \subseteq V, NEW c \in Client, NEW k,
         NEW w \in Seq(Frame), NEW o \in Outbox, NEW r, NEW att, NEW ct, NEW S \in State, NEW st,
         StreamAt(W, c, k, w, o, "live", r, att, ct, S, st),
         NEW T \in State, Before(S, T), NEW su, NEW s, NEW att2, att2 # c, NEW ct2
  PROVE  StreamAt(V, c, Idle, w, o, "open", s, att2, ct2, T, su)
<1>1. PICK q \in Seq(Frame) : q = w \o o.queue
  BY Glues DEF Outbox
<1>2. PICK a \in W, b \in W : LineAt(W, k, q, a, b, S) /\ ModeAt(W, c, k, q, o, "live", r, att, ct, S, st, b)
  BY <1>1 DEF StreamAt
<1>3. a \in State /\ b \in State /\ a \in V /\ b \in V
  OBVIOUS
<1>4. Path(V, a, q, b)
  BY <1>2, PathWide DEF LineAt
<1>5. Before(b, T)
  BY <1>2, <1>3, BeforeOn DEF LineAt
<1>6. Viewed(V, Idle, a)
  <2>1. Idle.view = NoView /\ Idle.kept = <<>> /\ Idle.status = "none"
    BY DEF Idle
  <2>2. Len(<<>>) = 0 /\ 1 .. 0 = {}
    OBVIOUS
  <2> QED BY <2>1, <2>2 DEF Viewed
<1>7. LineAt(V, Idle, q, a, b, T)
  BY <1>4, <1>5, <1>6 DEF LineAt
<1>8. ModeAt(V, c, Idle, q, o, "open", s, att2, ct2, T, su, b)
  BY <1>2 DEF ModeAt, LiveAt
<1> QED BY <1>1, <1>3, <1>7, <1>8 DEF StreamAt

\* What a client makes of its own request to attach.
Awaits(k, q) == [k EXCEPT !.status = "awaiting", !.kept = q]

\* Its fields.
LEMMA AwaitsParts ==
  ASSUME NEW k \in Viewer, NEW q \in Seq(Event)
  PROVE  /\ Awaits(k, q) \in Viewer /\ Awaits(k, q).view = k.view
         /\ Awaits(k, q).status = "awaiting" /\ Awaits(k, q).kept = q
  BY DEF Awaits, Viewer

\* A client asks on a connection that is open: it keeps what it has.
LEMMA StreamAsks ==
  ASSUME NEW W \in SUBSET State, NEW V \in SUBSET State, W \subseteq V, NEW c \in Client, NEW k \in Viewer,
         NEW w \in Seq(Frame), NEW o \in Outbox, NEW m, NEW r, NEW att, NEW ct, NEW S \in State, NEW st,
         StreamAt(W, c, k, w, o, m, r, att, ct, S, st), att # c,
         NEW T \in State, Before(S, T), NEW su, \A v \in State : Lead(c, st, S, v) => Lead(c, su, T, v), NEW ct2
  PROVE  StreamAt(V, c, Awaits(k, k.kept), w, o, m, r, c, ct2, T, su)
<1>1. PICK q \in Seq(Frame) : q = w \o o.queue
  BY Glues DEF Outbox
<1>2. PICK a \in W, b \in W : LineAt(W, k, q, a, b, S) /\ ModeAt(W, c, k, q, o, m, r, att, ct, S, st, b)
  BY <1>1 DEF StreamAt
<1>3. a \in State /\ b \in State /\ a \in V /\ b \in V
  OBVIOUS
<1>4. Path(V, a, q, b)
  BY <1>2, PathWide DEF LineAt
<1>5. Before(b, T)
  BY <1>2, <1>3, BeforeOn DEF LineAt
<1>6. PICK d : d = Awaits(k, k.kept) /\ d.view = k.view /\ d.status = "awaiting" /\ d.kept = k.kept
  <2>1. k.kept \in Seq(Event)
    BY DEF Viewer
  <2> QED BY <2>1, AwaitsParts
<1>7. Viewed(V, d, a)
  BY <1>2, <1>6 DEF Viewed, LineAt
<1>8. LineAt(V, d, q, a, b, T)
  BY <1>4, <1>5, <1>7 DEF LineAt
<1>9. m = "live" => LiveAt(c, d, q, o, r, c, T, su, b)
  BY <1>2, <1>3 DEF ModeAt, LiveAt
<1>10. m # "held" /\ m # "captured" /\ (m = "open" => o.held = <<>>)
  BY <1>2 DEF ModeAt
<1>11. ModeAt(V, c, d, q, o, m, r, c, ct2, T, su, b)
  BY <1>9, <1>10 DEF ModeAt
<1> QED BY <1>1, <1>3, <1>6, <1>8, <1>11 DEF StreamAt

\* It asks on a new connection: it starts afresh.
LEMMA StreamOpens ==
  ASSUME NEW W \in SUBSET State, NEW V \in SUBSET State, W \subseteq V, NEW c \in Client, NEW k \in Viewer,
         NEW w \in Seq(Frame), NEW o \in Outbox, NEW m, NEW r, NEW att, NEW ct, NEW S \in State, NEW st,
         StreamAt(W, c, k, w, o, m, r, att, ct, S, st),
         NEW T \in V, T \in State, Before(S, T), NEW su, NEW ct2, NEW s
  PROVE  StreamAt(V, c, Awaits(k, <<>>), <<>>, Empty, "open", s, c, ct2, T, su)
<1>1. PICK q \in Seq(Frame) : q = w \o o.queue
  BY Glues DEF Outbox
<1>2. PICK a \in W, b \in W : Path(W, a, q, b) /\ Viewed(W, k, a) /\ Before(b, S)
  BY <1>1 DEF StreamAt, LineAt
<1>3. a \in State /\ b \in State /\ Before(a, b)
  BY <1>2, PathOn
<1>4. Before(a, T)
  <2>1. Before(a, S)
    BY <1>2, <1>3, BeforeOn
  <2> QED BY <1>3, <2>1, BeforeOn
<1>5. k.view = NoView \/ (k.view \in V /\ Before(k.view, T))
  <2>1. k.view = NoView \/ (k.view \in W /\ Before(k.view, a))
    BY <1>2 DEF Viewed
  <2> QED BY <1>3, <1>4, <2>1, BeforeOn
<1>6. PICK d : d = Awaits(k, <<>>) /\ d.view = k.view /\ d.status = "awaiting" /\ d.kept = <<>>
  <2>1. PICK z \in Seq(Event) : z = <<>>
    <3>1. <<>> \in Seq(Event)
      OBVIOUS
    <3> QED BY <3>1
  <2>2. Awaits(k, z).view = k.view /\ Awaits(k, z).status = "awaiting" /\ Awaits(k, z).kept = z
    BY AwaitsParts
  <2> QED BY <2>1, <2>2
<1>7. Viewed(V, d, T)
  <2>1. Len(<<>>) = 0 /\ 1 .. 0 = {}
    OBVIOUS
  <2> QED BY <1>5, <1>6, <2>1 DEF Viewed
<1>8. Empty.queue = <<>> /\ Empty.held = <<>> /\ <<>> \o <<>> = <<>>
  <2>1. <<>> \o <<>> = <<>>
    OBVIOUS
  <2> QED BY <2>1 DEF Empty
<1>9. Path(V, T, <<>>, T)
  BY PathNone
<1>10. Before(T, T)
  BY BeforeSame
<1>11. LineAt(V, d, <<>> \o Empty.queue, T, T, T)
  BY <1>7, <1>8, <1>9, <1>10 DEF LineAt
<1>12. ModeAt(V, c, d, <<>> \o Empty.queue, Empty, "open", s, c, ct2, T, su, T)
  BY <1>8 DEF ModeAt
<1> QED BY <1>6, <1>11, <1>12 DEF StreamAt

\* Its listener is installed: nothing is held yet.
LEMMA StreamHolds ==
  ASSUME NEW W, NEW c, NEW k, NEW w, NEW o \in Outbox, NEW m, m \in {"open", "live"}, NEW r, NEW ct, NEW S, NEW st,
         StreamAt(W, c, k, w, o, m, r, c, ct, S, st)
  PROVE  StreamAt(W, c, k, w, o, "held", r, c, ct, S, st)
<1>1. PICK a \in W, b \in W : /\ LineAt(W, k, w \o o.queue, a, b, S)
                              /\ ModeAt(W, c, k, w \o o.queue, o, m, r, c, ct, S, st, b)
  BY DEF StreamAt
<1>2. o.held = <<>>
  BY <1>1 DEF ModeAt, LiveAt
<1>3. \A i \in 1 .. Len(o.held) : Past(o.held[i], S)
  <2>1. Len(<<>>) = 0 /\ 1 .. 0 = {}
    OBVIOUS
  <2> QED BY <1>2, <2>1
<1>4. ModeAt(W, c, k, w \o o.queue, o, "held", r, c, ct, S, st, b)
  BY <1>3 DEF ModeAt
<1>5. k.status = "awaiting"
  BY DEF StreamAt
<1> QED BY <1>1, <1>4, <1>5 DEF StreamAt

\* The snapshot is sent: what was held before it is in it.
LEMMA StreamSnaps ==
  ASSUME NEW W \in SUBSET State, NEW c \in Client, NEW k, NEW w \in Seq(Frame), NEW o \in Outbox, NEW r,
         NEW ct, NEW S \in W, NEW st, Len(st) = 0,
         StreamAt(W, c, k, w, o, "held", r, c, ct, S, st),
         NEW e \in Frame, e.kind = "snap", e.state = S, NEW p \in Outbox, p.held = o.held, Joined(o.queue, e, p.queue)
  PROVE  StreamAt(W, c, k, w, p, "captured", S.rev, c, S, S, st)
<1>1. PICK a \in W, b \in W : /\ LineAt(W, k, w \o o.queue, a, b, S)
                              /\ ModeAt(W, c, k, w \o o.queue, o, "held", r, c, ct, S, st, b)
  BY DEF StreamAt
<1>2. o.queue \in Seq(Frame) /\ p.queue \in Seq(Frame) /\ o.held \in Seq(Event)
  BY DEF Outbox
<1>3. Path(W, a, w \o o.queue, b) /\ Viewed(W, k, a) /\ Before(b, S)
  BY <1>1 DEF LineAt
<1>4. Step(b, e, S)
  BY <1>3 DEF Step
<1>5. Path(W, a, w \o p.queue, S)
  BY <1>2, <1>3, <1>4, PathJoined
<1>6. Before(S, S) /\ S \in State
  BY BeforeSame
<1>7. LineAt(W, k, w \o p.queue, a, S, S)
  BY <1>3, <1>5, <1>6 DEF LineAt
<1>8. Snapped(p.queue)
  <2>1. e \notin TextEvent
    BY DEF TextEvent
  <2>2. p.queue = Append(o.queue, e)
    BY <2>1 DEF Joined
  <2>3. PICK n \in Nat : n = Len(o.queue)
    BY <1>2
  <2>4. Len(p.queue) = n + 1 /\ p.queue[n + 1] = e /\ n + 1 \in 1 .. (n + 1)
    BY <1>2, <2>2, <2>3
  <2> QED BY <2>4 DEF Snapped
<1>9. HeldOver(W, c, p.held, S, S, st)
  <2>1. PICK g \in Seq(Event) : g = o.held
    BY <1>2
  <2>2. PICK f \in Seq(Event) : f = <<>> /\ g = g \o f
    <3>1. <<>> \in Seq(Event) /\ g = g \o <<>>
      OBVIOUS
    <3> QED BY <3>1
  <2>3. Path(W, S, f, S)
    BY <2>2, PathNone
  <2>4. Lead(c, st, S, S)
    BY DEF Lead
  <2>5. \A i \in 1 .. Len(g) : Past(g[i], S)
    BY <1>1, <2>1 DEF ModeAt
  <2>6. p.held = g \o f
    BY <2>1, <2>2
  <2> QED BY <1>6, <2>3, <2>4, <2>5, <2>6 DEF HeldOver
<1>10. CapturedAt(W, c, p, S.rev, S, S, st, S)
  BY <1>8, <1>9 DEF CapturedAt
<1>11. ModeAt(W, c, k, w \o p.queue, p, "captured", S.rev, c, S, S, st, S)
  BY <1>10 DEF ModeAt
<1>12. k.status = "awaiting"
  BY DEF StreamAt
<1> QED BY <1>7, <1>11, <1>12 DEF StreamAt

\* Frames move towards the client, or their charge is given back.
LEMMA MovesFeed ==
  ASSUME FeedInv, TypeInv', NEW c \in Client, attaching = NoClient,
         UNCHANGED <<log, strict, stack, attaching, cut, mode, at, client>>,
         NEW p \in Outbox, out' = [out EXCEPT ![c] = p], p.held = out[c].held,
         NEW x, wire' = [wire EXCEPT ![c] = x], x \o p.queue = wire[c] \o out[c].queue
  PROVE  FeedInv'
<1>1. ConnectionsOk /\ ClientsOk /\ LogOk /\ StackIs(stack, Source, strict) /\ NoClient \notin Client
  BY Now, FanoutAssumption DEF FeedInv
<1>2. Turned(stack)
  BY <1>1, TurnSame
<1>3. out'[c] = p /\ wire'[c] = x /\ \A d \in Client : d # c => out'[d] = out[d] /\ wire'[d] = wire[d]
  BY <1>1 DEF ConnectionsOk, ClientsOk
<1>4. ASSUME NEW d \in Client, d # c PROVE Stream(d)'
  BY <1>2, <1>3, <1>4, Others
<1>5. Stream(c)'
  <2>1. PICK W, k, w, o, m, r, att, ct, S, st :
          /\ W = Tracks(log) /\ k = client[c] /\ w = wire[c] /\ o = out[c] /\ m = mode[c] /\ r = at[c]
          /\ att = attaching /\ ct = cut /\ S = Source /\ st = stack
    OBVIOUS
  <2>2. StreamAt(W, c, k, w, o, m, r, att, ct, S, st)
    BY <2>1 DEF FeedInv, Stream
  <2>3. att # c /\ x \o p.queue = w \o o.queue /\ p.held = o.held
    BY <1>1, <2>1
  <2>4. StreamAt(W, c, k, x, p, m, r, att, ct, S, st)
    BY <2>2, <2>3, StreamMoves
  <2>5. W = Tracks(log') /\ S = Source'
    BY <2>1 DEF Source
  <2> QED BY <1>3, <2>1, <2>4, <2>5 DEF Stream
<1>6. Climbs' /\ StackIs(stack', Source', strict')
  BY <1>2, Turns
<1> QED BY <1>4, <1>5, <1>6 DEF FeedInv

\* A queue is written.
LEMMA FlushFeed ==
  ASSUME FeedInv, NEW c \in Client, Flush(c)
  PROVE  FeedInv'
<1>1. PICK accepted \in BOOLEAN :
        out' = [out EXCEPT ![c].scheduled = FALSE, ![c].queue = <<>>,
                           ![c].sending = Append(@, out[c].queue), ![c].blocked = ~accepted]
  BY DEF Flush
<1>2. /\ attaching = NoClient /\ wire' = [wire EXCEPT ![c] = @ \o out[c].queue]
      /\ UNCHANGED <<log, strict, stack, attaching, cut, mode, at, client>>
  BY DEF Flush, Quiet
<1>3. TypeInv /\ OutboxOk(out[c]) /\ out[c] \in Outbox /\ ConnectionsOk /\ ClientsOk
  BY Now DEF FeedInv
<1>4. TypeInv'
  BY <1>3, FlushTypes
<1>5. PICK p : p = Flushed(out[c], accepted)
  OBVIOUS
<1>6. OutboxOk(p) /\ p.held = out[c].held /\ p.queue = <<>>
  BY <1>3, <1>5, Flushes
<1>7. p \in Outbox
  BY <1>6 DEF OutboxOk
<1>8. out' = [out EXCEPT ![c] = p]
  BY <1>1, <1>3, <1>5 DEF ConnectionsOk, Flushed
<1>9. PICK q \in Seq(Frame), w \in Seq(Frame), x \in Seq(Frame) :
        q = out[c].queue /\ w = wire[c] /\ x = w \o q /\ x \o <<>> = w \o q
  <2>1. PICK q \in Seq(Frame), w \in Seq(Frame) : q = out[c].queue /\ w = wire[c]
    BY <1>3 DEF Outbox, ClientsOk
  <2>2. w \o q \in Seq(Frame) /\ (w \o q) \o <<>> = w \o q
    OBVIOUS
  <2> QED BY <2>1, <2>2
<1>10. wire' = [wire EXCEPT ![c] = x] /\ x \o p.queue = wire[c] \o out[c].queue
  BY <1>2, <1>3, <1>6, <1>9 DEF ClientsOk
<1> QED BY <1>2, <1>4, <1>6, <1>7, <1>8, <1>10, MovesFeed

\* A write is reported.
LEMMA WrittenFeed ==
  ASSUME FeedInv, NEW c \in Client, Written(c)
  PROVE  FeedInv'
<1>1. /\ attaching = NoClient /\ out[c].sending # <<>>
      /\ out' = [out EXCEPT ![c].sending = Tail(@), ![c].bytes = @ - Total(Head(out[c].sending))]
      /\ UNCHANGED <<log, strict, stack, attaching, cut, mode, at, wire, client>>
  BY DEF Written, Quiet
<1>2. TypeInv /\ OutboxOk(out[c]) /\ out[c] \in Outbox /\ ConnectionsOk /\ ClientsOk
  BY Now DEF FeedInv
<1>3. TypeInv'
  BY <1>2, WrittenTypes
<1>4. PICK p : p = Reported(out[c])
  OBVIOUS
<1>5. OutboxOk(p) /\ p.held = out[c].held /\ p.queue = out[c].queue
  BY <1>1, <1>2, <1>4, Reports
<1>6. p \in Outbox
  BY <1>5 DEF OutboxOk
<1>7. out' = [out EXCEPT ![c] = p]
  BY <1>1, <1>2, <1>4 DEF ConnectionsOk, Reported
<1>8. PICK x : x = wire[c] /\ wire' = [wire EXCEPT ![c] = x]
  BY <1>1, <1>2 DEF ClientsOk
<1>9. x \o p.queue = wire[c] \o out[c].queue
  BY <1>5, <1>8
<1>10. attaching = NoClient /\ UNCHANGED <<log, strict, stack, attaching, cut, mode, at, client>>
  BY <1>1, Zenon
<1> QED BY <1>3, <1>5, <1>6, <1>7, <1>8, <1>9, <1>10, MovesFeed

\* A socket drains.
LEMMA DrainFeed ==
  ASSUME FeedInv, NEW c \in Client, Drain(c)
  PROVE  FeedInv'
<1>1. /\ attaching = NoClient /\ out' = [out EXCEPT ![c] = Drained(@)]
      /\ UNCHANGED <<log, strict, stack, attaching, cut, mode, at, wire, client>>
  BY DEF Drain, Quiet
<1>2. TypeInv /\ OutboxOk(out[c]) /\ out[c] \in Outbox /\ ConnectionsOk /\ ClientsOk
  BY Now DEF FeedInv
<1>3. TypeInv'
  BY <1>2, DrainTypes
<1>4. PICK p : p = Drained(out[c])
  OBVIOUS
<1>5. OutboxOk(p) /\ p.held = out[c].held /\ p.queue = out[c].queue
  BY <1>2, <1>4, Drains
<1>6. p \in Outbox
  BY <1>5 DEF OutboxOk
<1>7. out' = [out EXCEPT ![c] = p]
  BY <1>1, <1>2, <1>4 DEF ConnectionsOk
<1>8. PICK x : x = wire[c] /\ wire' = [wire EXCEPT ![c] = x]
  BY <1>1, <1>2 DEF ClientsOk
<1>9. x \o p.queue = wire[c] \o out[c].queue
  BY <1>5, <1>8
<1> QED BY <1>1, <1>3, <1>5, <1>6, <1>7, <1>8, <1>9, MovesFeed

\* A connection is hung up.
LEMMA HangFeed ==
  ASSUME FeedInv, NEW c \in Client, Hang(c)
  PROVE  FeedInv'
<1>1. /\ attaching' = attaching /\ cut' = cut /\ client' = client
      /\ Close(c, "closed", stack) /\ wire' = [wire EXCEPT ![c] = <<>>]
  BY DEF Hang
<1>2. TypeInv /\ SessionOk /\ StackOk(stack, Source.rev) /\ StackIs(stack, Source, strict) /\ ClientsOk
  BY Now DEF FeedInv
<1>3. TypeInv'
  BY <1>2, HangTypes
<1>4. Turned(stack)
  BY <1>1, <1>2, TurnClose
<1>5. /\ out'[c] = Empty /\ mode'[c] = "closed"
      /\ \A d \in Client : d # c => out'[d] = out[d] /\ at'[d] = at[d] /\ mode'[d] = mode[d]
  BY <1>1, <1>2, Closing
<1>6. wire'[c] = <<>> /\ \A d \in Client : d # c => wire'[d] = wire[d]
  BY <1>1, <1>2 DEF ClientsOk
<1>7. ASSUME NEW d \in Client, d # c PROVE Stream(d)'
  BY <1>1, <1>4, <1>5, <1>6, <1>7, Others
<1>8. Stream(c)'
  BY <1>1, <1>4, <1>5, <1>6, Goes
<1>9. Climbs' /\ StackIs(stack', Source', strict')
  BY <1>4, Turns
<1> QED BY <1>3, <1>7, <1>8, <1>9 DEF FeedInv

\* A client reads a frame: it shows what it did or a state of its path.
LEMMA ReadFeed ==
  ASSUME FeedInv, NEW c \in Client, Read(c)
  PROVE  /\ FeedInv' /\ \A d \in Client : d # c => client'[d] = client[d]
         /\ client'[c].view = client[c].view
            \/ /\ client'[c].view \in Tracks(log)
               /\ client[c].view = NoView \/ Before(client[c].view, client'[c].view)
<1>1. /\ attaching = NoClient /\ wire[c] # <<>>
      /\ client' = [client EXCEPT ![c] = Digest(@, Head(wire[c]))] /\ wire' = [wire EXCEPT ![c] = Tail(@)]
      /\ UNCHANGED <<log, strict, stack, order, attaching, cut, mode, at, out>>
  BY DEF Read, Quiet
<1>2. TypeInv /\ LogOk /\ StackIs(stack, Source, strict) /\ ClientsOk /\ NoClient \notin Client
      /\ out[c] \in Outbox
  BY Now, FanoutAssumption DEF FeedInv
<1>3. TypeInv'
  BY <1>2, ReadTypes
<1>4. Turned(stack)
  BY <1>1, <1>2, TurnSame
<1>5. PICK m, r, att, ct, S, st : m = mode[c] /\ r = at[c] /\ att = attaching /\ ct = cut /\ S = Source /\ st = stack
  OBVIOUS
<1>6. PICK W \in SUBSET State, k \in Viewer, w \in Seq(Frame), o \in Outbox :
        /\ W = Tracks(log) /\ k = client[c] /\ w = wire[c] /\ o = out[c] /\ m = mode[c] /\ r = at[c]
        /\ att = attaching /\ ct = cut /\ S = Source /\ st = stack
  BY <1>5, <1>2, TracksParts DEF ClientsOk, LogOk
<1>7. PICK d : d = Digest(k, Head(w))
  OBVIOUS
<1>8. /\ client'[c] = d /\ wire'[c] = Tail(w)
      /\ \A e \in Client : e # c => client'[e] = client[e] /\ wire'[e] = wire[e]
  BY <1>1, <1>2, <1>6, <1>7 DEF ClientsOk
<1>9. StreamAt(W, c, k, w, o, m, r, att, ct, S, st)
  BY <1>6 DEF FeedInv, Stream
<1>10. att # c /\ w # <<>>
  BY <1>1, <1>2, <1>6
<1>11. /\ StreamAt(W, c, d, Tail(w), o, m, r, att, ct, S, st)
       /\ d.view = k.view \/ (d.view \in W /\ (k.view = NoView \/ Before(k.view, d.view)))
  BY <1>7, <1>9, <1>10, StreamRead
<1>12. Stream(c)'
  <2>1. W = Tracks(log') /\ S = Source'
    BY <1>1, <1>6 DEF Source
  <2> QED BY <1>1, <1>6, <1>8, <1>11, <2>1 DEF Stream
<1>13. ASSUME NEW e \in Client, e # c PROVE Stream(e)'
  BY <1>1, <1>4, <1>8, <1>13, Others
<1>14. Climbs' /\ StackIs(stack', Source', strict')
  BY <1>4, Turns
<1>15. FeedInv'
  BY <1>3, <1>12, <1>13, <1>14 DEF FeedInv
<1> QED BY <1>6, <1>8, <1>11, <1>15

\* A client detaches.
LEMMA DetachFeed ==
  ASSUME FeedInv, NEW c \in Client, Detach(c)
  PROVE  FeedInv' /\ client' = [client EXCEPT ![c] = Idle]
<1>1. /\ attaching = NoClient /\ mode[c] = "live" /\ mode' = [mode EXCEPT ![c] = "open"]
      /\ at' = [at EXCEPT ![c] = 0] /\ client' = [client EXCEPT ![c] = Idle] /\ Relax(c, stack)
      /\ UNCHANGED <<attaching, cut, out, wire>>
  BY DEF Detach, Quiet
<1>2. TypeInv /\ SessionOk /\ StackOk(stack, Source.rev) /\ StackIs(stack, Source, strict) /\ ClientsOk
      /\ ConnectionsOk /\ NoClient \notin Client /\ out[c] \in Outbox
  BY Now, FanoutAssumption DEF FeedInv
<1>3. TypeInv'
  BY <1>2, DetachTypes
<1>4. Turned(stack)
  BY <1>1, <1>2, TurnRelax
<1>5. /\ mode'[c] = "open" /\ client'[c] = Idle
      /\ \A d \in Client : d # c => mode'[d] = mode[d] /\ client'[d] = client[d] /\ at'[d] = at[d]
  BY <1>1, <1>2 DEF ConnectionsOk, ClientsOk
<1>6. ASSUME NEW d \in Client, d # c PROVE Stream(d)'
  BY <1>1, <1>4, <1>5, <1>6, Others
<1>7. Stream(c)'
  <2>1. PICK su, s, att2, ct2 : su = stack' /\ s = at'[c] /\ att2 = attaching' /\ ct2 = cut'
    OBVIOUS
  <2>2. PICK W \in SUBSET State, V \in SUBSET State, S \in State, T \in State :
          /\ W = Tracks(log) /\ V = Tracks(log') /\ S = Source /\ T = Source' /\ su = stack' /\ s = at'[c]
          /\ att2 = attaching' /\ ct2 = cut'
          /\ W \subseteq V /\ Before(S, T)
    BY <2>1, <1>4, Turns
  <2>3. PICK k, r, att, ct, st : k = client[c] /\ r = at[c] /\ att = attaching /\ ct = cut /\ st = stack
    OBVIOUS
  <2>4. PICK w \in Seq(Frame), o \in Outbox :
          /\ k = client[c] /\ w = wire[c] /\ o = out[c] /\ r = at[c] /\ att = attaching
          /\ ct = cut /\ st = stack
    BY <2>3, <1>2 DEF ClientsOk
  <2>5. StreamAt(W, c, k, w, o, "live", r, att, ct, S, st)
    BY <1>1, <2>2, <2>4 DEF FeedInv, Stream
  <2>6. att2 # c /\ W \subseteq V /\ Before(S, T)
    BY <1>1, <1>2, <2>2
  <2>7. StreamAt(V, c, Idle, w, o, "open", s, att2, ct2, T, su)
    BY <2>5, <2>6, StreamIdle
  <2>8. out'[c] = o /\ wire'[c] = w
    BY <1>1, <2>4
  <2> QED BY <1>5, <2>2, <2>7, <2>8 DEF Stream
<1>8. Climbs' /\ StackIs(stack', Source', strict')
  BY <1>4, Turns
<1> QED BY <1>1, <1>3, <1>6, <1>7, <1>8 DEF FeedInv

\* A request to attach tightens the policy, or not.
LEMMA TurnAsk ==
  ASSUME FeedInv, NEW c \in Client, Ask(c)
  PROVE  Turned(stack)
<1>1. LogOk /\ Source \in State /\ StackOk(stack, Source.rev) /\ StackIs(stack, Source, strict)
      /\ stack \in Seq(Publication)
  BY Now DEF FeedInv, StackOk
<1>2. CASE c \in Acp /\ strict' = TRUE /\ PublishChange("policy", stack)
  <2>1. "policy" \in Changes
    BY DEF Changes
  <2>2. PICK s : s = Changed(Source, "policy")
    OBVIOUS
  <2>3. Rev(s, "policy") \in Signal /\ Made(Source, Rev(s, "policy"), s) /\ Later(Source, s)
    BY <1>1, <2>1, <2>2, ChangeMade, ChangedLater
  <2>4. Publish(Rev(s, "policy"), s, stack)
    BY <1>2, <2>2 DEF PublishChange
  <2>5. Len(stack) = 0
    BY DEF Ask, Quiet
  <2>6. Acp = {} => ~strict'
    BY <1>2
  <2> QED BY <1>1, <2>3, <2>4, <2>5, <2>6, TurnPublish
<1>3. CASE UNCHANGED <<log, strict, stack>>
  BY <1>1, <1>3, TurnSame
<1> QED BY <1>2, <1>3 DEF Ask

\* A client asks to attach.
LEMMA AskFeed ==
  ASSUME FeedInv, NEW c \in Client, Ask(c)
  PROVE  /\ FeedInv' /\ \A d \in Client : d # c => client'[d] = client[d]
         /\ client'[c].view = client[c].view
<1>1. /\ attaching = NoClient /\ (mode[c] = "closed" => wire[c] = <<>>) /\ attaching' = c
      /\ mode' = [mode EXCEPT ![c] = IF @ = "closed" THEN "open" ELSE @]
      /\ client' = [client EXCEPT ![c].status = "awaiting",
                                  ![c].kept = IF mode[c] = "closed" THEN <<>> ELSE @]
      /\ UNCHANGED <<order, cut, at, out, wire>>
  BY DEF Ask, Quiet
<1>2. TypeInv /\ ClientsOk /\ ConnectionsOk /\ NoClient \notin Client /\ out[c] \in Outbox /\ ConnectionOk(c)
  BY Now, FanoutAssumption DEF FeedInv
<1>3. TypeInv'
  BY <1>2, AskTypes
<1>4. Turned(stack)
  BY TurnAsk
<1>5. PICK m : m = mode[c]
  OBVIOUS
<1>6. PICK k \in Viewer, q \in Seq(Event) :
        k = client[c] /\ m = mode[c] /\ q = IF m = "closed" THEN <<>> ELSE k.kept
  <2>1. PICK k \in Viewer : k = client[c]
    BY <1>2 DEF ClientsOk
  <2>2. k.kept \in Seq(Event) /\ <<>> \in Seq(Event)
    BY DEF Viewer
  <2> QED BY <1>5, <2>1, <2>2
<1>7. PICK d : d = Awaits(k, q)
  OBVIOUS
<1>8. d.view = k.view
  BY <1>7, AwaitsParts
<1>9. client'[c] = d /\ \A e \in Client : e # c => client'[e] = client[e]
  <2>1. d = [k EXCEPT !.status = "awaiting", !.kept = IF m = "closed" THEN <<>> ELSE @]
    BY <1>6, <1>7 DEF Awaits, Viewer
  <2>2. client' = [client EXCEPT ![c] = d]
    BY <1>1, <1>2, <1>6, <2>1 DEF ClientsOk
  <2> QED BY <1>2, <2>2 DEF ClientsOk
<1>10. mode'[c] = (IF m = "closed" THEN "open" ELSE m) /\ \A e \in Client : e # c => mode'[e] = mode[e]
  BY <1>1, <1>2, <1>6 DEF ConnectionsOk
<1>11. UNCHANGED <<cut, at, out, wire>> /\ attaching = NoClient /\ attaching' = c
       /\ (mode[c] = "closed" => wire[c] = <<>>)
  BY <1>1, Zenon
<1>12. ASSUME NEW e \in Client, e # c PROVE Stream(e)'
  BY <1>2, <1>4, <1>9, <1>10, <1>11, <1>12, Others
<1>13. PICK su, ct2 : su = stack' /\ ct2 = cut'
  OBVIOUS
<1>14. PICK W \in SUBSET State, V \in SUBSET State, S \in State, T \in State :
         /\ W = Tracks(log) /\ V = Tracks(log') /\ S = Source /\ T = Source' /\ su = stack' /\ ct2 = cut'
         /\ W \subseteq V /\ Before(S, T) /\ T \in V
         /\ \A v \in State : Lead(c, stack, S, v) => Lead(c, su, T, v)
  BY <1>13, <1>4, Turns
<1>15. PICK r, att, ct, st : r = at[c] /\ att = attaching /\ ct = cut /\ st = stack
  OBVIOUS
<1>16. PICK w \in Seq(Frame), o \in Outbox :
         w = wire[c] /\ o = out[c] /\ r = at[c] /\ att = attaching /\ ct = cut /\ st = stack
  BY <1>15, <1>2 DEF ClientsOk
<1>17. StreamAt(W, c, k, w, o, m, r, att, ct, S, st)
  BY <1>6, <1>14, <1>16 DEF FeedInv, Stream
<1>18. StreamAt(V, c, d, w, o, mode'[c], r, c, ct2, T, su)
  <2>1. CASE m = "closed"
    <3>1. w = <<>> /\ o = Empty /\ d = Awaits(k, <<>>) /\ mode'[c] = "open"
      BY <1>2, <1>6, <1>7, <1>10, <1>11, <1>16, <2>1 DEF ConnectionOk
    <3>2. StreamAt(V, c, Awaits(k, <<>>), <<>>, Empty, "open", r, c, ct2, T, su)
      BY <1>14, <1>17, StreamOpens
    <3> QED BY <3>1, <3>2
  <2>2. CASE m # "closed"
    <3>1. d = Awaits(k, k.kept) /\ mode'[c] = m /\ att # c
      BY <1>2, <1>6, <1>7, <1>10, <1>11, <1>16, <2>2
    <3>2. \A v \in State : Lead(c, st, S, v) => Lead(c, su, T, v)
      BY <1>14, <1>16
    <3>3. W \subseteq V /\ Before(S, T)
      BY <1>14
    <3>4. StreamAt(V, c, Awaits(k, k.kept), w, o, m, r, c, ct2, T, su)
      BY <1>17, <3>1, <3>2, <3>3, StreamAsks
    <3> QED BY <3>1, <3>4
  <2> QED BY <2>1, <2>2
<1>19. Stream(c)'
  <2>1. out'[c] = o /\ wire'[c] = w /\ at'[c] = r
    BY <1>11, <1>16
  <2> QED BY <1>9, <1>11, <1>14, <1>18, <2>1 DEF Stream
<1>20. Climbs' /\ StackIs(stack', Source', strict')
  BY <1>4, Turns
<1>21. FeedInv'
  BY <1>3, <1>12, <1>19, <1>20 DEF FeedInv
<1> QED BY <1>6, <1>8, <1>9, <1>21

\* Its listener is installed.
LEMMA SubscribeFeed ==
  ASSUME FeedInv, NEW c \in Client, Subscribe(c)
  PROVE  FeedInv'
<1>1. /\ attaching = c /\ mode[c] \in {"open", "live"} /\ mode' = [mode EXCEPT ![c] = "held"]
      /\ UNCHANGED <<log, strict, stack, attaching, cut, at, out, wire, client>>
  BY DEF Subscribe
<1>2. TypeInv /\ LogOk /\ StackIs(stack, Source, strict) /\ ConnectionsOk /\ ClientsOk /\ out[c] \in Outbox
  BY Now DEF FeedInv
<1>3. TypeInv'
  BY <1>2, SubscribeTypes
<1>4. Turned(stack)
  BY <1>1, <1>2, TurnSame
<1>5. mode'[c] = "held" /\ \A d \in Client : d # c => mode'[d] = mode[d]
  BY <1>1, <1>2 DEF ConnectionsOk
<1>6. ASSUME NEW d \in Client, d # c PROVE Stream(d)'
  BY <1>1, <1>4, <1>5, <1>6, Others
<1>7. Stream(c)'
  <2>1. PICK W, k, w, m, r, ct, S, st :
          /\ W = Tracks(log) /\ k = client[c] /\ w = wire[c] /\ m = mode[c] /\ r = at[c]
          /\ ct = cut /\ S = Source /\ st = stack
    OBVIOUS
  <2>2. PICK o \in Outbox :
          /\ W = Tracks(log) /\ k = client[c] /\ w = wire[c] /\ o = out[c] /\ m = mode[c] /\ r = at[c]
          /\ ct = cut /\ S = Source /\ st = stack
    BY <2>1, <1>2
  <2>3. StreamAt(W, c, k, w, o, m, r, c, ct, S, st)
    BY <1>1, <2>2 DEF FeedInv, Stream
  <2>4. m \in {"open", "live"}
    BY <1>1, <2>2
  <2>5. StreamAt(W, c, k, w, o, "held", r, c, ct, S, st)
    BY <2>3, <2>4, StreamHolds
  <2>6. W = Tracks(log') /\ S = Source'
    BY <1>1, <2>2 DEF Source
  <2> QED BY <1>1, <1>5, <2>2, <2>5, <2>6 DEF Stream
<1>8. Climbs' /\ StackIs(stack', Source', strict')
  BY <1>4, Turns
<1> QED BY <1>3, <1>6, <1>7, <1>8 DEF FeedInv

\* Its snapshot is captured and sent.
LEMMA CaptureFeed ==
  ASSUME FeedInv, NEW c \in Client, Capture(c)
  PROVE  FeedInv'
<1>1. attaching = c /\ stack = <<>> /\ mode[c] = "held" /\ UNCHANGED <<attaching, wire, client>>
  BY DEF Capture
<1>2. /\ TypeInv /\ SessionOk /\ LogOk /\ StackOk(stack, Source.rev) /\ StackIs(stack, Source, strict)
      /\ ConnectionsOk /\ ClientsOk /\ out[c] \in Outbox /\ OutboxOk(out[c]) /\ Source \in State
  BY Now DEF FeedInv
<1>3. TypeInv'
  BY <1>2, CaptureTypes
<1>4. PICK e \in Frame : e = Snapshot(Source) /\ e.kind = "snap" /\ e.state = Source
  <2>1. Snapshot(Source) \in Frame /\ Snapshot(Source).kind = "snap" /\ Snapshot(Source).state = Source
    BY <1>2 DEF Snapshot, Frame
  <2> QED BY <2>1
<1>5. PICK p : p = Send(out[c], e)
  OBVIOUS
<1>6. CASE p = Overflowed
  <2>1. Close(c, "overflow", stack) /\ cut' = cut
    BY <1>4, <1>5, <1>6 DEF Capture
  <2>2. Turned(stack)
    BY <1>2, <2>1, TurnClose
  <2>3. /\ out'[c] = Empty /\ mode'[c] = "closed"
        /\ \A d \in Client : d # c => out'[d] = out[d] /\ at'[d] = at[d] /\ mode'[d] = mode[d]
    BY <1>2, <2>1, Closing
  <2>4. ASSUME NEW d \in Client, d # c PROVE Stream(d)'
    BY <1>1, <2>1, <2>2, <2>3, <2>4, Others
  <2>5. Stream(c)'
    BY <1>1, <2>2, <2>3, Goes
  <2>6. Climbs' /\ StackIs(stack', Source', strict')
    BY <2>2, Turns
  <2> QED BY <1>3, <2>4, <2>5, <2>6 DEF FeedInv
<1>7. CASE p # Overflowed
  <2>1. /\ out' = [out EXCEPT ![c] = p] /\ at' = [at EXCEPT ![c] = Source.rev] /\ cut' = Source
        /\ mode' = [mode EXCEPT ![c] = "captured"] /\ UNCHANGED <<log, strict, stack>>
    BY <1>4, <1>5, <1>7 DEF Capture
  <2>2. Turned(stack)
    BY <1>2, <2>1, TurnSame
  <2>3. /\ out'[c] = p /\ at'[c] = Source.rev /\ mode'[c] = "captured"
        /\ \A d \in Client : d # c => out'[d] = out[d] /\ at'[d] = at[d] /\ mode'[d] = mode[d]
    BY <1>2, <2>1 DEF ConnectionsOk
  <2>4. ASSUME NEW d \in Client, d # c PROVE Stream(d)'
    BY <1>1, <2>2, <2>3, <2>4, Others
  <2>5. OutboxOk(p) /\ Joined(out[c].queue, e, p.queue) /\ p.held = out[c].held
    BY <1>2, <1>5, <1>7, Sends
  <2>6. p \in Outbox
    BY <2>5 DEF OutboxOk
  <2>7. PICK S, k, r, ct, st : S = Source /\ k = client[c] /\ r = at[c] /\ ct = cut /\ st = stack
    OBVIOUS
  <2>8. PICK W \in SUBSET State, w \in Seq(Frame), o \in Outbox :
          /\ W = Tracks(log) /\ S = Source /\ w = wire[c] /\ o = out[c] /\ k = client[c] /\ r = at[c]
          /\ ct = cut /\ st = stack /\ S \in W
    <3>1. PICK W \in SUBSET State : W = Tracks(log) /\ Source \in W
      BY <1>2, TracksParts DEF LogOk, Source
    <3> QED BY <2>7, <1>2, <3>1 DEF ClientsOk
  <2>9. StreamAt(W, c, k, w, o, "held", r, c, ct, S, st)
    BY <1>1, <2>8 DEF FeedInv, Stream
  <2>10. /\ Len(st) = 0 /\ e.kind = "snap" /\ e.state = S /\ S \in W
         /\ p.held = o.held /\ Joined(o.queue, e, p.queue)
    BY <1>1, <1>4, <2>5, <2>8
  <2>11. StreamAt(W, c, k, w, p, "captured", S.rev, c, S, S, st)
    BY <2>6, <2>9, <2>10, StreamSnaps, Zenon
  <2>12. W = Tracks(log') /\ S = Source'
    BY <2>1, <2>8 DEF Source
  <2>13. Stream(c)'
    BY <1>1, <2>1, <2>3, <2>8, <2>11, <2>12 DEF Stream
  <2>14. Climbs' /\ StackIs(stack', Source', strict')
    BY <2>2, Turns
  <2> QED BY <1>3, <2>4, <2>13, <2>14 DEF FeedInv
<1> QED BY <1>6, <1>7

-----------------------------------------------------------------------------
(* The cutover, event by event: what the snapshot has is passed over, what *)
(* follows it goes behind it.  "started" holds the messages whose text is  *)
(* no longer that of the snapshot.                                         *)
Started(x, started) ==
  /\ Before(cut, x)
  /\ \/ x.lost
     \/ x.done + 1 \in started
     \/ x.done = cut.done /\ x.off = cut.off
     \/ x.done > cut.done /\ x.off = 0

\* The cutover has come to x, or has overflowed.
CutGoing(W, a, w, d, x) ==
  /\ d.gap = FALSE
  /\ d.out = Overflowed \/ /\ Path(W, a, w \o d.out.queue, x) /\ Snapped(d.out.queue)
                           /\ d.rev = x.rev /\ Started(x, d.started)

\* v lists the states of the cutover, event by event.
Cutting(h, R, v) ==
  /\ \A i \in 1 .. Len(h) : v[i] = CutOver(v[i - 1], h[i])
  /\ \A i \in 0 .. Len(h) : CutOk(v[i], SubSeq(h, i + 1, Len(h)), R)

\* The next event, which is the oldest that is held.
LEMMA CutNext ==
  ASSUME NEW R \in Nat, NEW h \in Seq(Event), NEW v, Cutting(h, R, v), NEW i \in Nat, i + 1 <= Len(h)
  PROVE  \E q \in Seq(Event) : /\ q # <<>> /\ Head(q) = h[i + 1] /\ h[i + 1] \in Event
                               /\ CutOk(v[i], q, R) /\ v[i + 1] = CutOver(v[i], h[i + 1])
<1>1. PICK q : q = SubSeq(h, i + 1, Len(h))
  OBVIOUS
<1>2. q \in Seq(Event) /\ q # <<>> /\ Head(q) = h[i + 1] /\ i + 1 \in 1 .. Len(h)
  BY <1>1, Rests
<1>3. i \in 0 .. Len(h) /\ (i + 1) - 1 = i
  OBVIOUS
<1>4. CutOk(v[i], q, R)
  BY <1>1, <1>3 DEF Cutting
<1>5. v[i + 1] = CutOver(v[i], h[i + 1])
  BY <1>2, <1>3 DEF Cutting
<1>6. h[i + 1] \in Event
  BY <1>2
<1> QED BY <1>2, <1>4, <1>5, <1>6

\* An event that the snapshot has is passed over.
LEMMA CutPast ==
  ASSUME NEW W, NEW a, NEW w, cut \in State, NEW R \in Nat, NEW d, NEW q \in Seq(Event), q # <<>>,
         CutOk(d, q, R), CutGoing(W, a, w, d, cut), d.started = {}, NEW e \in Event, Past(e, cut)
  PROVE  CutGoing(W, a, w, CutOver(d, e), cut) /\ CutOver(d, e).started = {}
<1>1. d \in Cut /\ d.rev \in Nat /\ d.started \in SUBSET Nat
  BY DEF CutOk, Cut
<1>2. CASE d.out = Overflowed
  <2>1. CutOver(d, e) = d
    BY <1>1, <1>2, CutOverCases DEF Stopped
  <2> QED BY <2>1
<1>3. CASE d.out # Overflowed
  <2>1. ~Stopped(d) /\ OutboxOk(d.out) /\ d.out.held = q
    BY <1>3 DEF CutGoing, CutOk, Stopped
  <2>2. d.rev = cut.rev
    BY <1>3 DEF CutGoing
  <2>3. cut.done \in Nat /\ cut.off \in Nat
    BY StateParts
  <2>4. Verdict(d, e) \in {"duplicate", "ignore"}
    <3>1. CASE e.kind = "rev"
      <4>1. e.rev <= d.rev
        BY <2>2, <3>1 DEF Past
      <4>2. e.rev \in Nat /\ ~(e.rev > d.rev)
        BY <1>1, <3>1, <4>1, EventParts
      <4>3. Verdict(d, e) = "duplicate"
        BY <3>1, <4>1, <4>2 DEF Verdict
      <4> QED BY <4>3
    <3>2. CASE e.kind = "text"
      <4>1. e.msg \in Nat /\ e.from \in Nat /\ e.len \in Nat /\ e.len # 0
        BY <3>2, EventParts
      <4>2. e.msg <= cut.done \/ (e.msg = cut.done + 1 /\ (cut.lost \/ e.from + e.len <= cut.off))
        BY <3>2 DEF Past
      <4>3. Classify(cut, e) \in {"duplicate", "ignore"}
        BY <2>3, <4>1, <4>2 DEF Classify
      <4>4. Verdict(d, e) = Classify(cut, e)
        BY <3>2 DEF Verdict
      <4> QED BY <4>3, <4>4
    <3> QED BY <3>1, <3>2, EventParts
  <2>5. CutOver(d, e) = Took(d, Release(d.out), d.rev, d.started)
    BY <1>1, <2>1, <2>4, CutOverCases
  <2>6. PICK p \in Outbox : p = Release(d.out) /\ p.queue = d.out.queue
    <3>1. OutboxOk(Release(d.out)) /\ Release(d.out).queue = d.out.queue
      BY <2>1, Releases
    <3> QED BY <3>1 DEF OutboxOk
  <2>7. CutIs(p, d.rev, d.started, d.gap, Took(d, p, d.rev, d.started))
    BY <1>1, CutSteps
  <2>8. PICK t : t = CutOver(d, e) /\ t.out = p /\ t.rev = d.rev /\ t.started = d.started /\ t.gap = d.gap
    BY <2>5, <2>6, <2>7 DEF CutIs
  <2> QED BY <1>3, <2>6, <2>8 DEF CutGoing
<1> QED BY <1>2, <1>3

\* An event that follows what is queued is not one to pass over.
LEMMA CutTakes ==
  ASSUME cut \in State, NEW d, d.rev \in Nat, NEW x \in State, d.rev = x.rev, Started(x, d.started),
         NEW e \in Event, NEW y, Follows(x, e, y)
  PROVE  Verdict(d, e) \notin {"gap", "duplicate", "ignore"}
<1>1. /\ x.rev \in Nat /\ x.done \in Nat /\ x.off \in Nat /\ (x.lost = TRUE \/ x.lost = FALSE)
      /\ cut.done \in Nat /\ cut.off \in Nat /\ (cut.lost = TRUE \/ cut.lost = FALSE)
  BY StateParts
<1>2. CASE e.kind = "rev"
  <2>1. e.rev = x.rev + 1
    BY <1>2 DEF Follows
  <2>2. Verdict(d, e) = "append"
    BY <1>1, <1>2, <2>1 DEF Verdict
  <2> QED BY <2>2
<1>3. CASE e.kind = "text"
  <2>1. e.msg = x.done + 1 /\ e.from = x.off /\ ~x.lost
    BY <1>3 DEF Follows
  <2>2. e.msg \in d.started => Verdict(d, e) = "append"
    BY <1>3 DEF Verdict
  <2>3. e.msg \notin d.started => Verdict(d, e) = Classify(cut, e)
    BY <1>3 DEF Verdict
  <2>4. e.msg \notin d.started => \/ x.done = cut.done /\ x.off = cut.off /\ ~cut.lost
                                  \/ x.done > cut.done /\ x.off = 0
    BY <1>1, <2>1 DEF Started, Before
  <2>5. e.msg \notin d.started => Classify(cut, e) \in {"append", "start"}
    BY <1>1, <2>1, <2>4 DEF Classify
  <2> QED BY <2>2, <2>3, <2>5
<1> QED BY <1>2, <1>3, EventParts

\* and what it leaves is what was started.
LEMMA StartedOn ==
  ASSUME cut \in State, NEW d, NEW x \in State, d.rev = x.rev, Started(x, d.started),
         NEW e \in Event, NEW y \in State, Follows(x, e, y)
  PROVE  TookRev(d, e) = y.rev /\ Started(y, TookText(d, e))
<1>1. /\ x.rev \in Nat /\ x.done \in Nat /\ x.off \in Nat /\ (x.lost = TRUE \/ x.lost = FALSE)
      /\ cut.done \in Nat /\ cut.off \in Nat
  BY StateParts
<1>2. Before(cut, x)
  BY DEF Started
<1>3. Before(x, y)
  BY FollowsOn
<1>4. Before(cut, y)
  BY <1>2, <1>3, BeforeOn
<1>5. CASE e.kind = "rev"
  <2>1. e.rev = x.rev + 1 /\ y = Changed(x, e.change)
    BY <1>5 DEF Follows
  <2>2. /\ y.rev = x.rev + 1
        /\ y.done = IF e.change = "completed" THEN x.done + 1 ELSE x.done
        /\ y.off = IF e.change \in {"completed", "lost"} THEN 0 ELSE x.off
        /\ y.lost = IF e.change = "completed" THEN FALSE ELSE x.lost \/ e.change = "lost"
    BY <2>1 DEF Changed
  <2>3. TookRev(d, e) = y.rev /\ TookText(d, e) = d.started
    BY <1>5, <2>1, <2>2 DEF TookRev, TookText
  <2>4. cut.done <= x.done
    BY <1>1, <1>2 DEF Before
  <2>5. CASE e.change = "completed"
    BY <1>1, <1>4, <2>2, <2>3, <2>4, <2>5 DEF Started
  <2>6. CASE e.change = "lost"
    BY <1>4, <2>2, <2>3, <2>6 DEF Started
  <2>7. CASE e.change \notin {"completed", "lost"}
    <3>1. y.done = x.done /\ y.off = x.off /\ (x.lost => y.lost)
      BY <2>2, <2>7
    <3> QED BY <1>4, <2>3, <3>1 DEF Started
  <2> QED BY <2>5, <2>6, <2>7
<1>6. CASE e.kind = "text"
  <2>1. e.msg = x.done + 1 /\ y = Longer(x, e.len) /\ e.len \in Nat \ {0}
    BY <1>6, EventParts DEF Follows
  <2>2. y.rev = x.rev /\ y.done = x.done
    BY <2>1, Lengthens
  <2>3. TookRev(d, e) = d.rev /\ TookText(d, e) = d.started \cup {e.msg}
    BY <1>6 DEF TookRev, TookText
  <2> QED BY <1>4, <2>1, <2>2, <2>3 DEF Started
<1> QED BY <1>5, <1>6, EventParts

\* An event that follows goes behind what is queued.
LEMMA CutFollows ==
  ASSUME NEW W \in SUBSET State, NEW a, NEW w \in Seq(Frame), cut \in State, NEW R \in Nat, NEW d,
         NEW q \in Seq(Event), q # <<>>, CutOk(d, q, R), NEW x \in W, CutGoing(W, a, w, d, x),
         NEW e \in Event, e = Head(q), NEW y \in W, Follows(x, e, y)
  PROVE  CutGoing(W, a, w, CutOver(d, e), y)
<1>1. d \in Cut /\ d.rev \in Nat /\ d.started \in SUBSET Nat
  BY DEF CutOk, Cut
<1>2. CASE d.out = Overflowed
  <2>1. CutOver(d, e) = d
    BY <1>1, <1>2, CutOverCases DEF Stopped
  <2> QED BY <1>2, <2>1 DEF CutGoing
<1>3. CASE d.out # Overflowed
  <2>1. ~Stopped(d) /\ OutboxOk(d.out) /\ d.out.held = q
    BY <1>3 DEF CutGoing, CutOk, Stopped
  <2>2. d.gap = FALSE /\ Path(W, a, w \o d.out.queue, x) /\ Snapped(d.out.queue) /\ d.rev = x.rev /\ Started(x, d.started)
    BY <1>3 DEF CutGoing
  <2>3. x \in State /\ y \in State
    OBVIOUS
  <2>4. Verdict(d, e) \notin {"gap", "duplicate", "ignore"}
    BY <1>1, <2>2, <2>3, CutTakes
  <2>5. TookRev(d, e) = y.rev /\ Started(y, TookText(d, e))
    BY <2>2, <2>3, StartedOn
  <2>6. PICK p, r, s : /\ p = PublishHeld(d.out) /\ r = TookRev(d, e) /\ s = TookText(d, e)
                       /\ CutOver(d, e) = Took(d, p, r, s)
    BY <1>1, <2>1, <2>4, CutOverCases
  <2>7. r \in Nat /\ s \in SUBSET Nat
    <3>1. y.rev \in Nat
      BY <2>3, StateParts
    <3>2. e.kind = "text" => e.msg \in Nat
      BY EventParts
    <3> QED BY <1>1, <2>5, <2>6, <3>1, <3>2 DEF TookText
  <2>8. p = Overflowed \/ (OutboxOk(p) /\ Joined(d.out.queue, e, p.queue))
    BY <2>1, <2>6, Publishes
  <2>9. p \in Outbox \cup {Overflowed}
    BY <2>8 DEF OutboxOk
  <2>10. CutIs(p, r, s, d.gap, Took(d, p, r, s))
    BY <1>1, <2>7, <2>9, CutSteps
  <2>11. PICK t : t = CutOver(d, e) /\ t.out = p /\ t.rev = r /\ t.started = s /\ t.gap = FALSE
    BY <2>2, <2>6, <2>10 DEF CutIs
  <2>12. CASE p = Overflowed
    BY <2>11, <2>12 DEF CutGoing
  <2>13. CASE p # Overflowed
    <3>1. PICK z \in Seq(Frame) : z = d.out.queue
      BY <2>1 DEF OutboxOk, Outbox
    <3>2. Joined(z, e, p.queue) /\ Path(W, a, w \o z, x) /\ Snapped(z)
      BY <2>2, <2>8, <2>13, <3>1
    <3>3. e \in Frame /\ Step(x, e, y)
      BY EventsAreFrames DEF Step
    <3>4. Path(W, a, w \o p.queue, y)
      BY <3>2, <3>3, PathJoined
    <3>5. Snapped(p.queue)
      BY <3>2, SnappedJoined
    <3> QED BY <2>5, <2>6, <2>11, <3>4, <3>5 DEF CutGoing
  <2> QED BY <2>12, <2>13
<1> QED BY <1>2, <1>3

\* A revision that is not the next one ends the cutover.
LEMMA CutMissed ==
  ASSUME NEW W, NEW a, NEW w, NEW R \in Nat, NEW d, NEW q, CutOk(d, q, R), NEW x \in State,
         CutGoing(W, a, w, d, x), NEW e \in RevEvent, e.rev > x.rev + 1
  PROVE  Stopped(CutOver(d, e))
<1>1. d \in Cut /\ d.rev \in Nat /\ d.started \in SUBSET Nat /\ d.out \in Outbox \cup {Overflowed}
  BY DEF CutOk, Cut
<1>2. CASE d.out = Overflowed
  <2>1. Stopped(d) /\ CutOver(d, e) = d
    BY <1>1, <1>2, CutOverCases DEF Stopped
  <2> QED BY <2>1
<1>3. CASE d.out # Overflowed
  <2>1. ~Stopped(d)
    BY <1>3 DEF CutGoing, Stopped
  <2>2. d.rev = x.rev /\ e.kind = "rev" /\ e.rev \in Nat
    BY <1>3 DEF CutGoing, RevEvent
  <2>3. Verdict(d, e) = "gap"
    BY <1>1, <2>2 DEF Verdict
  <2>4. CutOver(d, e) = Gapped(d)
    BY <1>1, <2>1, <2>3, CutOverCases
  <2>5. Gapped(d).gap = TRUE
    BY <1>1 DEF Gapped, Cut
  <2> QED BY <2>4, <2>5 DEF Stopped
<1> QED BY <1>2, <1>3

\* and one that ended stays ended.
LEMMA CutStays ==
  ASSUME NEW R \in Nat, NEW d, NEW q, CutOk(d, q, R), Stopped(d), NEW e
  PROVE  CutOver(d, e) = d
<1>1. d \in Cut
  BY DEF CutOk
<1> QED BY <1>1, CutOverCases

\* Over what the snapshot has, the cutover does nothing but pass.
LEMMA CutPasts ==
  ASSUME NEW W, NEW a, NEW w, cut \in State, NEW R \in Nat, NEW h \in Seq(Event), NEW v, Cutting(h, R, v),
         CutGoing(W, a, w, v[0], cut), v[0].started = {}, NEW n \in Nat, n <= Len(h),
         \A i \in 1 .. n : Past(h[i], cut)
  PROVE  CutGoing(W, a, w, v[n], cut)
<1> DEFINE Good == {m \in Nat : m <= n => CutGoing(W, a, w, v[m], cut) /\ v[m].started = {}}
<1>1. 0 \in Good
  OBVIOUS
<1>2. ASSUME NEW m \in Nat, m \in Good PROVE m + 1 \in Good
  <2>1. CASE m + 1 <= n
    <3>1. CutGoing(W, a, w, v[m], cut) /\ v[m].started = {} /\ m + 1 <= Len(h) /\ m + 1 \in 1 .. n
      BY <1>2, <2>1
    <3>2. PICK q \in Seq(Event) : /\ q # <<>> /\ Head(q) = h[m + 1] /\ h[m + 1] \in Event
                                  /\ CutOk(v[m], q, R) /\ v[m + 1] = CutOver(v[m], h[m + 1])
      BY <3>1, CutNext
    <3>3. PICK d, e : d = v[m] /\ e = h[m + 1] /\ v[m + 1] = CutOver(d, e) /\ e \in Event
      BY <3>2
    <3>4. CutOk(d, q, R) /\ CutGoing(W, a, w, d, cut) /\ d.started = {} /\ Past(e, cut) /\ e \in Event
      BY <3>1, <3>2, <3>3
    <3>5. CutGoing(W, a, w, CutOver(d, e), cut) /\ CutOver(d, e).started = {}
      BY <3>2, <3>4, CutPast
    <3> QED BY <3>3, <3>5
  <2>2. CASE ~(m + 1 <= n)
    BY <2>2
  <2> QED BY <2>1, <2>2
<1> HIDE DEF Good
<1>3. Nat \subseteq Good
  BY <1>1, <1>2, NatSet
<1> QED BY <1>3 DEF Good

\* Over what follows it, everything goes behind what is queued.
LEMMA CutsFollow ==
  ASSUME NEW W \in SUBSET State, NEW a, NEW w \in Seq(Frame), cut \in State, NEW R \in Nat,
         NEW h \in Seq(Event), NEW v, Cutting(h, R, v), NEW k \in Nat, CutGoing(W, a, w, v[k], cut),
         NEW f \in Seq(Event), k + Len(f) <= Len(h), \A i \in 1 .. Len(f) : h[k + i] = f[i],
         NEW u, Path(W, cut, f, u)
  PROVE  CutGoing(W, a, w, v[k + Len(f)], u)
<1>1. PICK p \in [0 .. Len(f) -> W] :
        p[0] = cut /\ p[Len(f)] = u /\ \A i \in 1 .. Len(f) : Step(p[i - 1], f[i], p[i])
  BY DEF Path
<1>2. PICK n \in Nat : n = Len(f)
  OBVIOUS
<1> DEFINE Good == {m \in Nat : m <= n => CutGoing(W, a, w, v[k + m], p[m])}
<1>3. 0 \in Good
  BY <1>1
<1>4. ASSUME NEW m \in Nat, m \in Good PROVE m + 1 \in Good
  <2>1. CASE m + 1 <= n
    <3>1. /\ CutGoing(W, a, w, v[k + m], p[m]) /\ (k + m) + 1 <= Len(h) /\ k + m \in Nat
          /\ (k + m) + 1 = k + (m + 1) /\ m + 1 \in 1 .. Len(f) /\ (m + 1) - 1 = m
          /\ m \in 0 .. Len(f) /\ m + 1 \in 0 .. Len(f)
      <4>1. PICK l \in Nat : l = Len(h) /\ k + n <= l
        BY <1>2
      <4>2. m <= n /\ (k + m) + 1 <= l /\ k + m \in Nat /\ (k + m) + 1 = k + (m + 1) /\ (m + 1) - 1 = m
            /\ m + 1 \in 1 .. n /\ m \in 0 .. n /\ m + 1 \in 0 .. n
        BY <2>1, <4>1
      <4>3. CutGoing(W, a, w, v[k + m], p[m])
        BY <1>4, <4>2
      <4> QED BY <1>2, <4>1, <4>2, <4>3
    <3>2. PICK q \in Seq(Event) : /\ q # <<>> /\ Head(q) = h[(k + m) + 1] /\ h[(k + m) + 1] \in Event
                                  /\ CutOk(v[k + m], q, R)
                                  /\ v[(k + m) + 1] = CutOver(v[k + m], h[(k + m) + 1])
      BY <3>1, CutNext
    <3>3. PICK d, e : d = v[k + m] /\ e = f[m + 1] /\ v[k + (m + 1)] = CutOver(d, e) /\ e \in Event /\ Head(q) = e
      BY <3>1, <3>2
    <3>4. PICK x \in W, y \in W : x = p[m] /\ y = p[m + 1] /\ Step(x, e, y)
      <4>1. Step(p[(m + 1) - 1], f[m + 1], p[m + 1])
        BY <1>1, <3>1
      <4>2. p[m] \in W /\ p[m + 1] \in W
        BY <3>1
      <4> QED BY <3>1, <3>3, <4>1, <4>2
    <3>5. Follows(x, e, y)
      <4>1. e.kind # "snap"
        BY <3>3, EventParts
      <4> QED BY <3>4, <4>1 DEF Step
    <3>6. CutOk(d, q, R) /\ CutGoing(W, a, w, d, x) /\ q # <<>> /\ e = Head(q)
      BY <3>1, <3>2, <3>3, <3>4
    <3>7. CutGoing(W, a, w, CutOver(d, e), y)
      BY <3>3, <3>5, <3>6, CutFollows
    <3> QED BY <3>3, <3>4, <3>7
  <2>2. CASE ~(m + 1 <= n)
    BY <2>2
  <2> QED BY <2>1, <2>2
<1> HIDE DEF Good
<1>5. Nat \subseteq Good
  BY <1>3, <1>4, NatSet
<1> QED BY <1>1, <1>2, <1>5 DEF Good

\* A cutover that ended before the last event has ended.
LEMMA CutEnds ==
  ASSUME NEW R \in Nat, NEW h \in Seq(Event), NEW v, Cutting(h, R, v), NEW k \in Nat, k <= Len(h), Stopped(v[k])
  PROVE  Stopped(v[Len(h)])
<1>1. PICK n \in Nat : n = Len(h)
  OBVIOUS
<1> DEFINE Good == {m \in Nat : k + m <= n => Stopped(v[k + m])}
<1>2. 0 \in Good
  OBVIOUS
<1>3. ASSUME NEW m \in Nat, m \in Good PROVE m + 1 \in Good
  <2>1. CASE (k + m) + 1 <= n
    <3>1. Stopped(v[k + m]) /\ (k + m) + 1 <= Len(h) /\ k + m \in Nat /\ (k + m) + 1 = k + (m + 1)
      BY <1>1, <1>3, <2>1
    <3>2. PICK q \in Seq(Event) : /\ CutOk(v[k + m], q, R) /\ v[(k + m) + 1] = CutOver(v[k + m], h[(k + m) + 1])
      BY <3>1, CutNext
    <3>3. v[(k + m) + 1] = v[k + m]
      BY <3>1, <3>2, CutStays
    <3> QED BY <3>1, <3>3
  <2>2. CASE ~((k + m) + 1 <= n)
    BY <2>2
  <2> QED BY <2>1, <2>2
<1> HIDE DEF Good
<1>4. Nat \subseteq Good
  BY <1>2, <1>3, NatSet
<1>5. PICK j \in Nat : k + j = n
  <2>1. n - k \in Nat /\ k + (n - k) = n
    BY <1>1
  <2> QED BY <2>1
<1>6. j \in Good /\ k + j <= n
  BY <1>4, <1>5
<1> QED BY <1>1, <1>5, <1>6 DEF Good

\* d is what the cutover of o comes to.
CutDone(o, r, R, v, d) ==
  v[0] = CutAt(o, r, {}, FALSE) /\ Cutting(o.held, R, v) /\ d = v[Len(o.held)]

\* A revision behind r is not among those held up to a later one.
Missed(h, r) == \E i \in 1 .. Len(h) :
  /\ h[i].kind = "rev" /\ h[i].rev > r + 1
  /\ \A j \in 1 .. i : h[j].kind = "rev" => h[j].rev # h[i].rev - 1

\* What is below u is not the one below e.
LEMMA FarBelow == \A e, u, r \in Nat : e > u + 1 /\ r <= u => \A k \in Nat : k <= r \/ k <= u => k # e - 1
  OBVIOUS

\* The events of a path are no later than its end.
LEMMA PathPast ==
  ASSUME NEW W \in SUBSET State, NEW q \in Seq(Event), NEW a, NEW b, Path(W, a, q, b),
         NEW i \in 1 .. Len(q), q[i].kind = "rev"
  PROVE  q[i].rev <= b.rev
<1>1. PICK n \in Nat : n = Len(q)
  BY Glues
<1>2. PICK f, g : f = SubSeq(q, 1, i) /\ g = SubSeq(q, i + 1, n)
  OBVIOUS
<1>3. f \in Seq(Event) /\ g \in Seq(Event) /\ q = f \o g /\ Len(f) = i /\ f[i] = q[i]
  <2>1. i \in 0 .. Len(q) /\ i \in 1 .. n
    BY <1>1
  <2>2. f \in Seq(Event) /\ g \in Seq(Event) /\ Len(f) = i /\ f[i] = q[i]
    BY <1>1, <1>2, <2>1
  <2>3. q = f \o g
    BY <1>1, <1>2, <2>1
  <2> QED BY <2>2, <2>3
<1>4. PICK t \in W : Path(W, a, f, t) /\ Path(W, t, g, b)
  BY <1>3, PathSplit
<1>5. Before(t, b)
  BY <1>3, <1>4, PathOn, EventsAreFrames
<1>6. PICK p \in [0 .. i -> W] : p[i] = t /\ Step(p[i - 1], f[i], p[i])
  <2>1. PICK p \in [0 .. i -> W] : p[i] = t /\ \A j \in 1 .. i : Step(p[j - 1], f[j], p[j])
    BY <1>3, <1>4 DEF Path
  <2>2. i \in 1 .. i
    OBVIOUS
  <2> QED BY <2>1, <2>2
<1>7. q[i].rev <= t.rev
  <2>1. PICK y \in State : y = p[i - 1]
    <3>1. i - 1 \in 0 .. i
      OBVIOUS
    <3> QED BY <3>1
  <2>2. Follows(y, q[i], t)
    BY <1>3, <1>6, <2>1 DEF Step
  <2>3. t = Changed(y, q[i].change) /\ q[i].rev = y.rev + 1
    BY <2>2 DEF Follows
  <2>4. Changed(y, q[i].change).rev = y.rev + 1
    BY ChangedParts
  <2>5. y.rev \in Nat
    BY StateParts
  <2> QED BY <2>3, <2>4, <2>5
<1>8. t.rev \in Nat /\ b.rev \in Nat /\ q[i].rev \in Nat /\ t.rev <= b.rev
  <2>1. t \in State /\ b \in State /\ q[i] \in Event
    BY <1>4, <1>3, PathEnds
  <2>2. t.rev \in Nat /\ b.rev \in Nat /\ q[i].rev \in Nat
    BY <2>1, StateParts, EventParts
  <2> QED BY <1>5, <2>2 DEF Before
<1> QED BY <1>7, <1>8

\* The whole cutover: the connection is live, at the session, or must close;
\* for a gap only when a revision is missed.
LEMMA StreamCuts ==
  ASSUME NEW W \in SUBSET State, NEW c \in Client, NEW k, NEW w \in Seq(Frame), NEW o \in Outbox, NEW r \in Nat,
         NEW S \in State, NEW st, Len(st) = 0, StreamAt(W, c, k, w, o, "captured", r, c, cut, S, st),
         NEW R \in Nat, NEW v, NEW d, CutDone(o, r, R, v, d), NEW att, NEW ct
  PROVE  /\ ~Stopped(d) => StreamAt(W, c, k, w, d.out, "live", d.rev, att, ct, S, st) \/ att = c
         /\ d.gap = FALSE \/ Missed(o.held, r)
<1>1. PICK a \in W, b \in W : /\ LineAt(W, k, w \o o.queue, a, b, S)
                              /\ ModeAt(W, c, k, w \o o.queue, o, "captured", r, c, cut, S, st, b)
  BY DEF StreamAt
<1>2. Path(W, a, w \o o.queue, b) /\ Viewed(W, k, a)
  BY <1>1 DEF LineAt
<1>3. cut = b /\ r = b.rev /\ Snapped(o.queue) /\ HeldOver(W, c, o.held, cut, S, st) /\ k.status = "awaiting"
  BY <1>1 DEF ModeAt, CapturedAt, StreamAt
<1>4. b \in State /\ cut \in State
  BY <1>3
<1>5. v[0].out = o /\ v[0].rev = r /\ v[0].started = {} /\ v[0].gap = FALSE
  BY DEF CutAt, CutDone
<1>6. CutGoing(W, a, w, v[0], cut)
  <2>1. Before(cut, cut)
    BY <1>4, BeforeSame
  <2> QED BY <1>2, <1>3, <1>5, <2>1 DEF CutGoing, Started
<1>7. PICK h \in Seq(Event), n \in Nat : h = o.held /\ n = Len(h) /\ Cutting(h, R, v) /\ d = v[n]
  BY DEF Outbox, CutDone
<1>8. PICK g \in Seq(Event), f \in Seq(Event), u \in W :
        /\ \A i \in 1 .. Len(g) : Past(g[i], cut)
        /\ Path(W, cut, f, u)
        /\ \/ h = g \o f /\ Lead(c, st, S, u)
           \/ Acp # {} /\ \E e \in RevEvent, t \in Seq(Event) : h = (g \o f) \o (<<e>> \o t) /\ e.rev > u.rev + 1
  BY <1>3, <1>7 DEF HeldOver
<1>9. PICK i \in Nat, j \in Nat : i = Len(g) /\ j = Len(f)
  OBVIOUS
<1>10. ASSUME NEW q \in Seq(Event), h = (g \o f) \o q
       PROVE  i + j <= n /\ CutGoing(W, a, w, v[i + j], u) /\ n = (i + j) + Len(q)
              /\ \A m \in 1 .. Len(q) : h[(i + j) + m] = q[m]
  <2>1. PICK z \in Seq(Event) : z = g \o f /\ h = z \o q
    <3>1. g \o f \in Seq(Event)
      BY Glues
    <3> QED BY <1>10, <3>1, Zenon
  <2>2. /\ Len(z) = i + j /\ \A m \in 1 .. i : z[m] = g[m]
        /\ \A m \in 1 .. j : z[i + m] = f[m]
    BY <1>9, <2>1, Glues
  <2>3. /\ n = Len(z) + Len(q) /\ Len(q) \in Nat /\ \A m \in 1 .. Len(z) : h[m] = z[m]
        /\ \A m \in 1 .. Len(q) : h[Len(z) + m] = q[m]
    BY <1>7, <2>1, Glues
  <2>4. PICK l \in Nat : l = Len(q) /\ n = (i + j) + l
    BY <2>2, <2>3
  <2>5. i <= n /\ i + j <= n /\ \A m \in 1 .. i : m \in 1 .. (i + j)
    BY <2>4
  <2>6. \A m \in 1 .. j : i + m \in 1 .. (i + j)
    OBVIOUS
  <2>7. \A m \in 1 .. i : h[m] = g[m]
    BY <2>2, <2>3, <2>5
  <2>8. \A m \in 1 .. j : h[i + m] = f[m]
    BY <2>2, <2>3, <2>6
  <2>9. \A m \in 1 .. i : Past(h[m], cut)
    BY <1>8, <1>9, <2>7
  <2>10. i <= Len(h) /\ i + Len(f) <= Len(h) /\ \A m \in 1 .. Len(f) : h[i + m] = f[m]
    BY <1>7, <1>9, <2>5, <2>8
  <2>11. CutGoing(W, a, w, v[i], cut)
    BY <1>4, <1>5, <1>6, <1>7, <2>9, <2>10, CutPasts
  <2>12. CutGoing(W, a, w, v[i + Len(f)], u)
    BY <1>4, <1>7, <1>8, <2>10, <2>11, CutsFollow
  <2> QED BY <1>9, <2>2, <2>3, <2>4, <2>5, <2>12
<1>11. CASE h = g \o f /\ Lead(c, st, S, u)
  <2>1. PICK nil \in Seq(Event) : nil = <<>> /\ h = (g \o f) \o nil /\ Len(nil) = 0
    <3>1. PICK z \in Seq(Event) : z = g \o f
      <4>1. g \o f \in Seq(Event)
        BY Glues
      <4> QED BY <4>1, Zenon
    <3>2. <<>> \in Seq(Event) /\ z \o <<>> = z /\ Len(<<>>) = 0
      OBVIOUS
    <3> QED BY <1>11, <3>1, <3>2
  <2>2. CutGoing(W, a, w, v[i + j], u) /\ n = (i + j) + Len(nil)
    BY <1>10, <2>1
  <2>3. CutGoing(W, a, w, d, u)
    <3>1. n = i + j
      BY <2>1, <2>2
    <3> QED BY <1>7, <2>2, <3>1
  <2>4. u = S
    BY <1>11 DEF Lead
  <2>5. ASSUME ~Stopped(d), att # c
        PROVE  StreamAt(W, c, k, w, d.out, "live", d.rev, att, ct, S, st)
    <3>1. Path(W, a, w \o d.out.queue, S) /\ Snapped(d.out.queue) /\ d.rev = S.rev
      BY <2>3, <2>4, <2>5 DEF CutGoing, Stopped
    <3>2. CutOk(d, SubSeq(h, n + 1, n), R)
      <4>1. n \in 0 .. Len(h)
        BY <1>7
      <4>2. CutOk(v[n], SubSeq(h, n + 1, Len(h)), R)
        BY <1>7, <4>1 DEF Cutting
      <4> QED BY <1>7, <4>2
    <3>3. SubSeq(h, n + 1, n) = <<>>
      BY <1>7
    <3>4. d.out.held = <<>> /\ d.out \in Outbox
      BY <2>5, <3>2, <3>3 DEF CutOk
    <3>5. Snapped(w \o d.out.queue)
      <4>1. d.out.queue \in Seq(Frame)
        BY <3>4 DEF Outbox
      <4> QED BY <3>1, <4>1, SnappedEnd
    <3>6. Before(S, S)
      BY BeforeSame
    <3>7. S \in W
      BY <2>4
    <3>8. LineAt(W, k, w \o d.out.queue, a, S, S)
      BY <1>2, <3>1, <3>6 DEF LineAt
    <3>9. Lead(c, st, S, S) /\ k.status # "none"
      BY <1>3 DEF Lead
    <3>10. ModeAt(W, c, k, w \o d.out.queue, d.out, "live", d.rev, att, ct, S, st, S)
      BY <3>1, <3>4, <3>5, <3>9 DEF ModeAt, LiveAt
    <3> QED BY <2>5, <3>7, <3>8, <3>10 DEF StreamAt
  <2>6. d.gap = FALSE
    BY <2>3 DEF CutGoing
  <2> QED BY <2>5, <2>6
<1>12. ASSUME Acp # {}, NEW e \in RevEvent, NEW t \in Seq(Event), h = (g \o f) \o (<<e>> \o t), e.rev > u.rev + 1
       PROVE  Stopped(d) /\ Missed(h, r)
  <2>1. e \in Event
    BY DEF Event
  <2>2. PICK q \in Seq(Event) : q = <<e>> \o t /\ Len(q) = 1 + Len(t) /\ q[1] = e
    <3>1. <<e>> \in Seq(Event) /\ Len(<<e>>) = 1 /\ <<e>>[1] = e /\ 1 \in 1 .. 1
      BY <2>1
    <3>2. /\ <<e>> \o t \in Seq(Event) /\ Len(<<e>> \o t) = 1 + Len(t) /\ (<<e>> \o t)[1] = e
      BY <3>1, Glues
    <3> QED BY <3>2
  <2>3. /\ i + j <= n /\ CutGoing(W, a, w, v[i + j], u) /\ n = (i + j) + Len(q)
        /\ \A m \in 1 .. Len(q) : h[(i + j) + m] = q[m]
    BY <1>10, <1>12, <2>2
  <2>4. PICK l \in Nat, m \in Nat : l = Len(t) /\ m = i + j /\ n = m + (1 + l) /\ m + 1 <= n /\ 1 \in 1 .. (1 + l)
    <3>1. PICK l \in Nat, m \in Nat : l = Len(t) /\ m = i + j
      OBVIOUS
    <3>2. n = m + (1 + l)
      BY <2>2, <2>3, <3>1
    <3>3. m + 1 <= n /\ 1 \in 1 .. (1 + l)
      BY <3>2
    <3> QED BY <3>1, <3>2, <3>3
  <2>5. h[m + 1] = e /\ CutGoing(W, a, w, v[m], u) /\ m + 1 <= Len(h) /\ m + 1 \in Nat
    BY <1>7, <2>2, <2>3, <2>4
  <2>6. PICK q2 \in Seq(Event) : CutOk(v[m], q2, R) /\ v[m + 1] = CutOver(v[m], h[m + 1])
    BY <1>7, <2>5, CutNext
  <2>7. Stopped(CutOver(v[m], e))
    <3>1. u \in State
      OBVIOUS
    <3> QED BY <1>12, <2>5, <2>6, <3>1, CutMissed
  <2>8. Stopped(v[m + 1])
    BY <2>5, <2>6, <2>7
  <2>9. Stopped(v[Len(h)])
    BY <1>7, <2>5, <2>8, CutEnds
  <2>10. e.kind = "rev" /\ e.rev \in Nat /\ u.rev \in Nat /\ r <= u.rev
    <3>1. Before(cut, u) /\ u \in State
      <4>1. f \in Seq(Frame)
        BY EventsAreFrames
      <4> QED BY <1>8, <4>1, PathOn
    <3>2. cut.rev <= u.rev
      BY <3>1 DEF Before
    <3>3. e.kind = "rev" /\ e.rev \in Nat
      BY DEF RevEvent
    <3> QED BY <1>3, <3>1, <3>2, <3>3, StateParts
  <2>11. ASSUME NEW x \in 1 .. (m + 1), h[x].kind = "rev" PROVE h[x].rev # e.rev - 1
    <3>1. PICK z \in Seq(Event) : z = g \o f /\ h = z \o q /\ Len(z) = i + j
                                  /\ (\A y \in 1 .. i : z[y] = g[y]) /\ \A y \in 1 .. j : z[i + y] = f[y]
      <4>1. g \o f \in Seq(Event)
        BY Glues
      <4>2. PICK z \in Seq(Event) : z = g \o f /\ h = z \o q
        BY <1>12, <2>2, <4>1, Zenon
      <4>3. /\ Len(g \o f) = Len(g) + Len(f)
            /\ \A y \in 1 .. Len(g) : (g \o f)[y] = g[y]
            /\ \A y \in 1 .. Len(f) : (g \o f)[Len(g) + y] = f[y]
        BY Glues
      <4>4. Len(z) = i + j /\ (\A y \in 1 .. i : z[y] = g[y]) /\ \A y \in 1 .. j : z[i + y] = f[y]
        BY <1>9, <4>2, <4>3
      <4> QED BY <4>2, <4>4
    <3>2. \A y \in 1 .. Len(z) : h[y] = z[y]
      BY <3>1, Glues
    <3>7. \A k1 \in Nat : k1 <= r \/ k1 <= u.rev => k1 # e.rev - 1
      <4>1. PICK E1 \in Nat, U1 \in Nat : E1 = e.rev /\ U1 = u.rev /\ E1 > U1 + 1 /\ r <= U1
        BY <1>12, <2>10
      <4>2. \A k1 \in Nat : k1 <= r \/ k1 <= U1 => k1 # E1 - 1
        BY <4>1, FarBelow
      <4> QED BY <4>1, <4>2
    <3>3. CASE x \in 1 .. i
      <4>1. x \in 1 .. Len(z) /\ x \in 1 .. Len(g)
        BY <1>9, <3>1, <3>3
      <4>2. h[x] = g[x] /\ g[x] \in Event
        BY <3>1, <3>2, <3>3, <4>1
      <4>3. g[x].rev <= cut.rev /\ g[x].rev \in Nat
        <5>1. Past(g[x], cut)
          BY <1>8, <4>1
        <5> QED BY <2>11, <4>2, <5>1, EventParts DEF Past
      <4>4. cut.rev = r /\ h[x].rev = g[x].rev
        BY <1>3, <4>2
      <4> QED BY <3>7, <4>3, <4>4
    <3>4. CASE x \in (i + 1) .. (i + j)
      <4>1. PICK y \in 1 .. Len(f) : x = i + y
        <5>1. x - i \in 1 .. j /\ x = i + (x - i)
          BY <3>4
        <5> QED BY <1>9, <5>1
      <4>2. x \in 1 .. Len(z)
        BY <3>1, <3>4
      <4>3. h[x] = f[y] /\ f[y] \in Event
        BY <1>9, <3>1, <3>2, <4>1, <4>2
      <4>4. f[y].rev <= u.rev
        BY <1>8, <2>11, <4>1, <4>3, PathPast
      <4>5. f[y].rev \in Nat
        BY <2>11, <4>3, EventParts
      <4>6. h[x].rev = f[y].rev
        BY <4>3
      <4> QED BY <3>7, <4>4, <4>5, <4>6
    <3>5. CASE x = m + 1
      BY <2>5, <2>10, <3>5
    <3>6. x \in 1 .. i \/ x \in (i + 1) .. (i + j) \/ x = m + 1
      BY <2>4
    <3> QED BY <3>3, <3>4, <3>5, <3>6
  <2>12. Missed(h, r)
    <3>1. PICK E1 \in Nat, U1 \in Nat : E1 = e.rev /\ U1 = u.rev /\ E1 > U1 + 1 /\ r <= U1
      BY <1>12, <2>10
    <3>2. E1 > r + 1 /\ m + 1 \in 1 .. Len(h)
      BY <1>7, <2>5, <3>1
    <3>3. m + 1 \in 1 .. Len(h) /\ h[m + 1].rev > r + 1
      BY <2>5, <3>1, <3>2
    <3> QED BY <2>5, <2>10, <2>11, <3>3 DEF Missed
  <2> QED BY <1>7, <2>9, <2>12
<1> QED BY <1>7, <1>8, <1>11, <1>12

\* What was held is cut over.
LEMMA SettleFeed ==
  ASSUME FeedInv, NEW c \in Client, Settle(c)
  PROVE  /\ FeedInv'
         /\ \/ cause' = cause \/ cause' = [cause EXCEPT ![c] = "overflow"]
            \/ cause' = [cause EXCEPT ![c] = "gap"] /\ Missed(out[c].held, at[c])
<1>1. attaching = c /\ stack = <<>> /\ mode[c] = "captured" /\ attaching' = NoClient /\ UNCHANGED <<wire, client>>
  BY DEF Settle
<1>2. /\ TypeInv /\ SessionOk /\ LogOk /\ StackOk(stack, Source.rev) /\ StackIs(stack, Source, strict)
      /\ ConnectionsOk /\ ClientsOk /\ out[c] \in Outbox /\ OutboxOk(out[c]) /\ Source \in State
      /\ ConnectionOk(c) /\ NoClient \notin Client /\ Source.rev \in Nat
  BY Now, FanoutAssumption DEF FeedInv
<1>3. TypeInv'
  BY <1>2, SettleTypes
<1>4. PICK S, k, st : S = Source /\ k = client[c] /\ st = stack
  OBVIOUS
<1>5. PICK W \in SUBSET State, w \in Seq(Frame), o \in Outbox, r \in Nat :
        /\ W = Tracks(log) /\ S = Source /\ w = wire[c] /\ o = out[c] /\ k = client[c] /\ r = at[c] /\ st = stack
  BY <1>4, <1>2, TracksParts DEF LogOk, ClientsOk, ConnectionsOk
<1>6. PICK d : d = FoldLeft(CutOver, CutAt(o, r, {}, FALSE), o.held)
  OBVIOUS
<1>7. PICK v : v[0] = CutAt(o, r, {}, FALSE) /\ Cutting(o.held, Source.rev, v) /\ d = v[Len(o.held)]
  <2>1. r <= Source.rev /\ OutboxOk(o)
        /\ \A i \in DOMAIN o.held : o.held[i].kind = "rev" => o.held[i].rev <= Source.rev
    BY <1>2, <1>5 DEF ConnectionOk, HeldOk
  <2>2. PICK v : /\ CutRun(CutAt(o, r, {}, FALSE), o.held, v)
                 /\ FoldLeft(CutOver, CutAt(o, r, {}, FALSE), o.held) = v[Len(o.held)]
                 /\ \A i \in 0 .. Len(o.held) : CutOk(v[i], SubSeq(o.held, i + 1, Len(o.held)), Source.rev)
    BY <1>2, <2>1, CutOvers
  <2> QED BY <1>6, <2>2 DEF CutRun, Cutting
<1>8. /\ ~Stopped(d) => StreamAt(W, c, k, w, d.out, "live", d.rev, NoClient, NoView, S, st)
      /\ d.gap = FALSE \/ Missed(o.held, r)
  <2>1. StreamAt(W, c, k, w, o, "captured", r, c, cut, S, st)
    BY <1>1, <1>5 DEF FeedInv, Stream
  <2>2. S \in State /\ Len(st) = 0 /\ NoClient # c
    BY <1>1, <1>2, <1>5
  <2>3. PICK R \in Nat : R = Source.rev /\ Cutting(o.held, R, v)
    BY <1>2, <1>7
  <2>4. PICK att, ct, su, l : att = NoClient /\ ct = NoView /\ su = st /\ l = k
    OBVIOUS
  <2>5. PICK T \in State : T = S /\ att = NoClient /\ ct = NoView /\ su = st /\ l = k
    BY <2>4, <2>2
  <2>6. Len(su) = 0
    BY <2>2, <2>5
  <2>7. CutDone(o, r, R, v, d)
    BY <1>7, <2>3 DEF CutDone
  <2>8. StreamAt(W, c, l, w, o, "captured", r, c, cut, T, su)
    BY <2>1, <2>5
  <2>9. /\ ~Stopped(d) => StreamAt(W, c, l, w, d.out, "live", d.rev, att, ct, T, su) \/ att = c
        /\ d.gap = FALSE \/ Missed(o.held, r)
    BY <2>6, <2>7, <2>8, StreamCuts
  <2> QED BY <2>2, <2>5, <2>9
<1>9. CASE Stopped(d)
  <2>1. PICK why : Close(c, why, stack) /\ why = (IF d.gap THEN "gap" ELSE "overflow")
    BY <1>5, <1>6, <1>9 DEF Settle, CutAt, Stopped
  <2>2. Turned(stack)
    BY <1>2, <2>1, TurnClose
  <2>3. /\ out'[c] = Empty /\ mode'[c] = "closed"
        /\ \A e \in Client : e # c => out'[e] = out[e] /\ at'[e] = at[e] /\ mode'[e] = mode[e]
    BY <1>2, <2>1, Closing
  <2>4. ASSUME NEW e \in Client, e # c PROVE Stream(e)'
    BY <1>1, <1>2, <2>2, <2>3, <2>4, Others
  <2>5. Stream(c)'
    BY <1>1, <1>2, <2>2, <2>3, Goes
  <2>6. Climbs' /\ StackIs(stack', Source', strict')
    BY <2>2, Turns
  <2>7. FeedInv'
    BY <1>3, <2>4, <2>5, <2>6 DEF FeedInv
  <2>8. why = "overflow" \/ (why = "gap" /\ Missed(o.held, r))
    BY <1>8, <2>1
  <2>9. cause' = [cause EXCEPT ![c] = why]
    BY <2>1 DEF Close
  <2> QED BY <1>5, <2>7, <2>8, <2>9
<1>10. CASE ~Stopped(d)
  <2>1. /\ out' = [out EXCEPT ![c] = d.out] /\ at' = [at EXCEPT ![c] = d.rev]
        /\ mode' = [mode EXCEPT ![c] = "live"] /\ UNCHANGED <<log, strict, stack, order, cause>>
        /\ cut' = NoView
    BY <1>5, <1>6, <1>10 DEF Settle, CutAt, Stopped
  <2>2. Turned(stack)
    BY <1>2, <2>1, TurnSame
  <2>3. /\ out'[c] = d.out /\ at'[c] = d.rev /\ mode'[c] = "live"
        /\ \A e \in Client : e # c => out'[e] = out[e] /\ at'[e] = at[e] /\ mode'[e] = mode[e]
    BY <1>2, <2>1 DEF ConnectionsOk
  <2>4. ASSUME NEW e \in Client, e # c PROVE Stream(e)'
    BY <1>1, <1>2, <2>2, <2>3, <2>4, Others
  <2>5. W = Tracks(log') /\ S = Source' /\ client'[c] = k /\ wire'[c] = w /\ stack' = st
    BY <1>1, <1>5, <2>1 DEF Source
  <2>6. StreamAt(W, c, k, w, d.out, "live", d.rev, NoClient, NoView, S, st)
    BY <1>8, <1>10
  <2>7. Stream(c)'
    BY <1>1, <2>1, <2>3, <2>5, <2>6 DEF Stream
  <2>8. Climbs' /\ StackIs(stack', Source', strict')
    BY <2>2, Turns
  <2>9. FeedInv'
    BY <1>3, <2>4, <2>7, <2>8 DEF FeedInv
  <2> QED BY <2>1, <2>9
<1> QED BY <1>9, <1>10

\* At first nobody is attached and nothing is on its way.
LEMMA InitFeed == ASSUME Init PROVE FeedInv
<1>1. TypeInv /\ LogOk /\ Source \in State /\ NoClient \notin Client
  BY InitTypes, Now, FanoutAssumption
<1>2. PICK s : log = <<s>> /\ Source = s
  BY DEF Init, Source, Last
<1>3. Climbs
  BY <1>2 DEF Climbs
<1>4. StackIs(stack, Source, strict)
  BY DEF Init, StackIs
<1>5. ASSUME NEW c \in Client PROVE Stream(c)
  <2>1. PICK W \in SUBSET State, S \in State : W = Tracks(log) /\ S = Source /\ S \in W
    BY <1>1, TracksParts DEF LogOk, Source
  <2>2. Idle.view = NoView /\ Idle.status = "none" /\ Idle.kept = <<>> /\ Empty.queue = <<>>
    BY DEF Idle, Empty
  <2>3. Len(<<>>) = 0 /\ 1 .. 0 = {} /\ <<>> \o <<>> = <<>>
    OBVIOUS
  <2>4. Viewed(W, Idle, S)
    BY <2>2, <2>3 DEF Viewed
  <2>5. Path(W, S, <<>>, S)
    BY <2>1, PathNone
  <2>6. Before(S, S)
    BY BeforeSame
  <2>7. LineAt(W, Idle, <<>> \o Empty.queue, S, S, S)
    BY <2>2, <2>3, <2>4, <2>5, <2>6 DEF LineAt
  <2>8. ModeAt(W, c, Idle, <<>> \o Empty.queue, Empty, "closed", 0, NoClient, NoView, S, <<>>, S)
    BY DEF ModeAt
  <2>9. StreamAt(W, c, Idle, <<>>, Empty, "closed", 0, NoClient, NoView, S, <<>>)
    BY <1>1, <2>1, <2>7, <2>8 DEF StreamAt
  <2>10. client[c] = Idle /\ wire[c] = <<>> /\ out[c] = Empty /\ mode[c] = "closed" /\ at[c] = 0
         /\ attaching = NoClient /\ cut = NoView /\ stack = <<>>
    BY DEF Init
  <2> QED BY <2>1, <2>9, <2>10 DEF Stream
<1> QED BY <1>1, <1>3, <1>4, <1>5 DEF FeedInv

\* Every step keeps the invariant.
LEMMA NextFeed == ASSUME FeedInv, [Next]_vars PROVE FeedInv'
<1>1. CASE Produce \/ Deliver \/ Delivered
  BY <1>1, ProduceFeed, DeliverFeed, DeliveredFeed
<1>2. ASSUME NEW c \in Client, Attach(c) \/ Detach(c) \/ Transport(c)
      PROVE  FeedInv'
  <2>1. CASE Attach(c)
    <3>1. Ask(c) \/ Subscribe(c) \/ Capture(c) \/ Settle(c) \/ Abandon(c)
      BY <2>1 DEF Attach
    <3> QED BY <3>1, AskFeed, SubscribeFeed, CaptureFeed, SettleFeed, AbandonFeed
  <2>2. CASE Detach(c)
    BY <2>2, DetachFeed
  <2>3. CASE Transport(c)
    <3>1. Flush(c) \/ Written(c) \/ Drain(c) \/ Hang(c) \/ Read(c)
      BY <2>3 DEF Transport
    <3> QED BY <3>1, FlushFeed, WrittenFeed, DrainFeed, HangFeed, ReadFeed
  <2> QED BY <1>2, <2>1, <2>2, <2>3
<1>3. CASE UNCHANGED vars
  <2>1. UNCHANGED <<log, strict, stack, attaching, cut, mode, at, out, wire, client>>
    BY <1>3 DEF vars
  <2>2. TypeInv /\ LogOk /\ StackIs(stack, Source, strict)
    BY Now DEF FeedInv
  <2>3. Turned(stack)
    BY <2>1, <2>2, TurnSame
  <2>4. ASSUME NEW c \in Client PROVE Stream(c)'
    BY <2>1, <2>3, Others
  <2>5. TypeInv'
    BY <1>3, <2>2, NextTypes
  <2>6. Climbs' /\ StackIs(stack', Source', strict')
    BY <2>3, Turns
  <2> QED BY <2>4, <2>5, <2>6 DEF FeedInv
<1> QED BY <1>1, <1>2, <1>3 DEF Next

\* It is what the runs check.
LEMMA FeedHolds == ASSUME FeedInv PROVE PipelineIsCurrent
<1>1. TypeInv
  BY DEF FeedInv
<1>2. TypeOK /\ Accounting
  BY <1>1, TypesHold
<1>3. ASSUME Quiet, NEW c \in Client, mode[c] = "live"
      PROVE  FoldLeft(Digest, client[c], wire[c] \o out[c].queue) = [view |-> Source, status |-> "live", kept |-> <<>>]
  <2>1. LogOk /\ ClientsOk /\ out[c] \in Outbox /\ NoClient \notin Client
    BY <1>1, Now, FanoutAssumption
  <2>2. PICK S, r, ct, st : S = Source /\ r = at[c] /\ ct = cut /\ st = stack
    OBVIOUS
  <2>3. PICK W \in SUBSET State, w \in Seq(Frame), o \in Outbox, k \in Viewer :
          /\ W = Tracks(log) /\ S = Source /\ w = wire[c] /\ o = out[c] /\ k = client[c] /\ r = at[c]
          /\ ct = cut /\ st = stack
    BY <2>2, <2>1, TracksParts DEF LogOk, ClientsOk
  <2>4. StreamAt(W, c, k, w, o, "live", r, NoClient, ct, S, st)
    BY <1>3, <2>3 DEF FeedInv, Stream, Quiet
  <2>5. PICK q \in Seq(Frame) : q = w \o o.queue
    BY Glues DEF Outbox
  <2>6. PICK a \in W, b \in W : LineAt(W, k, q, a, b, S) /\ LiveAt(c, k, q, o, r, NoClient, S, st, b)
    BY <2>4, <2>5 DEF StreamAt, ModeAt
  <2>7. Len(st) = 0
    BY <1>3, <2>3 DEF Quiet
  <2>8. b = S
    BY <2>6, <2>7 DEF LiveAt, Lead
  <2>9. k.status = "live" \/ (k.status # "none" /\ Snapped(q))
    BY <2>1, <2>6 DEF LiveAt
  <2>10. FoldLeft(Digest, k, q) = Fresh(S)
    BY <2>6, <2>8, <2>9, Arrives DEF LineAt
  <2> QED BY <2>3, <2>5, <2>10 DEF Fresh
<1> QED BY <1>2, <1>3 DEF PipelineIsCurrent

\* Between turns, what a client has, followed by what is on the wire and in
\* the queue, is the session (fanout.ts:58-111, 146-166), for any number of
\* clients and limits, whatever order they attach, detach and read in.
THEOREM Current == Spec => []PipelineIsCurrent
<1>1. Init => FeedInv
  BY InitFeed
<1>2. FeedInv /\ [Next]_vars => FeedInv'
  BY NextFeed
<1>3. FeedInv => PipelineIsCurrent
  BY FeedHolds
<1> QED BY <1>1, <1>2, <1>3, PTL DEF Spec

-----------------------------------------------------------------------------
(* Every revision since the snapshot of a connection that attaches is held *)
(* for it or is still to be told to it: a revision that is missed is only  *)
(* late, and comes behind the one that overtook it.                        *)
Tells(e, n) == e.kind = "invalidate" \/ (e.kind = "rev" /\ e.rev = n)
\* A publication in progress has yet to tell it to c.
Pending(c, st, n) == \E i \in 1 .. Len(st) : c \notin st[i].seen /\ Tells(st[i].event, n)
\* It is held, or pending.
Reaches(c, h, st, n) == (\E i \in 1 .. Len(h) : h[i].kind = "rev" /\ h[i].rev = n) \/ Pending(c, st, n)
Complete(c) == mode[c] = "captured" =>
  \A n \in Nat : at[c] < n /\ n <= Source.rev => Reaches(c, out[c].held, stack, n)
Causes == {"none", "closed", "overflow", "invalidated", "gap"}
Late == cause \in [Client -> Causes] /\ \A c \in Client : Complete(c)

\* What is pending stays so when a publication begins inside.
LEMMA PendingPush ==
  ASSUME NEW st \in Seq(Publication), NEW e \in Signal, NEW c \in Client, NEW n, Pending(c, st, n) \/ Tells(e, n)
  PROVE  Pending(c, Push(e, st), n)
<1>1. /\ Len(Push(e, st)) = Len(st) + 1 /\ Push(e, st)[1].event = e /\ Push(e, st)[1].seen = {}
      /\ \A i \in 1 .. Len(st) : Push(e, st)[i + 1] = st[i]
  BY Pushes
<1>2. PICK m \in Nat : m = Len(st)
  OBVIOUS
<1>3. CASE Pending(c, st, n)
  <2>1. PICK i \in 1 .. m : c \notin st[i].seen /\ Tells(st[i].event, n)
    BY <1>2, <1>3 DEF Pending
  <2>2. i + 1 \in 1 .. (m + 1)
    OBVIOUS
  <2> QED BY <1>1, <1>2, <2>1, <2>2 DEF Pending
<1>4. CASE Tells(e, n)
  <2>1. 1 \in 1 .. (m + 1)
    OBVIOUS
  <2> QED BY <1>1, <1>2, <1>4, <2>1 DEF Pending
<1> QED BY <1>3, <1>4

\* When one is told, to it only this is no longer pending.
LEMMA PendingMark ==
  ASSUME NEW st \in Seq(Publication), st # <<>>, NEW c \in Client, NEW d \in Client, NEW n, Pending(c, st, n)
  PROVE  Pending(c, Mark(d, st), n) \/ (c = d /\ Tells(st[1].event, n))
<1>1. /\ Len(Mark(d, st)) = Len(st) /\ Mark(d, st)[1].seen = st[1].seen \cup {d}
      /\ \A i \in 2 .. Len(st) : Mark(d, st)[i] = st[i]
      /\ \A i \in 1 .. Len(st) : Mark(d, st)[i].event = st[i].event
  BY Marks
<1>2. PICK i \in 1 .. Len(st) : c \notin st[i].seen /\ Tells(st[i].event, n)
  BY DEF Pending
<1>3. CASE i = 1
  <2>1. CASE c = d
    BY <1>2, <1>3, <2>1
  <2>2. CASE c # d
    <3>1. c \notin Mark(d, st)[1].seen /\ Tells(Mark(d, st)[1].event, n) /\ 1 \in 1 .. Len(Mark(d, st))
      BY <1>1, <1>2, <1>3, <2>2
    <3> QED BY <3>1 DEF Pending
  <2> QED BY <2>1, <2>2
<1>4. CASE i # 1
  <2>1. i \in 2 .. Len(st)
    BY <1>4
  <2> QED BY <1>1, <1>2, <2>1 DEF Pending
<1> QED BY <1>3, <1>4

\* A publication ends when nothing of it is pending.
LEMMA PendingTail ==
  ASSUME NEW st \in Seq(Publication), st # <<>>, NEW c \in Client, c \in st[1].seen, NEW n, Pending(c, st, n)
  PROVE  Pending(c, Tail(st), n)
<1>1. /\ Tail(st) \in Seq(Publication) /\ Len(st) = Len(Tail(st)) + 1
      /\ \A i \in 1 .. Len(Tail(st)) : Tail(st)[i] = st[i + 1]
  BY Pops
<1>2. PICK i \in 1 .. Len(st) : c \notin st[i].seen /\ Tells(st[i].event, n)
  BY DEF Pending
<1>3. PICK t \in Seq(Publication) : t = Tail(st)
  BY <1>1
<1>7. PICK m \in Nat : m = Len(t)
  OBVIOUS
<1>4. i # 1
  BY <1>2
<1>5. PICK j \in 1 .. m : i = j + 1
  <2>1. i \in 1 .. (m + 1)
    BY <1>1, <1>2, <1>3, <1>7
  <2>2. i - 1 \in 1 .. m /\ i = (i - 1) + 1
    BY <1>4, <2>1
  <2> QED BY <2>2
<1>6. t[j] = st[i]
  BY <1>1, <1>3, <1>5, <1>7
<1> QED BY <1>2, <1>3, <1>5, <1>6, <1>7 DEF Pending

-----------------------------------------------------------------------------
(* A step from st loses nothing that is pending for c, and what is         *)
(* committed in it is.                                                     *)
Heard(c, st) ==
  /\ \A n : Pending(c, st, n) => Pending(c, stack', n)
  /\ \A n \in Nat : Source.rev < n /\ n <= Source'.rev => Pending(c, stack', n)

\* Nothing is published.
LEMMA HeardStill ==
  ASSUME TypeInv, NEW st, stack' = st, log' = log
  PROVE  \A c : Heard(c, st)
<1>1. Source' = Source /\ Source.rev \in Nat
  BY Now DEF Source
<1> QED BY <1>1 DEF Heard

\* A change is.
LEMMA HeardMore ==
  ASSUME TypeInv, NEW st \in Seq(Publication), NEW e \in Signal, NEW s \in State, Publish(e, s, st),
         s.rev = Source.rev \/ (s.rev = Source.rev + 1 /\ Tells(e, s.rev))
  PROVE  \A c \in Client : Heard(c, st)
<1>1. Source.rev \in Nat /\ LogOk
  BY Now
<1>2. stack' = Push(e, st) /\ Source' = s
  <2>1. stack' = Push(e, st)
    BY DEF Publish, Push
  <2>2. PICK l : l = log' /\ l = Append(log, s)
    BY DEF Publish
  <2>3. Last(l) = s
    BY <1>1, <2>2 DEF LogOk, Last
  <2> QED BY <2>1, <2>2, <2>3 DEF Source
<1> SUFFICES ASSUME NEW c \in Client PROVE Heard(c, st)
  OBVIOUS
<1>3. \A n : Pending(c, st, n) \/ Tells(e, n) => Pending(c, Push(e, st), n)
  BY PendingPush
<1>4. ASSUME NEW n \in Nat, Source.rev < n, n <= Source'.rev PROVE Tells(e, n)
  <2>1. PICK R \in Nat : R = Source.rev
    BY <1>1
  <2>2. s.rev = R + 1 /\ n = R + 1 /\ Tells(e, s.rev)
    <3>1. CASE s.rev = R
      BY <1>2, <1>4, <2>1, <3>1
    <3>2. CASE s.rev = R + 1 /\ Tells(e, s.rev)
      BY <1>2, <1>4, <2>1, <3>2
    <3> QED BY <2>1, <3>1, <3>2
  <2> QED BY <2>2
<1> QED BY <1>2, <1>3, <1>4 DEF Heard

\* A change of the session is.
LEMMA HeardChange ==
  ASSUME TypeInv, NEW st \in Seq(Publication), NEW change \in Changes, PublishChange(change, st)
  PROVE  \A c \in Client : Heard(c, st)
<1>1. Source \in State /\ Source.rev \in Nat
  BY Now
<1>2. PICK s \in State : s = Changed(Source, change) /\ s.rev = Source.rev + 1
  BY <1>1, Changing
<1>3. PICK e \in Signal : e = Rev(s, change) /\ Tells(e, s.rev)
  <2>1. Rev(s, change) \in Signal
    <3>1. s.rev \in Nat
      BY StateParts
    <3> QED BY <3>1 DEF Signal, Event, RevEvent, Rev
  <2>2. Tells(Rev(s, change), s.rev)
    BY DEF Rev, Tells
  <2> QED BY <2>1, <2>2
<1>4. Publish(e, s, st)
  BY <1>2, <1>3 DEF PublishChange
<1> QED BY <1>2, <1>3, <1>4, HeardMore

\* A policy may be relaxed.
LEMMA HeardRelax ==
  ASSUME TypeInv, NEW st \in Seq(Publication), NEW d, Relax(d, st)
  PROVE  \A c \in Client : Heard(c, st)
<1>1. CASE PublishChange("policy", st)
  BY <1>1, HeardChange DEF Changes
<1>2. CASE stack' = st /\ log' = log
  BY <1>2, HeardStill
<1> QED BY <1>1, <1>2 DEF Relax

\* A connection closes.
LEMMA HeardClose ==
  ASSUME TypeInv, NEW st \in Seq(Publication), NEW d, NEW why, Close(d, why, st)
  PROVE  \A c \in Client : Heard(c, st)
<1>1. CASE Relax(d, st)
  BY <1>1, HeardRelax
<1>2. CASE stack' = st /\ log' = log
  BY <1>2, HeardStill
<1> QED BY <1>1, <1>2 DEF Close

\* An outbox is stored.
LEMMA HeardStore ==
  ASSUME TypeInv, NEW st \in Seq(Publication), NEW d, NEW o, NEW r, Store(d, o, r, st)
  PROVE  \A c \in Client : Heard(c, st)
<1>1. CASE Close(d, "overflow", st)
  BY <1>1, HeardClose
<1>2. CASE stack' = st /\ log' = log
  BY <1>2, HeardStill
<1> QED BY <1>1, <1>2 DEF Store

\* A listener is told.
LEMMA HeardReceive ==
  ASSUME TypeInv, NEW st \in Seq(Publication), NEW d, NEW e, Receives(d, e, st)
  PROVE  \A c \in Client : Heard(c, st)
<1>1. \/ \E why : Close(d, why, st)
      \/ \E o, r : Store(d, o, r, st)
      \/ stack' = st /\ log' = log
  BY DEF Receives
<1> QED BY <1>1, HeardClose, HeardStore, HeardStill

\* A connection that keeps its snapshot and what it holds hears the rest.
LEMMA CompleteOn ==
  ASSUME TypeInv, NEW c \in Client, Complete(c), mode'[c] = "captured" => mode[c] = "captured",
         mode'[c] = "captured" => at'[c] = at[c] /\ out'[c].held = out[c].held, Heard(c, stack)
  PROVE  Complete(c)'
<1>1. SUFFICES ASSUME mode'[c] = "captured", NEW n \in Nat, at'[c] < n, n <= Source'.rev
               PROVE  Reaches(c, out'[c].held, stack', n)
  BY DEF Complete
<1>2. at[c] < n /\ mode[c] = "captured" /\ out'[c].held = out[c].held
  BY <1>1
<1>3. Source.rev \in Nat
  BY Now
<1>4. CASE n <= Source.rev
  <2>1. Reaches(c, out[c].held, stack, n)
    BY <1>2, <1>4 DEF Complete
  <2> QED BY <1>2, <2>1 DEF Reaches, Heard
<1>5. CASE Source.rev < n
  BY <1>1, <1>5 DEF Reaches, Heard
<1> QED BY <1>3, <1>4, <1>5

\* A listener is told: what it is told is held, or it is not waiting for it.
LEMMA DeliverLate ==
  ASSUME FeedInv, Late, Deliver, NEW d \in Client
  PROVE  Complete(d)'
<1>1. stack # <<>> /\ Uncalled # {}
  BY DEF Deliver
<1>2. TypeInv /\ OrderOk /\ StackOk(stack, Source.rev) /\ stack \in Seq(Publication) /\ ConnectionsOk
  BY Now DEF FeedInv, StackOk
<1>3. PICK c \in Client : c = Listener /\ c \notin stack[1].seen
  BY <1>1, <1>2, Listens DEF OrderOk
<1>4. PICK e \in Signal : e = stack[1].event
  <2>1. PICK s \in Seq(Publication) : s = stack
    BY <1>2
  <2>2. 1 \in 1 .. Len(s)
    BY <1>1, <2>1
  <2>3. s[1] \in Publication
    BY <2>1, <2>2
  <2>4. s[1].event \in Signal
    BY <2>3 DEF Publication
  <2> QED BY <2>1, <2>4
<1>5. PICK st \in Seq(Publication) : st = Mark(c, stack)
  BY <1>1, <1>2, Marks
<1>6. Receives(c, e, st)
  BY <1>3, <1>4, <1>5 DEF Deliver, Mark
<1>7. Heard(d, st)
  BY <1>2, <1>6, HeardReceive
<1>8. \A n : Pending(d, stack, n) => Pending(d, st, n) \/ (d = c /\ Tells(e, n))
  BY <1>1, <1>2, <1>4, <1>5, PendingMark
<1>9. CASE d # c
  <2>1. out'[d] = out[d] /\ at'[d] = at[d] /\ mode'[d] = mode[d]
    BY <1>2, <1>6, <1>9, Telling
  <2>2. Heard(d, stack)
    BY <1>7, <1>8, <1>9 DEF Heard
  <2> QED BY <1>2, <2>1, <2>2, CompleteOn DEF Late
<1>10. CASE d = c
  <2>1. SUFFICES ASSUME mode'[c] = "captured" PROVE Complete(c)'
    BY <1>10 DEF Complete
  <2>2. mode'[c] # "closed"
    BY <2>1
  <2>3. \A why : ~Close(c, why, st)
    BY <1>2, <2>2, Closing
  <2>4. mode[c] # "live"
    <3>1. ASSUME mode[c] = "live" PROVE mode'[c] = "live"
      <4>1. mode' = mode \/ \E o, r : Store(c, o, r, st)
        BY <1>6, <2>3, <3>1 DEF Receives
      <4>2. ASSUME NEW o, NEW r, Store(c, o, r, st) PROVE mode' = mode
        BY <2>3, <4>2 DEF Store
      <4> QED BY <3>1, <4>1, <4>2
    <3> QED BY <2>1, <3>1
  <2>5. e.kind # "invalidate" /\ Store(c, Hold(out[c], e), at[c], st)
    BY <1>6, <2>3, <2>4 DEF Receives
  <2>6. PICK p : p = Hold(out[c], e)
    OBVIOUS
  <2>7. p # Overflowed
    BY <2>3, <2>5, <2>6 DEF Store
  <2>8. /\ out'[c] = p /\ at'[c] = at[c] /\ mode'[c] = mode[c] /\ stack' = st /\ Source' = Source
    BY <1>2, <2>5, <2>6, <2>7, Storing
  <2>9. e \in Event /\ OutboxOk(out[c]) /\ out[c] \in Outbox
    BY <1>2, <2>5, Now DEF Signal
  <2>10. PICK h \in Seq(Event) : h = out[c].held
    BY <2>9 DEF Outbox
  <2>11. p.held = Append(h, e)
    BY <2>6, <2>7, <2>9, <2>10, Holds
  <2>12. ASSUME NEW n \in Nat, at[c] < n, n <= Source.rev PROVE Reaches(c, p.held, st, n)
    <3>1. Reaches(c, h, stack, n)
      BY <2>1, <2>8, <2>10, <2>12 DEF Late, Complete
    <3>2. CASE \E i \in 1 .. Len(h) : h[i].kind = "rev" /\ h[i].rev = n
      <4>1. PICK i \in 1 .. Len(h) : h[i].kind = "rev" /\ h[i].rev = n
        BY <3>2
      <4>2. i \in 1 .. Len(Append(h, e)) /\ Append(h, e)[i] = h[i]
        OBVIOUS
      <4> QED BY <2>11, <4>1, <4>2 DEF Reaches
    <3>3. CASE Pending(c, stack, n)
      <4>1. Pending(c, st, n) \/ Tells(e, n)
        BY <1>8, <1>10, <3>3
      <4>2. CASE Tells(e, n)
        <5>1. Len(h) + 1 \in 1 .. Len(Append(h, e)) /\ Append(h, e)[Len(h) + 1] = e
          OBVIOUS
        <5>2. e.kind = "rev" /\ e.rev = n
          BY <2>5, <4>2 DEF Tells
        <5> QED BY <2>11, <5>1, <5>2 DEF Reaches
      <4> QED BY <4>1, <4>2 DEF Reaches
    <3> QED BY <3>1, <3>2, <3>3 DEF Reaches
  <2> QED BY <2>8, <2>12 DEF Complete
<1> QED BY <1>9, <1>10

\* A step that changes no connection but c, and loses nothing.
LEMMA OthersLate ==
  ASSUME FeedInv, Late, NEW c \in Client, \A d \in Client : Heard(d, stack),
         \A d \in Client : d # c => out'[d] = out[d] /\ at'[d] = at[d] /\ mode'[d] = mode[d],
         mode'[c] # "captured" \/ (out'[c].held = out[c].held /\ at'[c] = at[c] /\ mode'[c] = mode[c])
  PROVE  \A d \in Client : Complete(d)'
<1> SUFFICES ASSUME NEW d \in Client PROVE Complete(d)'
  OBVIOUS
<1>1. TypeInv /\ Complete(d) /\ Heard(d, stack)
  BY DEF FeedInv, Late
<1>2. CASE d # c
  BY <1>1, <1>2, CompleteOn
<1>3. CASE d = c
  BY <1>1, <1>3, CompleteOn
<1> QED BY <1>2, <1>3

\* A connection closes.
LEMMA CloseLate ==
  ASSUME FeedInv, Late, NEW c \in Client, NEW why, Close(c, why, stack)
  PROVE  \A d \in Client : Complete(d)'
<1>1. TypeInv /\ stack \in Seq(Publication)
  BY Now DEF FeedInv, StackOk
<1>2. \A d \in Client : Heard(d, stack)
  BY <1>1, HeardClose
<1>3. mode'[c] = "closed" /\ \A d \in Client : d # c => out'[d] = out[d] /\ at'[d] = at[d] /\ mode'[d] = mode[d]
  BY <1>1, Closing
<1> QED BY <1>2, <1>3, OthersLate

\* A client attaches.
LEMMA AttachLate ==
  ASSUME FeedInv, Late, NEW c \in Client, Attach(c)
  PROVE  \A d \in Client : Complete(d)'
<1>1. TypeInv /\ stack \in Seq(Publication) /\ ConnectionsOk /\ Source.rev \in Nat
  BY Now DEF FeedInv, StackOk
<1>2. stack' = stack /\ log' = log => \A d \in Client : Heard(d, stack)
  BY <1>1, HeardStill
<1>3. CASE Ask(c)
  <2>1. \A d \in Client : Heard(d, stack)
    <3>1. PublishChange("policy", stack) \/ (stack' = stack /\ log' = log)
      BY <1>3 DEF Ask
    <3> QED BY <1>1, <1>2, <3>1, HeardChange DEF Changes
  <2>2. out' = out /\ at' = at /\ mode' = [mode EXCEPT ![c] = IF @ = "closed" THEN "open" ELSE @]
    BY <1>3 DEF Ask
  <2>3. \A d \in Client : d # c => out'[d] = out[d] /\ at'[d] = at[d] /\ mode'[d] = mode[d]
    BY <1>1, <2>2 DEF ConnectionsOk
  <2>4. mode'[c] = "open" \/ (out'[c].held = out[c].held /\ at'[c] = at[c] /\ mode'[c] = mode[c])
    BY <1>1, <2>2 DEF ConnectionsOk
  <2> HIDE <2>2
  <2> QED BY <2>1, <2>3, <2>4, OthersLate
<1>4. CASE Subscribe(c)
  <2>1. out' = out /\ at' = at /\ mode' = [mode EXCEPT ![c] = "held"] /\ stack' = stack /\ log' = log
    BY <1>4 DEF Subscribe
  <2>2. mode'[c] = "held" /\ \A d \in Client : d # c => out'[d] = out[d] /\ at'[d] = at[d] /\ mode'[d] = mode[d]
    BY <1>1, <2>1 DEF ConnectionsOk
  <2>3. \A d \in Client : Heard(d, stack)
    BY <1>2, <2>1
  <2> HIDE <2>1
  <2> QED BY <2>2, <2>3, OthersLate
<1>5. CASE Capture(c)
  <2>1. CASE Close(c, "overflow", stack)
    BY <2>1, CloseLate
  <2>2. CASE ~Close(c, "overflow", stack)
    <3>1. PICK o : /\ out' = [out EXCEPT ![c] = o] /\ at' = [at EXCEPT ![c] = Source.rev]
                   /\ mode' = [mode EXCEPT ![c] = "captured"] /\ stack' = stack /\ log' = log
      BY <1>5, <2>2 DEF Capture
    <3>2. at'[c] = Source.rev /\ \A d \in Client : d # c => out'[d] = out[d] /\ at'[d] = at[d] /\ mode'[d] = mode[d]
      BY <1>1, <3>1 DEF ConnectionsOk
    <3>3. \A d \in Client : Heard(d, stack)
      BY <1>2, <3>1
    <3>4. Source' = Source
      BY <3>1 DEF Source
    <3> HIDE <3>1
    <3>5. Complete(c)'
      BY <1>1, <3>2, <3>4 DEF Complete
    <3>6. ASSUME NEW d \in Client, d # c PROVE Complete(d)'
      BY <1>1, <3>2, <3>3, <3>6, CompleteOn DEF Late
    <3> QED BY <3>5, <3>6
  <2> QED BY <2>1, <2>2
<1>6. CASE Settle(c)
  <2>1. CASE \E why : Close(c, why, stack)
    BY <2>1, CloseLate
  <2>2. CASE ~\E why : Close(c, why, stack)
    <3>1. PICK o, r : /\ out' = [out EXCEPT ![c] = o] /\ at' = [at EXCEPT ![c] = r]
                      /\ mode' = [mode EXCEPT ![c] = "live"] /\ stack' = stack /\ log' = log
      BY <1>6, <2>2 DEF Settle
    <3>2. mode'[c] = "live" /\ \A d \in Client : d # c => out'[d] = out[d] /\ at'[d] = at[d] /\ mode'[d] = mode[d]
      BY <1>1, <3>1 DEF ConnectionsOk
    <3>3. \A d \in Client : Heard(d, stack)
      BY <1>2, <3>1
    <3> HIDE <3>1
    <3> QED BY <3>2, <3>3, OthersLate
  <2> QED BY <2>1, <2>2
<1>7. CASE Abandon(c)
  <2>1. out' = out /\ at' = at /\ mode' = mode /\ Relax(c, stack)
    BY <1>7 DEF Abandon
  <2>2. \A d \in Client : Heard(d, stack)
    BY <1>1, <2>1, HeardRelax
  <2> QED BY <2>1, <2>2, OthersLate
<1> QED BY <1>3, <1>4, <1>5, <1>6, <1>7 DEF Attach

\* The transport moves.
LEMMA TransportLate ==
  ASSUME FeedInv, Late, NEW c \in Client, Transport(c) \/ Detach(c)
  PROVE  \A d \in Client : Complete(d)'
<1>1. TypeInv /\ stack \in Seq(Publication) /\ ConnectionsOk /\ OutboxOk(out[c])
  BY Now DEF FeedInv, StackOk
<1>2. stack' = stack /\ log' = log => \A d \in Client : Heard(d, stack)
  BY <1>1, HeardStill
<1>3. ASSUME NEW o, out' = [out EXCEPT ![c] = o], o.held = out[c].held, at' = at, mode' = mode, stack' = stack, log' = log
      PROVE  \A d \in Client : Complete(d)'
  <2>1. out'[c] = o /\ \A d \in Client : d # c => out'[d] = out[d]
    BY <1>1, <1>3 DEF ConnectionsOk
  <2>2. out'[c].held = out[c].held /\ \A d \in Client : d # c => out'[d] = out[d] /\ at'[d] = at[d] /\ mode'[d] = mode[d]
    BY <1>3, <2>1
  <2>3. (\A d \in Client : Heard(d, stack)) /\ at'[c] = at[c] /\ mode'[c] = mode[c]
    BY <1>2, <1>3
  <2> QED BY <2>2, <2>3, OthersLate
<1>4. CASE Flush(c)
  <2>1. PICK accepted \in BOOLEAN :
          out' = [out EXCEPT ![c].scheduled = FALSE, ![c].queue = <<>>,
                             ![c].sending = Append(@, out[c].queue), ![c].blocked = ~accepted]
    BY <1>4 DEF Flush
  <2>2. at' = at /\ mode' = mode /\ stack' = stack /\ log' = log
    BY <1>4 DEF Flush
  <2>3. (\A d \in Client : d # c => out'[d] = out[d]) /\ out'[c].held = out[c].held
    BY <1>1, <2>1 DEF ConnectionsOk, Outbox
  <2>4. \A d \in Client : Heard(d, stack)
    BY <1>2, <2>2
  <2> HIDE <2>1
  <2>5. \A d \in Client : d # c => out'[d] = out[d] /\ at'[d] = at[d] /\ mode'[d] = mode[d]
    BY <2>2, <2>3
  <2> QED BY <2>2, <2>3, <2>4, <2>5, OthersLate
<1>5. CASE Written(c)
  <2>1. out' = [out EXCEPT ![c].sending = Tail(@), ![c].bytes = @ - Total(Head(out[c].sending))]
    BY <1>5 DEF Written
  <2>2. at' = at /\ mode' = mode /\ stack' = stack /\ log' = log
    BY <1>5 DEF Written
  <2>3. (\A d \in Client : d # c => out'[d] = out[d]) /\ out'[c].held = out[c].held
    BY <1>1, <2>1 DEF ConnectionsOk, Outbox
  <2>4. \A d \in Client : Heard(d, stack)
    BY <1>2, <2>2
  <2> HIDE <2>1
  <2>5. \A d \in Client : d # c => out'[d] = out[d] /\ at'[d] = at[d] /\ mode'[d] = mode[d]
    BY <2>2, <2>3
  <2> QED BY <2>2, <2>3, <2>4, <2>5, OthersLate
<1>6. CASE Drain(c)
  <2>1. PICK o : o = Drained(out[c]) /\ o.held = out[c].held
    BY <1>1, Drains
  <2>2. out' = [out EXCEPT ![c] = o] /\ at' = at /\ mode' = mode /\ stack' = stack /\ log' = log
    BY <1>6, <2>1 DEF Drain
  <2> QED BY <1>3, <2>1, <2>2
<1>7. CASE Hang(c)
  BY <1>7, CloseLate DEF Hang
<1>8. CASE Read(c)
  <2>1. out' = out /\ at' = at /\ mode' = mode /\ stack' = stack /\ log' = log
    BY <1>8 DEF Read
  <2>2. \A d \in Client : Heard(d, stack)
    BY <1>2, <2>1
  <2> QED BY <2>1, <2>2, OthersLate
<1>9. CASE Detach(c)
  <2>1. out' = out /\ at' = [at EXCEPT ![c] = 0] /\ mode' = [mode EXCEPT ![c] = "open"] /\ Relax(c, stack)
    BY <1>9 DEF Detach
  <2>2. mode'[c] = "open" /\ \A d \in Client : d # c => out'[d] = out[d] /\ at'[d] = at[d] /\ mode'[d] = mode[d]
    BY <1>1, <2>1 DEF ConnectionsOk
  <2>3. \A d \in Client : Heard(d, stack)
    BY <1>1, <2>1, HeardRelax
  <2> HIDE <2>1
  <2> QED BY <2>2, <2>3, OthersLate
<1> QED BY <1>4, <1>5, <1>6, <1>7, <1>8, <1>9 DEF Transport

\* The session publishes, or a publication ends.
LEMMA SessionLate ==
  ASSUME FeedInv, Late, Produce \/ Delivered, NEW c \in Client
  PROVE  Complete(c)'
<1>1. TypeInv /\ stack \in Seq(Publication) /\ OrderOk /\ Source \in State /\ Source.rev \in Nat
  BY Now DEF FeedInv, StackOk
<1>2. out' = out /\ at' = at /\ mode' = mode
  BY DEF Produce, Delivered
<1>3. CASE Produce
  <2>1. CASE Delta
    <3>1. PICK n \in 1 .. MaxText : Publish(Text(Source, n), [Source EXCEPT !.off = @ + n], stack)
      BY <2>1 DEF Delta
    <3>2. n \in Nat \ {0}
      BY FanoutAssumption
    <3>3. PICK s \in State : s = Longer(Source, n) /\ s.rev = Source.rev
      BY <1>1, <3>2, Lengthens
    <3>4. PICK e \in Signal : e = Text(Source, n)
      BY <1>1, <3>2, Lengthens DEF Signal, Event
    <3>5. Publish(e, s, stack)
      BY <3>1, <3>3, <3>4 DEF Longer
    <3>6. Heard(c, stack)
      BY <1>1, <3>3, <3>5, HeardMore
    <3> QED BY <1>1, <1>2, <3>6, CompleteOn DEF Late
  <2>2. CASE Change
    <3>1. PICK change \in Changes : PublishChange(change, stack)
      BY <2>2, FanoutAssumption DEF Change, Changes
    <3>2. Heard(c, stack)
      BY <1>1, <3>1, HeardChange
    <3> QED BY <1>1, <1>2, <3>2, CompleteOn DEF Late
  <2>3. CASE Invalidate
    <3>1. PICK s \in State : s = Changed(Source, "plain") /\ s.rev = Source.rev + 1
      BY <1>1, Changing DEF Changes
    <3>2. PICK e \in Signal : e = [kind |-> "invalidate"] /\ Tells(e, s.rev)
      <4>1. [kind |-> "invalidate"] \in Signal
        BY DEF Signal
      <4> QED BY <4>1 DEF Tells
    <3>3. Publish(e, s, stack)
      BY <2>3, <3>1, <3>2 DEF Invalidate
    <3>4. Heard(c, stack)
      BY <1>1, <3>1, <3>2, <3>3, HeardMore
    <3> QED BY <1>1, <1>2, <3>4, CompleteOn DEF Late
  <2> QED BY <1>3, <2>1, <2>2, <2>3 DEF Produce
<1>4. CASE Delivered
  <2>1. stack # <<>> /\ Uncalled = {} /\ stack' = Tail(stack) /\ log' = log
    BY <1>4 DEF Delivered
  <2>2. CASE mode[c] = "captured"
    <3>1. c \in ToSet(order)
      BY <1>1, <2>2 DEF OrderOk, Bound
    <3>2. PICK i \in DOMAIN order : order[i] = c
      BY <3>1 DEF ToSet
    <3>3. c \in stack[1].seen
      BY <2>1, <3>2 DEF Uncalled
    <3>4. \A n : Pending(c, stack, n) => Pending(c, Tail(stack), n)
      BY <1>1, <2>1, <3>3, PendingTail
    <3>5. Source' = Source
      BY <2>1 DEF Source
    <3>6. Heard(c, stack)
      BY <1>1, <2>1, <3>4, <3>5 DEF Heard
    <3> QED BY <1>1, <1>2, <3>6, CompleteOn DEF Late
  <2>3. CASE mode[c] # "captured"
    BY <1>2, <2>3 DEF Complete
  <2> QED BY <2>2, <2>3
<1> QED BY <1>3, <1>4

-----------------------------------------------------------------------------
(* What a step may do to the cause of a connection.                        *)
Private(c) == cause'[c] = "gap" => cause[c] = "gap" \/ Overtaken(c) \/ Crossed(c)

\* It closes one for another reason, or for a gap that is accounted for.
Closed(c, why) == cause' = [cause EXCEPT ![c] = why] /\ why \in Causes /\ (why = "gap" => Overtaken(c) \/ Crossed(c))

\* Either is private, and names a cause.
LEMMA ClosedPrivate ==
  ASSUME Late, cause' = cause \/ \E c \in Client, why \in Causes : Closed(c, why)
  PROVE  cause' \in [Client -> Causes] /\ \A c \in Client : Private(c)
<1>1. CASE cause' = cause
  BY <1>1 DEF Late, Private
<1>2. CASE \E c \in Client, why \in Causes : Closed(c, why)
  <2>1. PICK c \in Client, why \in Causes : Closed(c, why)
    BY <1>2
  <2>2. cause' = [cause EXCEPT ![c] = why] /\ cause \in [Client -> Causes]
    BY <2>1 DEF Closed, Late
  <2>3. cause' \in [Client -> Causes] /\ cause'[c] = why /\ \A d \in Client : d # c => cause'[d] = cause[d]
    BY <2>2
  <2>4. Private(c)
    BY <2>1, <2>3 DEF Closed, Private
  <2> QED BY <2>3, <2>4 DEF Private
<1> QED BY <1>1, <1>2

\* One of those reasons.
LEMMA ClosesFor ==
  ASSUME NEW c \in Client, NEW why \in Causes \ {"gap"}, NEW st, Close(c, why, st)
  PROVE  Closed(c, why)
  BY DEF Close, Closed

\* An outbox is stored, or it overflows.
LEMMA StoresFor ==
  ASSUME NEW c \in Client, NEW o, NEW r, NEW st, Store(c, o, r, st)
  PROVE  cause' = cause \/ Closed(c, "overflow")
<1>1. CASE o = Overflowed
  BY <1>1, ClosesFor DEF Store, Causes
<1>2. CASE o # Overflowed
  BY <1>2 DEF Store
<1> QED BY <1>1, <1>2

\* A live listener is told what it expects, or was overtaken.
LEMMA ToldInOrder ==
  ASSUME FeedInv, stack # <<>>, NEW c \in Client, c \notin stack[1].seen, mode[c] = "live",
         NEW e \in Event, e = stack[1].event
  PROVE  Expected(c, e) \/ Overtaken(c)
<1>1. PICK b \in Tracks(log) : at[c] = b.rev /\ Lead(c, stack, Source, b)
  BY DEF FeedInv, Stream, StreamAt, ModeAt, LiveAt
<1>2. e.kind # "invalidate"
  BY EventParts
<1>3. b \in State /\ Source \in State /\ stack \in Seq(Publication) /\ StackIs(stack, Source, strict)
  <2>1. Tracks(log) \subseteq State
    BY Now, TracksParts DEF FeedInv, LogOk
  <2> QED BY <2>1, Now DEF FeedInv, StackOk
<1>4. \/ \E t \in State : Follows(b, e, t)
      \/ Len(stack) = 2 /\ c \notin stack[2].seen /\ stack[2].event.kind # "text" /\ stack[1].event = Rev(Source, "policy")
  BY <1>1, <1>2, <1>3, LeadTake
<1> QED BY <1>1, <1>4 DEF Follows, Expected, Overtaken

\* A listener is told.
LEMMA DeliversFor ==
  ASSUME FeedInv, Deliver
  PROVE  cause' = cause \/ \E c \in Client, why \in Causes : Closed(c, why)
<1>1. stack # <<>> /\ Uncalled # {}
  BY DEF Deliver
<1>2. OrderOk /\ StackOk(stack, Source.rev) /\ Source.rev \in Nat
  BY Now DEF FeedInv
<1>3. PICK c \in Client : c = Listener /\ c \in ToSet(order) /\ c \notin stack[1].seen
  BY <1>1, <1>2, Listens DEF OrderOk
<1>4. PICK e \in Signal : e = stack[1].event
  BY <1>1, <1>2, StackSteps
<1>5. PICK st : Receives(c, e, st)
  BY <1>3, <1>4 DEF Deliver
<1>6. "invalidated" \in Causes \ {"gap"} /\ "overflow" \in Causes /\ "gap" \in Causes
  BY DEF Causes
<1>7. CASE e.kind = "invalidate"
  <2>1. Close(c, "invalidated", st)
    BY <1>5, <1>7 DEF Receives
  <2> QED BY <1>6, <2>1, ClosesFor
<1>8. CASE \E o, r : Store(c, o, r, st)
  BY <1>6, <1>8, StoresFor
<1>9. CASE e.kind # "invalidate" /\ ~\E o, r : Store(c, o, r, st)
  <2>1. mode[c] = "live"
    BY <1>5, <1>9 DEF Receives
  <2>2. e \in Event
    BY <1>9 DEF Signal
  <2>3. Expected(c, e) \/ Overtaken(c)
    BY <1>1, <1>3, <1>4, <2>1, <2>2, ToldInOrder
  <2>4. cause' = cause \/ (~Expected(c, e) /\ Close(c, "gap", st))
    BY <1>5, <1>9, <2>1 DEF Receives
  <2>5. cause' = cause \/ Closed(c, "gap")
    BY <1>6, <2>3, <2>4 DEF Close, Closed
  <2> QED BY <1>6, <2>5
<1> QED BY <1>7, <1>8, <1>9

\* What the cutover misses of what was committed was held out of order.
LEMMA MissedCrossed ==
  ASSUME FeedInv, Late, NEW c \in Client, mode[c] = "captured", stack = <<>>, Missed(out[c].held, at[c])
  PROVE  Crossed(c)
<1>1. /\ TypeInv /\ ConnectionOk(c) /\ ConnectionsOk /\ out[c] \in Outbox /\ Source.rev \in Nat
  BY Now DEF FeedInv
<1>2. PICK h \in Seq(Event) : h = out[c].held
  BY <1>1 DEF Outbox
<1>3. PICK r \in Nat : r = at[c]
  BY <1>1 DEF ConnectionsOk
<1>4. PICK i \in 1 .. Len(h) : /\ h[i].kind = "rev" /\ h[i].rev > r + 1
                               /\ \A j \in 1 .. i : h[j].kind = "rev" => h[j].rev # h[i].rev - 1
  BY <1>2, <1>3 DEF Missed
<1>5. h[i] \in Event /\ h[i].rev \in Nat /\ h[i].rev <= Source.rev
  <2>1. h[i] \in Event
    OBVIOUS
  <2>2. h[i].rev \in Nat
    BY <1>4, <2>1, EventParts
  <2>3. i \in DOMAIN h
    OBVIOUS
  <2> QED BY <1>1, <1>2, <1>4, <2>1, <2>2, <2>3 DEF ConnectionOk, HeldOk
<1>6. PICK n \in Nat : n + 1 = h[i].rev
  <2>1. PICK m \in Nat : m = h[i].rev
    BY <1>5
  <2>2. m > r + 1
    BY <1>4, <2>1
  <2>3. m - 1 \in Nat /\ (m - 1) + 1 = m
    BY <2>2
  <2> QED BY <2>1, <2>3
<1>7. r < n /\ n <= Source.rev /\ n = h[i].rev - 1 /\ n < h[i].rev
  BY <1>1, <1>4, <1>5, <1>6
<1>8. Reaches(c, h, stack, n)
  BY <1>2, <1>3, <1>7 DEF Late, Complete
<1>9. ~Pending(c, stack, n)
  <2>1. Len(stack) = 0
    OBVIOUS
  <2>2. 1 .. 0 = {}
    OBVIOUS
  <2> QED BY <2>1, <2>2 DEF Pending
<1>10. PICK j \in 1 .. Len(h) : h[j].kind = "rev" /\ h[j].rev = n
  BY <1>8, <1>9 DEF Reaches
<1>11. i < j
  <2>1. j \notin 1 .. i
    BY <1>4, <1>7, <1>10
  <2> QED BY <2>1
<1>12. i \in DOMAIN out[c].held /\ j \in DOMAIN out[c].held
  BY <1>2
<1> QED BY <1>2, <1>4, <1>7, <1>10, <1>11, <1>12 DEF Crossed

\* Any step.
LEMMA NextFor ==
  ASSUME FeedInv, Late, [Next]_vars
  PROVE  cause' = cause \/ \E c \in Client, why \in Causes : Closed(c, why)
<1>1. CASE Produce
  BY <1>1 DEF Produce
<1>2. CASE Deliver
  BY <1>2, DeliversFor
<1>3. CASE Delivered
  BY <1>3 DEF Delivered
<1>4. ASSUME NEW c \in Client, Attach(c) PROVE cause' = cause \/ \E why \in Causes : Closed(c, why)
  <2>1. CASE Ask(c)
    <3>1. Closed(c, "none") /\ "none" \in Causes
      BY <2>1 DEF Ask, Closed, Causes
    <3> QED BY <3>1
  <2>2. CASE Subscribe(c)
    BY <2>2 DEF Subscribe
  <2>3. CASE Capture(c)
    <3>1. Close(c, "overflow", stack) \/ cause' = cause
      BY <2>3 DEF Capture
    <3> QED BY <3>1, ClosesFor DEF Causes
  <2>4. CASE Settle(c)
    <3>1. \/ cause' = cause \/ cause' = [cause EXCEPT ![c] = "overflow"]
          \/ cause' = [cause EXCEPT ![c] = "gap"] /\ Missed(out[c].held, at[c])
      BY <2>4, SettleFeed
    <3>2. mode[c] = "captured" /\ stack = <<>>
      BY <2>4 DEF Settle
    <3>3. Missed(out[c].held, at[c]) => Crossed(c)
      BY <3>2, MissedCrossed
    <3>4. cause' = cause \/ Closed(c, "overflow") \/ Closed(c, "gap")
      BY <3>1, <3>3 DEF Closed, Causes
    <3> QED BY <3>4 DEF Causes
  <2>5. CASE Abandon(c)
    BY <2>5 DEF Abandon
  <2> QED BY <1>4, <2>1, <2>2, <2>3, <2>4, <2>5 DEF Attach
<1>5. ASSUME NEW c \in Client, Detach(c) \/ Transport(c) PROVE cause' = cause \/ \E why \in Causes : Closed(c, why)
  <2>1. CASE Hang(c)
    <3>1. Close(c, "closed", stack)
      BY <2>1 DEF Hang
    <3> QED BY <3>1, ClosesFor DEF Causes
  <2>2. CASE Detach(c) \/ Flush(c) \/ Written(c) \/ Drain(c) \/ Read(c)
    BY <2>2 DEF Detach, Flush, Written, Drain, Read
  <2> QED BY <1>5, <2>1, <2>2 DEF Transport
<1>6. CASE UNCHANGED vars
  BY <1>6 DEF vars
<1> QED BY <1>1, <1>2, <1>3, <1>4, <1>5, <1>6 DEF Next

\* Any step keeps what is late on its way, and is private.
LEMMA NextLate ==
  ASSUME FeedInv, Late, [Next]_vars
  PROVE  Late' /\ \A c \in Client : Private(c)
<1>1. cause' \in [Client -> Causes] /\ \A c \in Client : Private(c)
  BY NextFor, ClosedPrivate
<1>2. \A c \in Client : Complete(c)'
  <2>1. CASE Produce \/ Delivered
    BY <2>1, SessionLate
  <2>2. CASE Deliver
    BY <2>2, DeliverLate
  <2>3. CASE \E c \in Client : Attach(c)
    BY <2>3, AttachLate
  <2>4. CASE \E c \in Client : Transport(c) \/ Detach(c)
    BY <2>4, TransportLate
  <2>5. CASE UNCHANGED vars
    <3>1. out' = out /\ at' = at /\ mode' = mode /\ stack' = stack /\ Source' = Source
      BY <2>5 DEF vars, Source
    <3> QED BY <3>1 DEF Late, Complete
  <2> QED BY <2>1, <2>2, <2>3, <2>4, <2>5 DEF Next
<1> QED BY <1>1, <1>2 DEF Late

\* No connection is closed over a revision it does not expect, unless the
\* policy was relaxed inside a change it had yet to be told: with any number
\* of terminals and ACP clients, and any limits (fanout.ts:77, 92-95,
\* registry.ts:443, 1298-1302).
THEOREM OthersStay == Spec => OverflowIsPrivate
<1>1. Init => FeedInv /\ Late
  <2>1. Init => Late
    <3> SUFFICES ASSUME Init PROVE Late
      OBVIOUS
    <3>1. cause = [c \in Client |-> "none"] /\ mode = [c \in Client |-> "closed"]
      BY DEF Init
    <3> QED BY <3>1 DEF Late, Complete, Causes
  <2> QED BY <2>1, InitFeed
<1>2. FeedInv /\ Late /\ [Next]_vars => (FeedInv /\ Late)'
  BY NextFeed, NextLate
<1>3. FeedInv /\ Late /\ [Next]_vars =>
        [\A c \in Client : cause'[c] = "gap" => cause[c] = "gap" \/ Overtaken(c) \/ Crossed(c)]_vars
  BY NextLate DEF Private
<1> QED BY <1>1, <1>2, <1>3, PTL DEF Spec, OverflowIsPrivate

-----------------------------------------------------------------------------
(* Without ACP clients the policy never changes: a publication starts only *)
(* when the session publishes, and what a client shows only goes forward.  *)
\* The log grows only when the session publishes.
LEMMA LogKept ==
  ASSUME Acp = {}, Deliver \/ Delivered \/ \E c \in Client : Attach(c) \/ Transport(c) \/ Detach(c)
  PROVE  log' = log
<1>1. ASSUME NEW c, NEW st, Relax(c, st) PROVE log' = log
  BY <1>1 DEF Relax
<1>2. ASSUME NEW c, NEW why, NEW st, Close(c, why, st) PROVE log' = log
  BY <1>1, <1>2 DEF Close
<1>3. ASSUME NEW c, NEW o, NEW r, NEW st, Store(c, o, r, st) PROVE log' = log
  BY <1>2, <1>3 DEF Store
<1>4. CASE Deliver
  <2>1. PICK c, e, st : Receives(c, e, st)
    BY <1>4 DEF Deliver
  <2> QED BY <1>2, <1>3, <2>1 DEF Receives
<1>5. CASE Delivered
  BY <1>5 DEF Delivered
<1>6. ASSUME NEW c \in Client, Attach(c) PROVE log' = log
  <2>1. CASE Ask(c)
    BY <2>1 DEF Ask
  <2>2. CASE Subscribe(c)
    BY <2>2 DEF Subscribe
  <2>3. CASE Capture(c)
    BY <1>2, <2>3 DEF Capture
  <2>4. CASE Settle(c)
    <3>1. (\E why : Close(c, why, stack)) \/ log' = log
      BY <2>4 DEF Settle
    <3> QED BY <1>2, <3>1
  <2>5. CASE Abandon(c)
    BY <1>1, <2>5 DEF Abandon
  <2> QED BY <1>6, <2>1, <2>2, <2>3, <2>4, <2>5 DEF Attach
<1>7. ASSUME NEW c \in Client, Transport(c) PROVE log' = log
  <2>1. CASE Hang(c)
    BY <1>2, <2>1 DEF Hang
  <2>2. CASE Flush(c) \/ Written(c) \/ Drain(c) \/ Read(c)
    BY <2>2 DEF Flush, Written, Drain, Read
  <2> QED BY <1>7, <2>1, <2>2 DEF Transport
<1>8. ASSUME NEW c \in Client, Detach(c) PROVE log' = log
  BY <1>1, <1>8 DEF Detach
<1> QED BY <1>4, <1>5, <1>6, <1>7, <1>8

\* The same of a whole step.
LEMMA OnlyProduces ==
  ASSUME Acp = {}, Next
  PROVE  Produce \/ log' = log
<1>1. Produce \/ Deliver \/ Delivered \/ \E c \in Client : Attach(c) \/ Transport(c) \/ Detach(c)
  BY DEF Next
<1> QED BY <1>1, LogKept

\* What a client shows is one of the states, and no earlier one follows.
LEMMA Forward ==
  ASSUME NEW s \in State, NEW t \in State, Before(s, t)
  PROVE  ~Later(t, s)
<1>1. s.rev \in Nat /\ t.rev \in Nat /\ s.done \in Nat /\ t.done \in Nat /\ s.off \in Nat /\ t.off \in Nat
  BY StateParts
<1> QED BY <1>1 DEF Before, Later

\* What the clients show.
Views == [c \in Client |-> client[c].view]

\* The session publishes: the views stay.
LEMMA ProduceAdvances ==
  ASSUME FeedInv, Produce
  PROVE  Promise!Advance
<1>1. log \in Seq(State) /\ log # <<>> /\ client' = client
  BY Now DEF FeedInv, LogOk, Produce
<1>2. PICK s : log' = Append(log, s)
  BY DEF Produce, Delta, Change, Invalidate, PublishChange, Publish
<1>3. PICK l : l = log' /\ l = Append(log, s)
  BY <1>2
<1>4. Len(l) = Len(log) + 1 /\ SubSeq(l, 1, Len(log)) = log
  BY <1>1, <1>3
<1> QED BY <1>1, <1>3, <1>4 DEF Promise!Advance

\* A client reads a frame: it shows a later state, or the same.
LEMMA ReadCatches ==
  ASSUME FeedInv, Acp = {}, NEW c \in Client, Read(c)
  PROVE  Promise!Catch(c) \/ UNCHANGED <<log, Views>>
<1>1. /\ \A d \in Client : d # c => client'[d] = client[d]
      /\ client'[c].view = client[c].view
         \/ /\ client'[c].view \in Tracks(log)
            /\ client[c].view = NoView \/ Before(client[c].view, client'[c].view)
  BY ReadFeed
<1>2. log' = log
  BY DEF Read
<1>3. LogOk /\ Climbs /\ log \in Seq(State)
  BY Now DEF FeedInv, LogOk
<1>4. CASE client'[c].view = client[c].view
  BY <1>1, <1>2, <1>4 DEF Views
<1>5. CASE client'[c].view # client[c].view
  <2>1. PICK z, y : z = client'[c].view /\ y = client[c].view
    OBVIOUS
  <2>2. z \in ToSet(log) /\ (y = NoView \/ Before(y, z))
    BY <1>1, <1>5, <2>1 DEF Tracks
  <2>3. PICK i \in DOMAIN log : log[i] = z
    BY <2>2 DEF ToSet
  <2>4. ASSUME NEW j \in DOMAIN log, log[j] = y PROVE j <= i
    <3>1. i \in 1 .. Len(log) /\ j \in 1 .. Len(log) /\ z \in State /\ y \in State
      BY <1>3, <2>3, <2>4
    <3>2. y # NoView
      <4>1. y.rev \in Nat
        BY <3>1, StateParts
      <4>2. NoView.rev \notin Nat
        BY DEF NoView
      <4> QED BY <4>1, <4>2
    <3>3. ~Later(z, y)
      BY <2>2, <3>1, <3>2, Forward
    <3>4. ~(i < j)
      BY <1>3, <2>3, <2>4, <3>1, <3>3 DEF Climbs
    <3> QED BY <3>1, <3>4
  <2>5. Views' = [Views EXCEPT ![c] = log[i]]
    BY <1>1, <2>1, <2>3 DEF Views
  <2>6. \A j \in Promise!Shown(c) : j <= i
    BY <2>1, <2>4 DEF Promise!Shown
  <2>7. i \in DOMAIN log
    OBVIOUS
  <2> QED BY <1>2, <2>5, <2>6, <2>7 DEF Promise!Catch, Views
<1> QED BY <1>4, <1>5

\* A client detaches: it is given up.
LEMMA DetachDrops ==
  ASSUME FeedInv, Acp = {}, NEW c \in Client, Detach(c)
  PROVE  Promise!Drop(c)
<1>1. client' = [client EXCEPT ![c] = Idle] /\ log' = log
  BY DetachFeed, LogKept
<1>2. ClientsOk /\ Idle.view = NoView
  BY Now DEF FeedInv, Idle
<1>3. Views' = [Views EXCEPT ![c] = NoView]
  BY <1>1, <1>2 DEF Views, ClientsOk
<1> QED BY <1>1, <1>3 DEF Promise!Drop, Views

\* Nothing else changes what a client shows.
LEMMA OthersShow ==
  ASSUME FeedInv, Acp = {},
         \/ Deliver \/ Delivered
         \/ \E c \in Client : Attach(c) \/ Flush(c) \/ Written(c) \/ Drain(c) \/ Hang(c)
  PROVE  UNCHANGED <<log, Views>>
<1>1. Views' = Views
  <2>1. CASE client' = client
    BY <2>1 DEF Views
  <2>2. ASSUME NEW c \in Client, Ask(c) PROVE Views' = Views
    <3>1. (\A d \in Client : d # c => client'[d] = client[d]) /\ client'[c].view = client[c].view
      BY <2>2, AskFeed
    <3> QED BY <3>1 DEF Views
  <2>3. ASSUME Deliver \/ Delivered PROVE client' = client
    BY <2>3 DEF Deliver, Delivered
  <2>4. ASSUME NEW c \in Client, Attach(c) PROVE client' = client \/ Ask(c)
    <3>1. CASE Subscribe(c)
      BY <3>1 DEF Subscribe
    <3>2. CASE Capture(c)
      BY <3>2 DEF Capture
    <3>3. CASE Settle(c)
      BY <3>3 DEF Settle
    <3>4. CASE Abandon(c)
      BY <3>4 DEF Abandon
    <3> QED BY <2>4, <3>1, <3>2, <3>3, <3>4 DEF Attach
  <2>5. ASSUME NEW c \in Client, Flush(c) \/ Written(c) \/ Drain(c) \/ Hang(c) PROVE client' = client
    <3>1. CASE Hang(c)
      BY <3>1 DEF Hang
    <3>2. CASE Flush(c)
      BY <3>2, Zenon DEF Flush
    <3>3. CASE Written(c)
      BY <3>3 DEF Written
    <3>4. CASE Drain(c)
      BY <3>4 DEF Drain
    <3> QED BY <2>5, <3>1, <3>2, <3>3, <3>4
  <2> QED BY <2>1, <2>2, <2>3, <2>4, <2>5
<1>2. Deliver \/ Delivered \/ \E c \in Client : Attach(c) \/ Transport(c) \/ Detach(c)
  BY DEF Transport
<1>3. log' = log
  BY <1>2, LogKept
<1> QED BY <1>1, <1>3

\* The live feed keeps the promise of Feed.tla among terminals: what a client
\* shows is always a published state of the session, it never goes back, and
\* only a client that leaves gives it up (events.ts:125-148,
\* reducer.ts:69-164).  With ACP clients a nested policy event may overtake a
\* delta for an instant, and the detach of one publishes too.
THEOREM Promised == ASSUME Acp = {} PROVE Spec => ImplementsFeed
<1>1. Init => Promise!Init
  <2> SUFFICES ASSUME Init PROVE Promise!Init
    OBVIOUS
  <2>1. log = <<[rev |-> 0, done |-> 0, off |-> 0, lost |-> FALSE]>> /\ client = [c \in Client |-> Idle]
    BY DEF Init
  <2> QED BY <2>1 DEF Promise!Init, Idle
<1>2. ASSUME FeedInv, [Next]_vars PROVE [Promise!Next]_(Promise!vars)
  <2>1. CASE Produce
    BY <2>1, <1>2, ProduceAdvances DEF Promise!Next
  <2>2. CASE \E c \in Client : Detach(c)
    BY <2>2, <1>2, DetachDrops DEF Promise!Next
  <2>3. CASE \E c \in Client : Read(c)
    <3>1. PICK c \in Client : Read(c)
      BY <2>3
    <3>2. Promise!Catch(c) \/ UNCHANGED <<log, Views>>
      BY <1>2, <3>1, ReadCatches
    <3> QED BY <3>2 DEF Promise!Next, Promise!vars, Views
  <2>4. CASE \/ Deliver \/ Delivered
             \/ \E c \in Client : Attach(c) \/ Flush(c) \/ Written(c) \/ Drain(c) \/ Hang(c)
    BY <2>4, <1>2, OthersShow DEF Promise!vars, Views
  <2>5. CASE UNCHANGED vars
    BY <2>5 DEF vars, Promise!vars
  <2> QED BY <1>2, <2>1, <2>2, <2>3, <2>4, <2>5 DEF Next, Transport
<1>3. Spec => []FeedInv
  BY InitFeed, NextFeed, PTL DEF Spec
<1> QED BY <1>1, <1>2, <1>3, PTL DEF Spec, ImplementsFeed, Promise!Spec
=============================================================================
