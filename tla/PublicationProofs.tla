------------------------- MODULE PublicationProofs -------------------------
(***************************************************************************)
(* Theorems about module Publication, for any history of a session, any    *)
(* page size and capacity and any number of faults: the outbox never runs  *)
(* ahead of the web, nothing due is skipped, the web shows what was shared *)
(* in order and once, and publication implements module Channel.           *)
(*                                                                         *)
(* The invariant speaks of Recorded, the items with their places: no step  *)
(* moves an item that was ever sent (Agrees), every request on its way     *)
(* carries what Recorded has at its numbers, and what a step adds is newer *)
(* than what is there (OrderInv).  What was due is in Recorded, held for   *)
(* the backfill, or accounted for in Spent (MessagesInv, StateInv).        *)
(***************************************************************************)
EXTENDS Publication, SequenceTheorems, FiniteSetTheorems, TLAPS

OneItem == [kind : Kinds \cup {"rest"}, rev : Nat]
Items == Seq(OneItem)

DiskType == [on : BOOLEAN, acked : Nat, rows : Items, backfilled : BOOLEAN,
             stateRecorded : BOOLEAN, attempted : BOOLEAN, skipped : BOOLEAN]
FlightType == [first : Nat, items : Items, reply : {"none", "ok", "gap"}, seq : Nat]
GapType == [open : BOOLEAN, lastSeq : Nat, forwarded : BOOLEAN]
CountsType == [choices : Nat, faults : Nat, power : Nat]
LostType == [crash : SUBSET OneItem, full : SUBSET OneItem,
             early : SUBSET OneItem, held : SUBSET OneItem]

\* A request that may still arrive.
Request == [first : Nat \ {0}, items : Items]

SessionType ==
  /\ log \in Seq(Kinds) /\ Rev <= MaxChanges
  /\ disk \in DiskType /\ checkpoint \in DiskType
  /\ unflushed \in Items /\ early \in Items
  /\ stopped \in BOOLEAN
  /\ disk.backfilled => early = <<>>
  /\ \A i \in 1..Len(early) : early[i].rev \in 1..Rev

UploadType ==
  /\ configured \in BOOLEAN /\ connected \in BOOLEAN
  /\ connected => configured
  /\ quarantined \in BOOLEAN /\ gap \in GapType
  /\ flight \in FlightType /\ late \subseteq Request
  /\ web \in Items /\ offered \in Nat

HistoryType ==
  /\ counts \in CountsType
  /\ due \subseteq OneItem /\ secret \subseteq Nat
  /\ lost \in LostType

TypeInv == SessionType /\ UploadType /\ HistoryType

\* The web has what is acknowledged, after a power loss as well, and answers
\* with what it has.
AnswerInv ==
  /\ disk.acked <= Len(web) /\ checkpoint.acked <= Len(web)
  /\ flight.items # <<>> => flight.first = disk.acked + 1
  /\ flight.reply # "none" => flight.items # <<>> /\ flight.seq <= Len(web)

\* The requests that may arrive, the one that is awaited among them.
Requests ==
  late \cup (IF flight.items = <<>> THEN {}
             ELSE {[first |-> flight.first, items |-> flight.items]})

\* A request was offered, and carries what has its numbers.
Carries(request, items) ==
  /\ request.items # <<>>
  /\ request.first + Len(request.items) - 1 <= offered
  /\ \A i \in 1..Len(request.items) : request.items[i] = items[request.first + i - 1]

\* What was ever sent is on the disk or on the web, and has one place.
Agrees ==
  /\ Len(web) <= offered /\ offered <= disk.acked + Len(disk.rows)
  /\ \A n \in disk.acked + 1 .. Len(web) : web[n] = Pending[n - disk.acked]
  /\ offered > 0 => disk.attempted
  /\ \A request \in Requests : Carries(request, Recorded)

\* A backfill leaves something on the disk, and ends what is held.
BackfillInv ==
  /\ disk.backfilled => disk.acked + Len(disk.rows) > 0
  /\ unflushed # <<>> => disk.backfilled

\* The items have the order of their revisions.
Ascend(items) ==
  \A i, j \in 1..Len(items) :
    (i < j /\ items[i].kind = "message" /\ items[j].kind = "message") =>
      items[i].rev < items[j].rev

OrderInv ==
  /\ \A item \in Range(Recorded) :
       item.rev <= Rev /\ \A held \in Range(early) : item.rev < held.rev
  /\ Ascend(Recorded)
  /\ \A i, j \in 1..Len(early) : i < j => early[i].rev < early[j].rev

SecretInv ==
  /\ \A r \in secret : r <= Rev
  /\ secret # {} => NextSeq > 1
  /\ \A item \in Range(Recorded) : item.kind = "message" => item.rev \notin secret
  /\ \A item \in Range(early) : item.rev \notin secret

DueInv == \A item \in due : item.rev \in 1..Rev /\ item.kind = log[item.rev]

\* What is accounted for: the items lost, and the changes that could not be
\* encoded.
Spent ==
  Lost \cup {item \in OneItem : /\ disk.skipped /\ item.rev \in 1..Rev
                              /\ item.rev \in Unfit /\ log[item.rev] = item.kind}

MessagesInv ==
  NextSeq > 1 =>
    \A item \in due :
      \/ item.kind = "state" \/ item \in Spent
      \/ item \in Range(Recorded) \cup Range(early)

\* A state was given up that is not older than this one.
Excused(rev) == \E item \in Spent : item.kind = "state" /\ item.rev >= rev

\* A state not older than this one has a place.
StateSince(rev, items) == \E item \in Range(items) : item.kind = "state" /\ item.rev >= rev

StateInv ==
  (NextSeq > 1 /\ (disk.backfilled => disk.stateRecorded)) =>
    \A item \in due :
      \/ item.kind = "message" \/ Excused(item.rev)
      \/ StateSince(item.rev, Recorded) \/ item \in Range(early)

WholeInv ==
  Agrees /\ BackfillInv /\ OrderInv /\ SecretInv /\ DueInv /\ MessagesInv /\ StateInv

IInv == TypeInv /\ AnswerInv /\ (~Broken => WholeInv)

-----------------------------------------------------------------------------
(* Sequences of items *)

\* A part of a list of items is one.
LEMMA Part ==
  ASSUME NEW s \in Items, NEW m \in Nat \ {0}, NEW n \in 0..Len(s)
  PROVE  /\ SubSeq(s, m, n) \in Items
         /\ Len(SubSeq(s, m, n)) = IF m <= n THEN n - m + 1 ELSE 0
         /\ \A i \in 1..Len(SubSeq(s, m, n)) : SubSeq(s, m, n)[i] = s[m + i - 1]
<1>1. \A i \in m..n : s[i] \in OneItem
  BY ElementOfSeq DEF Items
<1>2. m \in Int /\ n \in Int
  OBVIOUS
<1> QED BY <1>1, <1>2, SubSeqProperties DEF Items

\* One list after another.
LEMMA Joined ==
  ASSUME NEW s \in Items, NEW t \in Items
  PROVE  /\ s \o t \in Items
         /\ Len(s \o t) = Len(s) + Len(t)
         /\ \A i \in 1..Len(s) : (s \o t)[i] = s[i]
         /\ \A i \in Len(s) + 1 .. Len(s) + Len(t) : (s \o t)[i] = t[i - Len(s)]
<1>1. /\ s \o t \in Items /\ Len(s \o t) = Len(s) + Len(t)
      /\ \A i \in 1..Len(s) + Len(t) : (s \o t)[i] = IF i <= Len(s) THEN s[i] ELSE t[i - Len(s)]
  BY ConcatProperties DEF Items
<1>2. Len(s) \in Nat /\ Len(t) \in Nat
  BY LenProperties DEF Items
<1> QED BY <1>1, <1>2

\* Joining lists of items is associative.
LEMMA Chained ==
  ASSUME NEW s \in Items, NEW t \in Items, NEW u \in Items
  PROVE  s \o (t \o u) = (s \o t) \o u
BY ConcatAssociative DEF Items

\* Lists of items with the same elements are equal.
LEMMA Same ==
  ASSUME NEW s \in Items, NEW t \in Items, Len(s) = Len(t),
         \A i \in 1..Len(s) : s[i] = t[i]
  PROVE  s = t
BY SeqEqual DEF Items

\* The elements and the length of a list of items, and the empty one.
LEMMA ItemsAre ==
  /\ \A s \in Items : Len(s) \in Nat /\ DOMAIN s = 1..Len(s) /\ (s = <<>> <=> Len(s) = 0)
  /\ \A s \in Items : \A i \in 1..Len(s) : s[i] \in OneItem
  /\ <<>> \in Items /\ Len(<<>>) = 0
  /\ \A s \in Items : s \o <<>> = s /\ <<>> \o s = s
<1>1. \A s \in Items : Len(s) \in Nat /\ DOMAIN s = 1..Len(s)
  BY LenProperties DEF Items
<1>2. /\ <<>> \in Items /\ Len(<<>>) = 0
      /\ \A s \in Items : s # <<>> => Len(s) \in Nat \ {0}
  BY EmptySeq DEF Items
<1>3. \A s \in Items : \A i \in 1..Len(s) : s[i] \in OneItem
  BY ElementOfSeq DEF Items
<1>4. \A s \in Items : s \o <<>> = s /\ <<>> \o s = s
  BY ConcatEmptySeq DEF Items
<1> QED BY <1>1, <1>2, <1>3, <1>4

\* The items of a list.
LEMMA RangeIs ==
  ASSUME NEW s \in Items
  PROVE  Range(s) = {s[i] : i \in 1..Len(s)} /\ Range(s) \subseteq OneItem
BY RangeEquality, RangeOfSeq DEF Items

\* The items of one list after another.
LEMMA RangeJoined ==
  ASSUME NEW s \in Items, NEW t \in Items
  PROVE  Range(s \o t) = Range(s) \cup Range(t)
BY RangeConcatenation DEF Items

\* A list of one item.
LEMMA Single ==
  ASSUME NEW item \in OneItem
  PROVE  <<item>> \in Items /\ Len(<<item>>) = 1 /\ <<item>>[1] = item /\ Range(<<item>>) = {item}
<1>1. <<item>> \in Items /\ Len(<<item>>) = 1 /\ <<item>>[1] = item
  BY DEF Items
<1>2. Range(<<item>>) = {<<item>>[i] : i \in 1..1}
  BY <1>1, RangeIs
<1> QED BY <1>1, <1>2

\* The empty list has no items.
LEMMA RangeNone == Range(<<>>) = {}
<1>1. <<>> \in Items /\ Len(<<>>) = 0
  BY ItemsAre
<1>2. 1..0 = {}
  OBVIOUS
<1> QED BY <1>1, <1>2, RangeIs

\* The first numbers, counted.
LEMMA UpTo ==
  ASSUME NEW n \in Nat
  PROVE  IsFiniteSet(1..n) /\ Cardinality(1..n) = n
<1>1. IsFiniteSet(1..n) /\ Cardinality(1..n) = IF 1 > n THEN 0 ELSE n - 1 + 1
  BY FS_Interval
<1> QED BY <1>1

\* The items that have a place, of a web w that agrees with the outbox p
\* behind a.
LEMMA Places ==
  ASSUME NEW w \in Items, NEW a \in 0..Len(w), NEW p \in Items, Len(w) <= a + Len(p),
         \A n \in a + 1 .. Len(w) : w[n] = p[n - a]
  PROVE  LET r == w \o SubSeq(p, Len(w) - a + 1, Len(p))
         IN  /\ r \in Items /\ Len(r) = a + Len(p)
             /\ \A n \in 1..Len(w) : r[n] = w[n]
             /\ \A n \in a + 1 .. a + Len(p) : r[n] = p[n - a]
<1> DEFINE rest == SubSeq(p, Len(w) - a + 1, Len(p))
<1>1. Len(w) \in Nat /\ Len(p) \in Nat
  BY ItemsAre
<1>2. /\ rest \in Items /\ Len(rest) = a + Len(p) - Len(w)
      /\ \A i \in 1..Len(rest) : rest[i] = p[Len(w) - a + i]
  <2>1. Len(w) - a + 1 \in Nat \ {0} /\ Len(p) \in 0..Len(p)
    BY <1>1
  <2>2. /\ rest \in Items
        /\ Len(rest) = IF Len(w) - a + 1 <= Len(p) THEN Len(p) - (Len(w) - a + 1) + 1 ELSE 0
        /\ \A i \in 1..Len(rest) : rest[i] = p[Len(w) - a + 1 + i - 1]
    BY <2>1, Part
  <2>3. Len(rest) = a + Len(p) - Len(w)
    BY <1>1, <2>2
  <2>4. ASSUME NEW i \in 1..Len(rest)
        PROVE  rest[i] = p[Len(w) - a + i]
    <3>1. i \in Int /\ Len(w) - a + 1 + i - 1 = Len(w) - a + i
      BY <1>1, <2>3
    <3> HIDE DEF rest
    <3> QED BY <2>2, <3>1
  <2> QED BY <2>2, <2>3, <2>4
<1> DEFINE r == w \o rest
<1>3. /\ r \in Items /\ Len(r) = Len(w) + Len(rest)
      /\ \A i \in 1..Len(w) : r[i] = w[i]
      /\ \A i \in Len(w) + 1 .. Len(w) + Len(rest) : r[i] = rest[i - Len(w)]
  BY <1>2, Joined
<1>4. ASSUME NEW n \in a + 1 .. a + Len(p)
      PROVE  r[n] = p[n - a]
  <2>1. CASE n <= Len(w)
    <3>1. n \in 1..Len(w) /\ n \in a + 1 .. Len(w)
      BY <1>1, <2>1
    <3> QED BY <1>3, <3>1
  <2>2. CASE n > Len(w)
    <3>1. n - Len(w) \in 1..Len(rest) /\ n \in Len(w) + 1 .. Len(w) + Len(rest)
      BY <1>1, <1>2, <2>2
    <3>2. Len(w) - a + (n - Len(w)) = n - a
      BY <1>1
    <3> HIDE DEF r, rest
    <3> QED BY <1>2, <1>3, <3>1, <3>2
  <2> QED BY <1>1, <2>1, <2>2
<1> QED BY <1>1, <1>2, <1>3, <1>4

-----------------------------------------------------------------------------
(* The snapshot, and what was held *)

Rank(set, r) == Cardinality({q \in set : q <= r})

\* The members of a finite set of numbers are counted in their order.
LEMMA Ranks ==
  ASSUME NEW M, M \subseteq Nat, IsFiniteSet(M)
  PROVE  /\ Cardinality(M) \in Nat
         /\ \A r \in M : Rank(M, r) \in 1..Cardinality(M)
         /\ \A r, s \in M : r < s => Rank(M, r) < Rank(M, s)
         /\ \A i \in 1..Cardinality(M) : \E r \in M : Rank(M, r) = i
<1> DEFINE upto(r) == {q \in M : q <= r}
<1>1. Cardinality(M) \in Nat
  BY FS_CardinalityType
<1>2. \A r \in M : upto(r) \in SUBSET M /\ IsFiniteSet(upto(r)) /\ Cardinality(upto(r)) \in Nat
  BY FS_Subset, FS_CardinalityType
<1>3. ASSUME NEW r \in M
      PROVE  Cardinality(upto(r)) \in 1..Cardinality(M)
  <2>1. Cardinality(upto(r)) <= Cardinality(M)
    BY <1>2, FS_Subset
  <2>2. r \in upto(r)
    OBVIOUS
  <2>3. Cardinality(upto(r)) # 0
    BY <1>2, <2>2, FS_EmptySet
  <2> HIDE DEF upto
  <2> QED BY <1>1, <1>2, <2>1, <2>3
<1>4. ASSUME NEW r \in M, NEW s \in M, r < s
      PROVE  Cardinality(upto(r)) < Cardinality(upto(s))
  <2>1. upto(r) \in SUBSET upto(s)
    <3>1. r \in Nat /\ s \in Nat /\ \A q \in M : q \in Nat
      OBVIOUS
    <3>2. \A q \in M : q <= r => q <= s
      BY <1>4, <3>1
    <3> QED BY <3>2
  <2>2. upto(r) # upto(s)
    <3>1. s \in upto(s) /\ s \notin upto(r)
      BY <1>4
    <3> QED BY <3>1
  <2>3. /\ Cardinality(upto(r)) <= Cardinality(upto(s))
        /\ Cardinality(upto(s)) # Cardinality(upto(r))
    BY <1>2, <2>1, <2>2, FS_Subset
  <2> HIDE DEF upto
  <2> QED BY <1>2, <2>3
<1> DEFINE rank == [r \in M |-> Cardinality(upto(r))]
<1>5. rank \in Injection(M, 1..Cardinality(M))
  <2>1. rank \in [M -> 1..Cardinality(M)]
    BY <1>3
  <2>2. \A r, s \in M : rank[r] = rank[s] => r = s
    <3>1. ASSUME NEW r \in M, NEW s \in M, r # s
          PROVE  Cardinality(upto(r)) # Cardinality(upto(s))
      <4>1. r < s \/ s < r
        BY <3>1
      <4>2. Cardinality(upto(r)) < Cardinality(upto(s)) \/ Cardinality(upto(s)) < Cardinality(upto(r))
        BY <4>1, <1>4
      <4> HIDE DEF upto
      <4> QED BY <4>2, <1>2
    <3> QED BY <3>1
  <2> QED BY <2>1, <2>2 DEF Injection, IsInjective
<1>6. rank \in Surjection(M, 1..Cardinality(M))
  <2>1. /\ IsFiniteSet(1..Cardinality(M)) /\ Cardinality(1..Cardinality(M)) = Cardinality(M)
    BY <1>1, FS_Interval
  <2> HIDE DEF rank
  <2> QED BY <1>5, <2>1, FS_Injection
<1>7. \A i \in 1..Cardinality(M) : \E r \in M : Cardinality(upto(r)) = i
  BY <1>6 DEF Surjection
<1> QED BY <1>1, <1>3, <1>4, <1>7 DEF Rank

\* The members of a set of numbers, in order, each once.
LEMMA SortedIs ==
  ASSUME NEW M, M \subseteq Nat, IsFiniteSet(M)
  PROVE  LET s == Sorted(M)
         IN  /\ Cardinality(M) \in Nat /\ DOMAIN s = 1..Cardinality(M)
             /\ \A i \in 1..Cardinality(M) : s[i] \in M
             /\ \A i, j \in 1..Cardinality(M) : i < j => s[i] < s[j]
             /\ \A r \in M : \E i \in 1..Cardinality(M) : s[i] = r
<1> DEFINE m == Cardinality(M)
           pick(i) == CHOOSE r \in M : Cardinality({q \in M : q <= r}) = i
<1>1. /\ m \in Nat
      /\ \A r \in M : Rank(M, r) \in 1..m
      /\ \A r, s \in M : r < s => Rank(M, r) < Rank(M, s)
      /\ \A i \in 1..m : \E r \in M : Rank(M, r) = i
  BY Ranks
<1>2. \A i \in 1..m : pick(i) \in M /\ Rank(M, pick(i)) = i
  BY <1>1 DEF Rank
<1>3. Sorted(M) = [i \in 1..m |-> pick(i)]
  BY DEF Sorted
<1> HIDE DEF pick, m
<1>4. ASSUME NEW i \in 1..m, NEW j \in 1..m, i < j
      PROVE  pick(i) < pick(j)
  <2>1. /\ pick(i) \in Nat /\ pick(j) \in Nat /\ i \in Nat /\ j \in Nat
        /\ pick(i) \in M /\ pick(j) \in M
    <3>1. pick(i) \in M /\ pick(j) \in M
      BY <1>2
    <3>2. i \in Nat /\ j \in Nat
      BY <1>1
    <3> QED BY <3>1, <3>2
  <2>2. ~(pick(j) < pick(i))
    BY <1>1, <1>2, <1>4, <2>1
  <2>3. pick(i) # pick(j)
    BY <1>2, <1>4, <2>1
  <2> QED BY <2>1, <2>2, <2>3
<1>5. ASSUME NEW r \in M
      PROVE  \E i \in 1..m : pick(i) = r
  <2> DEFINE i == Rank(M, r)
  <2>1. i \in 1..m /\ pick(i) \in M /\ Rank(M, pick(i)) = i
    BY <1>1, <1>2
  <2>2. pick(i) \in Nat /\ r \in Nat /\ i \in Nat
    <3>1. i \in Nat
      BY <1>1, <2>1
    <3> HIDE DEF i
    <3> QED BY <2>1, <3>1
  <2>3. ~(pick(i) < r) /\ ~(r < pick(i))
    BY <1>1, <2>1, <2>2
  <2>4. pick(i) = r
    BY <2>2, <2>3
  <2> QED BY <2>1, <2>4
<1> QED BY <1>1, <1>2, <1>3, <1>4, <1>5 DEF m

\* A set of places in a list can be put in order.
LEMMA SomeAre ==
  ASSUME NEW n \in Nat, NEW M, M \subseteq 1..n
  PROVE  M \subseteq Nat /\ IsFiniteSet(M)
<1>1. IsFiniteSet(1..n) /\ M \in SUBSET (1..n)
  BY UpTo
<1>2. IsFiniteSet(M)
  BY <1>1, FS_Subset
<1> QED BY <1>2

\* The snapshot has each message that can be encoded, in order, and then the
\* state, or what else has a current value.
LEMMA SnapshotIs ==
  ASSUME log \in Seq(Kinds)
  PROVE  LET s == Snapshot
             n == Len(s) - 1
         IN  /\ s \in Items /\ n \in Nat
             /\ \A i \in 1..n : /\ s[i].kind = "message" /\ s[i].rev \in 1..Rev
                                /\ log[s[i].rev] = "message"
             /\ \A i, j \in 1..n : i < j => s[i].rev < s[j].rev
             /\ \A r \in 1..Rev \ Unfit : log[r] = "message" => Item("message", r) \in Range(s)
             /\ s[Len(s)] = Item(IF StateFits THEN "state" ELSE "rest", Rev)
<1> DEFINE M == {r \in DOMAIN log \ Unfit : log[r] = "message"}
           m == Cardinality(M)
           messages == Sorted(M)
           first == [i \in DOMAIN messages |-> Item("message", messages[i])]
           item == Item(IF StateFits THEN "state" ELSE "rest", Rev)
           last == <<item>>
<1>1. Rev \in Nat /\ DOMAIN log = 1..Rev
  BY LenProperties DEF Rev
<1>2. M \subseteq 1..Rev /\ M \subseteq Nat /\ IsFiniteSet(M)
  <2>1. M \subseteq 1..Rev
    BY <1>1
  <2> HIDE DEF M
  <2> QED BY <1>1, <2>1, SomeAre
<1>3. /\ m \in Nat /\ DOMAIN messages = 1..m
      /\ \A i \in 1..m : messages[i] \in M
      /\ \A i, j \in 1..m : i < j => messages[i] < messages[j]
      /\ \A r \in M : \E i \in 1..m : messages[i] = r
  <2> HIDE DEF M
  <2> QED BY <1>2, SortedIs
<1>4. Snapshot = first \o last
  BY DEF Snapshot
<1> HIDE DEF m, messages
<1>5. \A i \in 1..m : /\ first[i] = Item("message", messages[i])
                      /\ first[i].kind = "message" /\ first[i].rev = messages[i]
                      /\ first[i] \in OneItem
  <2>1. \A i \in 1..m : messages[i] \in Nat
    BY <1>2, <1>3
  <2> QED BY <1>3, <2>1 DEF Item, OneItem, Kinds
<1>6. first \in Items /\ Len(first) = m
  <2>1. first \in [1..m -> OneItem]
    BY <1>3, <1>5
  <2> QED BY <1>3, <2>1 DEF Items
<1>7. last \in Items /\ Len(last) = 1 /\ last[1] = item
  <2>1. item \in OneItem
    BY <1>1 DEF Item, OneItem, Kinds
  <2> HIDE DEF item
  <2> QED BY <2>1, Single
<1> HIDE DEF first, last
<1> DEFINE s == first \o last
<1>8. /\ s \in Items /\ Len(s) = m + 1
      /\ \A i \in 1..m : s[i] = first[i]
      /\ s[m + 1] = item
  <2>1. /\ s \in Items /\ Len(s) = Len(first) + Len(last)
        /\ \A i \in 1..Len(first) : s[i] = first[i]
        /\ \A i \in Len(first) + 1 .. Len(first) + Len(last) : s[i] = last[i - Len(first)]
    BY <1>6, <1>7, Joined
  <2>2. m + 1 = Len(first) + Len(last) /\ m = Len(first)
    BY <1>3, <1>6, <1>7
  <2> HIDE DEF s
  <2>3. /\ s \in Items /\ Len(s) = m + 1
        /\ \A i \in 1..m : s[i] = first[i]
    BY <2>1, <2>2
  <2> DEFINE k == m + 1
  <2>4. k \in Len(first) + 1 .. Len(first) + Len(last) /\ k - Len(first) = 1
    BY <1>3, <1>6, <1>7
  <2> HIDE DEF item, k
  <2>5. s[k] = last[k - Len(first)]
    BY <2>1, <2>4
  <2>6. s[k] = item
    BY <1>7, <2>4, <2>5
  <2> QED BY <2>3, <2>6 DEF k
<1> HIDE DEF s
<1>9. s[Len(s)] = item
  BY <1>8
<1> HIDE DEF item
<1>10. \A i \in 1..m : /\ s[i].kind = "message" /\ s[i].rev \in 1..Rev
                       /\ log[s[i].rev] = "message"
  <2>1. \A i \in 1..m : s[i].kind = "message" /\ s[i].rev = messages[i]
    BY <1>8, <1>5
  <2>2. \A i \in 1..m : messages[i] \in 1..Rev /\ log[messages[i]] = "message"
    BY <1>2, <1>3
  <2> QED BY <2>1, <2>2
<1>11. \A i, j \in 1..m : i < j => s[i].rev < s[j].rev
  <2>1. \A i \in 1..m : s[i].rev = messages[i]
    BY <1>8, <1>5
  <2> QED BY <1>3, <2>1
<1>12. ASSUME NEW r \in 1..Rev \ Unfit, log[r] = "message"
       PROVE  Item("message", r) \in Range(s)
  <2>1. PICK i \in 1..m : messages[i] = r
    BY <1>1, <1>3, <1>12
  <2>2. s[i] = Item("message", r)
    BY <1>8, <1>5, <2>1
  <2>3. i \in 1..Len(s)
    BY <1>3, <1>8, <2>1
  <2> QED BY <1>8, <2>2, <2>3, RangeIs
<1>13. Len(s) - 1 = m
  BY <1>3, <1>8
<1>14. Snapshot = s
  BY <1>4 DEF s
<1> QED BY <1>3, <1>8, <1>9, <1>10, <1>11, <1>12, <1>13, <1>14 DEF item

\* Everything that is held came after revision 0, and nothing after Rev; what
\* can be encoded of it keeps its order.
LEMMA HeldIs ==
  ASSUME early \in Items, Rev \in Nat, \A i \in 1..Len(early) : early[i].rev \in 1..Rev
  PROVE  LET h == Held(0)
         IN  /\ Held(Rev) = <<>> /\ h \in Items
             /\ \A i, j \in 1..Len(h) : i < j =>
                  \E k, l \in 1..Len(early) : k < l /\ h[i] = early[k] /\ h[j] = early[l]
             /\ Range(h) = {item \in Range(early) : item.rev \notin Unfit}
<1> DEFINE B(revision) == {i \in DOMAIN early : early[i].rev > revision /\ early[i].rev \notin Unfit}
<1>1. Len(early) \in Nat /\ DOMAIN early = 1..Len(early)
  BY ItemsAre
<1>2. B(Rev) = {}
  BY <1>1
<1>3. Held(Rev) = <<>>
  <2> DEFINE s == Sorted(B(Rev))
  <2>1. Cardinality({}) = 0 /\ IsFiniteSet({}) /\ {} \subseteq Nat
    BY FS_EmptySet
  <2>2. DOMAIN s = 1..0
    <3>1. DOMAIN Sorted({}) = 1..0
      BY <2>1, SortedIs
    <3> QED BY <1>2, <3>1
  <2>3. Held(Rev) = [i \in DOMAIN s |-> early[s[i]]]
    BY DEF Held
  <2> HIDE DEF s
  <2>4. Held(Rev) = [i \in 1..0 |-> early[s[i]]]
    BY <2>2, <2>3
  <2>5. Held(Rev) \in [1..0 -> OneItem]
    BY <2>4
  <2>6. Held(Rev) \in Items /\ Len(Held(Rev)) = 0
    BY <2>4, <2>5 DEF Items
  <2> QED BY <2>6, ItemsAre
<1> DEFINE M == B(0)
           m == Cardinality(M)
           places == Sorted(M)
           h == Held(0)
<1>4. M = {i \in 1..Len(early) : early[i].rev \notin Unfit}
  BY <1>1
<1> HIDE DEF M
<1>5. M \subseteq 1..Len(early) /\ M \subseteq Nat /\ IsFiniteSet(M)
  BY <1>1, <1>4, SomeAre
<1>6. /\ m \in Nat /\ DOMAIN places = 1..m
      /\ \A i \in 1..m : places[i] \in M
      /\ \A i, j \in 1..m : i < j => places[i] < places[j]
      /\ \A r \in M : \E i \in 1..m : places[i] = r
  BY <1>5, SortedIs
<1>7. h = [i \in 1..m |-> early[places[i]]]
  <2>1. h = [i \in DOMAIN places |-> early[places[i]]]
    BY DEF Held, M
  <2> HIDE DEF h, places, m
  <2> QED BY <1>6, <2>1
<1> HIDE DEF h, places, m
<1>8. \A i \in 1..m : places[i] \in 1..Len(early) /\ h[i] = early[places[i]] /\ h[i] \in OneItem
  BY <1>5, <1>6, <1>7, ItemsAre
<1>9. h \in Items /\ Len(h) = m
  <2>1. h \in [1..m -> OneItem]
    BY <1>7, <1>8
  <2> QED BY <1>6, <2>1 DEF Items
<1>10. ASSUME NEW i \in 1..Len(h), NEW j \in 1..Len(h), i < j
       PROVE  \E k, l \in 1..Len(early) : k < l /\ h[i] = early[k] /\ h[j] = early[l]
  BY <1>6, <1>8, <1>9, <1>10
<1>11. Range(h) = {item \in Range(early) : item.rev \notin Unfit}
  <2>1. Range(h) = {h[i] : i \in 1..m} /\ Range(early) = {early[i] : i \in 1..Len(early)}
    BY <1>9, RangeIs
  <2>2. \A i \in 1..m : h[i] \in Range(early) /\ h[i].rev \notin Unfit
    BY <1>4, <1>6, <1>8, <2>1
  <2>3. ASSUME NEW k \in 1..Len(early), early[k].rev \notin Unfit
        PROVE  \E i \in 1..m : h[i] = early[k]
    BY <1>4, <1>6, <1>8, <2>3
  <2> QED BY <2>1, <2>2, <2>3
<1> QED BY <1>3, <1>9, <1>10, <1>11 DEF h


-----------------------------------------------------------------------------
(* The outbox *)

\* The record of a session with some of its fields changed.
LEMMA DiskIs ==
  ASSUME NEW d \in DiskType
  PROVE  /\ d.on \in BOOLEAN /\ d.acked \in Nat /\ d.rows \in Items
         /\ d.backfilled \in BOOLEAN /\ d.stateRecorded \in BOOLEAN /\ d.attempted \in BOOLEAN
         /\ d.skipped \in BOOLEAN
BY DEF DiskType

\* The record of a session with a count of what was not encoded.
LEMMA SkippedIs ==
  ASSUME disk \in DiskType, NEW any
  PROVE  /\ Skipped(any) \in DiskType
         /\ Skipped(any) = [disk EXCEPT !.skipped = Skipped(any).skipped]
         /\ Skipped(any).skipped \in BOOLEAN
         /\ Skipped(any).skipped <=> disk.skipped \/ any
<1> DEFINE u == disk.skipped \/ any
<1>1. u \in BOOLEAN
  BY ZenonT(20)
<1>2. Skipped(any) = [disk EXCEPT !.skipped = u]
  BY DEF Skipped
<1> HIDE DEF u
<1>3. Skipped(any) \in DiskType /\ Skipped(any).skipped = u
  BY <1>1, <1>2 DEF DiskType
<1>4. Skipped(any).skipped <=> u
  BY <1>1, <1>3
<1> QED BY <1>1, <1>2, <1>3, <1>4 DEF u

\* What is pending: the rows, and what is not committed yet.
LEMMA PendingIs ==
  ASSUME SessionType
  PROVE  /\ Rev \in Nat
         /\ disk.acked \in Nat /\ disk.rows \in Items /\ unflushed \in Items
         /\ Pending \in Items /\ Len(Pending) = Len(disk.rows) + Len(unflushed)
         /\ Len(Pending) \in Nat /\ Len(disk.rows) \in Nat /\ Len(unflushed) \in Nat
         /\ LastSeq = disk.acked + Len(Pending) /\ LastSeq \in Nat
         /\ NextSeq = LastSeq + 1
         /\ \A i \in 1..Len(disk.rows) : Pending[i] = disk.rows[i]
         /\ \A i \in Len(disk.rows) + 1 .. Len(Pending) :
              Pending[i] = unflushed[i - Len(disk.rows)]
<1>1. disk.acked \in Nat /\ disk.rows \in Items /\ unflushed \in Items
  BY DiskIs DEF SessionType
<1>2. Rev \in Nat
  BY LenProperties DEF SessionType, Rev
<1>3. Len(disk.rows) \in Nat /\ Len(unflushed) \in Nat
  BY <1>1, ItemsAre
<1>4. /\ Pending \in Items /\ Len(Pending) = Len(disk.rows) + Len(unflushed)
      /\ \A i \in 1..Len(disk.rows) : Pending[i] = disk.rows[i]
      /\ \A i \in Len(disk.rows) + 1 .. Len(disk.rows) + Len(unflushed) :
           Pending[i] = unflushed[i - Len(disk.rows)]
  BY <1>1, Joined DEF Pending
<1> HIDE DEF Pending
<1> QED BY <1>1, <1>2, <1>3, <1>4 DEF LastSeq, NextSeq

\* A change is an item.
LEMMA ItemIs ==
  ASSUME NEW kind \in Kinds, NEW rev \in Nat
  PROVE  Item(kind, rev) \in OneItem /\ Item(kind, rev).kind = kind /\ Item(kind, rev).rev = rev
BY DEF Item, OneItem

\* The revisions of a list of items.
LEMMA RevsAre ==
  ASSUME NEW s \in Items
  PROVE  RevsOf(s) \subseteq Nat /\ \A i \in 1..Len(s) : s[i].rev \in RevsOf(s)
<1>1. DOMAIN s = 1..Len(s) /\ \A i \in 1..Len(s) : s[i] \in OneItem
  BY ItemsAre
<1> QED BY <1>1 DEF RevsOf, OneItem

\* append of two lists: both are stored, or the first, or none; what is not
\* stored stops the recording and is accounted for, unless the second list
\* alone was left out.
LEMMA StoreIs ==
  ASSUME SessionType, lost \in LostType,
         NEW items \in Items, NEW more \in Items, Store(items, more)
  PROVE  /\ unflushed' \in Items /\ stopped' \in BOOLEAN
         /\ lost' \in LostType /\ Lost \subseteq Lost'
         /\ \/ unflushed' = unflushed \o (items \o more) /\ stopped' = stopped
            \/ unflushed' = unflushed \o items /\ stopped' = TRUE
            \/ /\ unflushed' = unflushed /\ stopped' = TRUE
               /\ Range(items \o more) \subseteq Lost'
<1> DEFINE whole == items \o more
           kept == IF ~Fits(items) THEN <<>> ELSE IF Fits(whole) THEN whole ELSE items
           full == Len(kept) < Len(whole)
<1>1. whole \in Items /\ kept \in Items
  BY Joined, ItemsAre
<1>2. /\ unflushed' = unflushed \o kept
      /\ stopped' = (stopped \/ full)
      /\ lost' = [lost EXCEPT !.full = @ \cup (Range(whole) \ Range(kept))]
  BY DEF Store
<1>3. unflushed \in Items /\ stopped \in BOOLEAN
  BY DEF SessionType
<1>4. unflushed' \in Items
  BY <1>1, <1>2, <1>3, Joined
<1>5. full \in BOOLEAN /\ stopped' \in BOOLEAN
  BY <1>2
<1>6. lost' \in LostType /\ Lost \subseteq Lost' /\ Range(whole) \ Range(kept) \subseteq Lost'
  <2>1. Range(whole) \subseteq OneItem
    BY <1>1, RangeIs
  <2> HIDE DEF whole, kept, full
  <2>2. /\ lost' \in LostType /\ lost'.crash = lost.crash /\ lost'.early = lost.early
        /\ lost'.held = lost.held /\ lost'.full = lost.full \cup (Range(whole) \ Range(kept))
    BY <1>2, <2>1 DEF LostType
  <2> QED BY <2>2 DEF Lost
<1>7. kept = whole \/ kept = items \/ kept = <<>>
  OBVIOUS
<1>8. /\ Len(whole) \in Nat /\ Len(whole) = Len(items) + Len(more)
      /\ Len(items) \in Nat /\ Len(more) \in Nat /\ Len(<<>>) = 0
  BY <1>1, Joined, ItemsAre
<1>9. \A s \in Items : s = <<>> <=> Len(s) = 0
  BY ItemsAre
<1>10. unflushed \o <<>> = unflushed /\ items \o <<>> = items /\ <<>> \o more = more
  BY <1>3, ItemsAre
<1>11. Range(<<>>) = {}
  BY RangeNone
<1>12. CASE full
  <2>1. stopped' = TRUE
    BY <1>2, <1>3, <1>12
  <2>2. kept # whole
    <3> HIDE DEF kept
    <3> QED BY <1>8, <1>12
  <2>3. CASE kept = items
    <3> HIDE DEF kept, full
    <3> QED BY <1>2, <1>4, <1>5, <1>6, <2>1, <2>3
  <2>4. CASE kept = <<>>
    <3> HIDE DEF kept, full
    <3> QED BY <1>2, <1>4, <1>5, <1>6, <1>10, <1>11, <2>1, <2>4
  <2> HIDE DEF kept, whole, full
  <2> QED BY <1>7, <2>2, <2>3, <2>4
<1>13. CASE ~full
  <2>1. stopped' = stopped
    BY <1>2, <1>3, <1>13
  <2>2. kept = whole
    <3>1. CASE kept = items
      <4>1. Len(more) = 0
        <5> HIDE DEF kept, whole
        <5> QED BY <1>8, <1>13, <3>1
      <4>2. whole = items
        BY <1>9, <1>10, <4>1
      <4> QED BY <3>1, <4>2
    <3>2. CASE kept = <<>>
      <4>1. Len(whole) = 0
        <5> HIDE DEF kept, whole
        <5> QED BY <1>8, <1>13, <3>2
      <4> QED BY <1>1, <1>9, <3>2, <4>1
    <3> QED BY <1>7, <3>1, <3>2
  <2> HIDE DEF kept, whole, full
  <2>3. unflushed' = unflushed \o whole
    BY <1>2, <2>2
  <2> QED BY <1>4, <1>5, <1>6, <2>1, <2>3 DEF whole
<1> HIDE DEF full
<1> QED BY <1>12, <1>13

\* acknowledge: the rows behind what is acknowledged stay.
LEMMA AcknowledgedIs ==
  ASSUME SessionType, NEW seq \in Nat, disk.acked <= seq, seq <= LastSeq
  PROVE  /\ Acknowledged(seq) \in DiskType
         /\ Acknowledged(seq) = [disk EXCEPT !.acked = seq, !.rows = Acknowledged(seq).rows]
         /\ Acknowledged(seq).acked = seq
         /\ Len(Acknowledged(seq).rows) = LastSeq - seq
         /\ \A i \in 1..LastSeq - seq : Acknowledged(seq).rows[i] = Pending[seq - disk.acked + i]
<1> DEFINE rest == SubSeq(Pending, seq - disk.acked + 1, Len(Pending))
<1>1. /\ disk \in DiskType /\ disk.acked \in Nat /\ Pending \in Items /\ Len(Pending) \in Nat
      /\ LastSeq = disk.acked + Len(Pending)
  BY PendingIs DEF SessionType
<1>2. seq - disk.acked + 1 \in Nat \ {0} /\ Len(Pending) \in 0..Len(Pending)
  BY <1>1
<1>3. /\ rest \in Items
      /\ Len(rest) = IF seq - disk.acked + 1 <= Len(Pending)
                       THEN Len(Pending) - (seq - disk.acked + 1) + 1 ELSE 0
      /\ \A i \in 1..Len(rest) : rest[i] = Pending[seq - disk.acked + 1 + i - 1]
  BY <1>1, <1>2, Part
<1>4. Len(rest) = LastSeq - seq
  <2> HIDE DEF rest
  <2> QED BY <1>1, <1>3
<1>5. ASSUME NEW i \in 1..LastSeq - seq
      PROVE  rest[i] = Pending[seq - disk.acked + i]
  <2>1. seq - disk.acked + 1 + i - 1 = seq - disk.acked + i
    BY <1>1
  <2> HIDE DEF rest
  <2> QED BY <1>3, <1>4, <2>1
<1>6. Acknowledged(seq) = [disk EXCEPT !.acked = seq, !.rows = rest]
  BY DEF Acknowledged
<1> HIDE DEF rest
<1>7. Acknowledged(seq) \in DiskType /\ Acknowledged(seq).acked = seq /\ Acknowledged(seq).rows = rest
  BY <1>1, <1>3, <1>6 DEF DiskType
<1> QED BY <1>4, <1>5, <1>6, <1>7

-----------------------------------------------------------------------------
(* Types, and what the web has of the outbox *)

\* The platform appends what it has not got of a request.
LEMMA AcceptedIs ==
  ASSUME web \in Items, NEW first \in Nat \ {0}, NEW items \in Items,
         Accepted([first |-> first, items |-> items])
  PROVE  /\ web' \in Items /\ Len(web) <= Len(web') /\ first <= Len(web) + 1
         /\ Len(web') = IF first + Len(items) - 1 > Len(web)
                          THEN first + Len(items) - 1 ELSE Len(web)
         /\ \A n \in 1..Len(web) : web'[n] = web[n]
         /\ \A n \in Len(web) + 1 .. Len(web') : web'[n] = items[n - first + 1]
<1> DEFINE m == Len(web) + 2 - first
           rest == SubSeq(items, m, Len(items))
<1>1. web' = web \o rest /\ first <= Len(web) + 1
  BY DEF Accepted
<1>2. Len(web) \in Nat /\ Len(items) \in Nat
  BY ItemsAre
<1>3. m \in Nat \ {0} /\ Len(items) \in 0..Len(items)
  BY <1>1, <1>2
<1>4. /\ rest \in Items /\ Len(rest) = IF m <= Len(items) THEN Len(items) - m + 1 ELSE 0
      /\ \A i \in 1..Len(rest) : rest[i] = items[m + i - 1]
  <2> HIDE DEF m
  <2> QED BY <1>3, Part
<1>5. Len(rest) \in Nat
  <2> HIDE DEF rest
  <2> QED BY <1>2, <1>4
<1>6. /\ web' \in Items /\ Len(web') = Len(web) + Len(rest)
      /\ \A i \in 1..Len(web) : web'[i] = web[i]
      /\ \A i \in Len(web) + 1 .. Len(web) + Len(rest) : web'[i] = rest[i - Len(web)]
  <2> HIDE DEF rest
  <2> QED BY <1>1, <1>4, Joined
<1>7. ASSUME NEW n \in Len(web) + 1 .. Len(web')
      PROVE  web'[n] = items[n - first + 1]
  <2>1. n - Len(web) \in 1..Len(rest) /\ n \in Len(web) + 1 .. Len(web) + Len(rest)
    <3> HIDE DEF rest
    <3> QED BY <1>2, <1>5, <1>6
  <2>2. m + (n - Len(web)) - 1 = n - first + 1
    BY <1>2
  <2> HIDE DEF m, rest
  <2> QED BY <1>4, <1>6, <2>1, <2>2
<1>8. Len(web') = IF first + Len(items) - 1 > Len(web)
                    THEN first + Len(items) - 1 ELSE Len(web)
  <2> HIDE DEF rest
  <2> QED BY <1>2, <1>4, <1>6
<1> HIDE DEF rest
<1> QED BY <1>1, <1>2, <1>5, <1>6, <1>7, <1>8

\* A record for a request is the request.
LEMMA FlightIs ==
  ASSUME NEW f \in FlightType
  PROVE  /\ f.first \in Nat /\ f.items \in Items /\ f.seq \in Nat
         /\ f.reply \in {"none", "ok", "gap"}
BY DEF FlightType

\* What a session starts with.
LEMMA FlightsAre ==
  /\ NoFlight \in FlightType /\ NoFlight.items = <<>> /\ NoFlight.reply = "none"
  /\ NoGap \in GapType /\ Nothing \in DiskType /\ Nothing.acked = 0 /\ Nothing.rows = <<>>
  /\ ~Nothing.backfilled /\ ~Nothing.attempted
<1>1. <<>> \in Items
  BY ItemsAre
<1> QED BY <1>1 DEF NoFlight, FlightType, NoGap, GapType, Nothing, DiskType

\* The page of a publication.
LEMMA PageIs ==
  ASSUME SessionType, Pending # <<>>
  PROVE  /\ Page \in Items /\ Len(Page) \in 1..Len(Pending) /\ Page # <<>>
         /\ \A i \in 1..Len(Page) : Page[i] = Pending[i]
<1> DEFINE n == IF Len(Pending) < PageSize THEN Len(Pending) ELSE PageSize
<1>1. Pending \in Items /\ Len(Pending) \in Nat /\ Len(Pending) # 0
  BY PendingIs, ItemsAre
<1>2. n \in 0..Len(Pending) /\ n \in Nat \ {0}
  BY <1>1, PublicationAssumption
<1>3. /\ Page \in Items /\ Len(Page) = IF 1 <= n THEN n - 1 + 1 ELSE 0
      /\ \A i \in 1..Len(Page) : Page[i] = Pending[1 + i - 1]
  <2>1. 1 \in Nat \ {0}
    OBVIOUS
  <2>2. Page = SubSeq(Pending, 1, n)
    BY DEF Page
  <2> HIDE DEF n
  <2> QED BY <1>1, <1>2, <2>1, <2>2, Part
<1>4. Len(Page) = n
  <2> HIDE DEF n
  <2> QED BY <1>2, <1>3
<1>5. Len(Page) \in 1..Len(Pending)
  <2> HIDE DEF n
  <2> QED BY <1>1, <1>2, <1>4
<1>6. \A i \in 1..Len(Page) : Page[i] = Pending[i]
  <2>1. \A i \in 1..Len(Page) : 1 + i - 1 = i
    BY <1>1, <1>5
  <2> QED BY <1>3, <2>1
<1>7. Page # <<>>
  BY <1>1, <1>3, <1>5, ItemsAre
<1> QED BY <1>3, <1>5, <1>6, <1>7

\* An answer that is plausible acknowledges what is pending.
LEMMA PlausibleIs ==
  ASSUME TypeInv, AnswerInv, Plausible
  PROVE  /\ flight.seq \in Nat /\ disk.acked <= flight.seq /\ flight.seq <= LastSeq
         /\ flight.seq <= Len(web)
<1>1. /\ flight.first \in Nat /\ flight.items \in Items /\ flight.seq \in Nat
      /\ flight.items # <<>> /\ flight.first = disk.acked + 1 /\ flight.seq <= Len(web)
  BY FlightIs DEF TypeInv, UploadType, AnswerInv, Plausible
<1>2. Len(flight.items) \in Nat /\ Len(flight.items) # 0
  BY <1>1, ItemsAre
<1>3. disk.acked \in Nat /\ LastSeq \in Nat /\ NextSeq = LastSeq + 1
  BY PendingIs DEF TypeInv
<1> QED BY <1>1, <1>2, <1>3 DEF Plausible

\* What an answer makes of the record.
LEMMA AnswerStep ==
  ASSUME TypeInv, AnswerInv, Acknowledge \/ Recover
  PROVE  /\ disk' \in DiskType /\ disk'.acked <= Len(web)
         /\ disk'.on = disk.on /\ disk'.backfilled = disk.backfilled
         /\ disk'.stateRecorded = disk.stateRecorded /\ disk'.attempted = disk.attempted
         /\ \/ /\ disk'.acked \in disk.acked .. LastSeq /\ unflushed' = <<>>
               /\ Len(disk'.rows) = LastSeq - disk'.acked
               /\ \A i \in 1..Len(disk'.rows) : disk'.rows[i] = Pending[disk'.acked - disk.acked + i]
            \/ disk' = disk /\ unflushed' = unflushed
            \/ disk'.acked >= NextSeq /\ unflushed' = <<>>
<1>1. disk \in DiskType /\ disk.acked \in Nat /\ LastSeq \in Nat /\ NextSeq = LastSeq + 1
  BY PendingIs DEF TypeInv, SessionType
<1>2. Pending \in Items /\ SessionType
  BY PendingIs DEF TypeInv
<1>3. disk.acked <= Len(web) /\ flight.seq \in Nat
  BY FlightIs DEF AnswerInv, TypeInv, UploadType
<1>4. ASSUME NEW seq \in disk.acked .. LastSeq, disk' = Acknowledged(seq), unflushed' = <<>>,
             seq <= Len(web)
      PROVE  /\ disk' \in DiskType /\ disk'.acked <= Len(web)
             /\ disk'.on = disk.on /\ disk'.backfilled = disk.backfilled
             /\ disk'.stateRecorded = disk.stateRecorded /\ disk'.attempted = disk.attempted
             /\ disk'.acked \in disk.acked .. LastSeq /\ unflushed' = <<>>
             /\ Len(disk'.rows) = LastSeq - disk'.acked
             /\ \A i \in 1..Len(disk'.rows) :
                  disk'.rows[i] = Pending[disk'.acked - disk.acked + i]
  <2>1. seq \in Nat /\ disk.acked <= seq /\ seq <= LastSeq
    BY <1>1
  <2>2. /\ Acknowledged(seq) \in DiskType
        /\ Acknowledged(seq) = [disk EXCEPT !.acked = seq, !.rows = Acknowledged(seq).rows]
        /\ Acknowledged(seq).acked = seq
        /\ Len(Acknowledged(seq).rows) = LastSeq - seq
        /\ \A i \in 1..LastSeq - seq :
             Acknowledged(seq).rows[i] = Pending[seq - disk.acked + i]
    BY <1>2, <2>1, AcknowledgedIs
  <2>3. /\ Acknowledged(seq).on = disk.on /\ Acknowledged(seq).backfilled = disk.backfilled
        /\ Acknowledged(seq).stateRecorded = disk.stateRecorded
        /\ Acknowledged(seq).attempted = disk.attempted
    BY <1>1, <2>2 DEF DiskType
  <2> QED BY <1>4, <2>2, <2>3
<1>5. CASE Acknowledge
  <2>1. flight.seq \in disk.acked .. LastSeq /\ flight.seq <= Len(web)
    BY <1>1, <1>5, PlausibleIs DEF Acknowledge
  <2>2. disk' = Acknowledged(flight.seq) /\ unflushed' = <<>>
    BY <1>5 DEF Acknowledge
  <2> QED BY <1>4, <2>1, <2>2
<1>6. CASE Recover /\ Recoverable
  <2>1. flight.seq >= disk.acked /\ flight.seq <= Len(web) /\ unflushed' = <<>>
    BY <1>6 DEF Recoverable, Recover, AnswerInv
  <2>2. CASE flight.seq >= NextSeq
    <3>1. disk' = [disk EXCEPT !.acked = flight.seq, !.rows = Pending]
      BY <1>6, <2>2 DEF Recover, FastForward
    <3> QED BY <1>1, <1>2, <1>3, <2>1, <2>2, <3>1 DEF DiskType
  <2>3. CASE ~(flight.seq >= NextSeq)
    <3>1. flight.seq \in disk.acked .. LastSeq
      BY <1>1, <1>3, <2>1, <2>3
    <3>2. disk' = Acknowledged(flight.seq)
      BY <1>6, <2>3 DEF Recover
    <3> QED BY <1>4, <2>1, <3>1, <3>2
  <2> QED BY <2>2, <2>3
<1>7. CASE Recover /\ ~Recoverable
  <2>1. disk' = disk /\ unflushed' = unflushed
    BY <1>7 DEF Recover
  <2> QED BY <1>1, <1>3, <2>1
<1> QED BY <1>5, <1>6, <1>7

\* A change makes the history longer by one.
LEMMA ChangeIs ==
  ASSUME SessionType, NEW kind \in Kinds, Change(kind)
  PROVE  /\ log' \in Seq(Kinds) /\ Rev' = Rev + 1 /\ Rev \in Nat /\ Rev' <= MaxChanges
         /\ log'[Rev + 1] = kind /\ \A r \in 1..Rev : log'[r] = log[r]
         /\ Item(kind, Rev + 1) \in OneItem
         /\ Item(kind, Rev + 1).kind = kind /\ Item(kind, Rev + 1).rev = Rev + 1
<1>1. Rev \in Nat /\ log \in Seq(Kinds) /\ log' = Append(log, kind) /\ Rev < MaxChanges
  BY PendingIs DEF SessionType, Change
<1>2. /\ log' \in Seq(Kinds) /\ Len(log') = Len(log) + 1
      /\ log'[Len(log) + 1] = kind /\ \A r \in 1..Len(log) : log'[r] = log[r]
  BY <1>1, AppendProperties
<1>3. Rev + 1 <= MaxChanges
  BY <1>1, PublicationAssumption
<1>4. Rev + 1 \in Nat
  BY <1>1
<1> QED BY <1>1, <1>2, <1>3, <1>4, ItemIs DEF Rev

\* What is held grows by the change, or starts again with it, or is dropped.
LEMMA HoldIs ==
  ASSUME SessionType, NEW kind \in Kinds, Change(kind), Hold(kind)
  PROVE  LET item == Item(kind, Rev + 1)
         IN  /\ early' \in Items /\ ~disk.backfilled
             /\ \/ /\ Len(early') = Len(early) + 1 /\ early'[Len(early) + 1] = item
                   /\ \A i \in 1..Len(early) : early'[i] = early[i]
                \/ Len(early') = 1 /\ early'[1] = item
                \/ early' = <<>> /\ Len(early') = 0
             /\ lost' = IF NextSeq > 1
                          THEN [lost EXCEPT !.early =
                                  @ \cup ((Range(early) \cup {item}) \ Range(early'))]
                          ELSE lost
<1> DEFINE item == Item(kind, Rev + 1)
<1>1. item \in OneItem /\ early \in Items
  BY ChangeIs DEF SessionType
<1>2. ~disk.backfilled
  BY DEF Hold
<1>3. lost' = IF NextSeq > 1
                THEN [lost EXCEPT !.early = @ \cup ((Range(early) \cup {item}) \ Range(early'))]
                ELSE lost
  BY DEF Hold
<1>4. early' \in {<<>>, Append(<<>>, item), Append(early, item)}
  BY DEF Hold
<1> HIDE DEF item
<1>5. CASE early' = <<>>
  BY <1>2, <1>3, <1>5, ItemsAre DEF item
<1>6. CASE early' = Append(<<>>, item)
  <2>1. <<>> \in Items /\ Len(<<>>) = 0
    BY ItemsAre
  <2>2. early' \in Items /\ Len(early') = 1 /\ early'[1] = item
    BY <1>1, <1>6, <2>1, AppendProperties DEF Items
  <2> QED BY <1>2, <1>3, <2>2 DEF item
<1>7. CASE early' = Append(early, item)
  <2>1. /\ early' \in Items /\ Len(early') = Len(early) + 1 /\ early'[Len(early) + 1] = item
        /\ \A i \in 1..Len(early) : early'[i] = early[i]
    BY <1>1, <1>7, AppendProperties DEF Items
  <2> QED BY <1>2, <1>3, <2>1 DEF item
<1> QED BY <1>4, <1>5, <1>6, <1>7

\* What the buffer drops is accounted for, if there are entries.
LEMMA HoldLost ==
  ASSUME TypeInv, NEW kind \in Kinds, Change(kind), Hold(kind)
  PROVE  LET item == Item(kind, Rev + 1)
         IN  /\ lost' \in LostType /\ Lost \subseteq Lost'
             /\ NextSeq > 1 => (Range(early) \cup {item}) \ Range(early') \subseteq Lost'
<1> DEFINE item == Item(kind, Rev + 1)
           dropped == (Range(early) \cup {item}) \ Range(early')
<1>1. /\ SessionType /\ lost \in LostType /\ early \in Items /\ NextSeq \in Nat
  BY PendingIs DEF TypeInv, SessionType, HistoryType
<1>2. dropped \subseteq OneItem
  BY <1>1, ChangeIs, RangeIs
<1>3. lost' = IF NextSeq > 1 THEN [lost EXCEPT !.early = @ \cup dropped] ELSE lost
  BY <1>1, HoldIs
<1> HIDE DEF dropped
<1>4. CASE NextSeq > 1
  <2>1. /\ lost' \in LostType /\ lost'.crash = lost.crash /\ lost'.full = lost.full
        /\ lost'.held = lost.held /\ lost'.early = lost.early \cup dropped
    BY <1>1, <1>2, <1>3, <1>4 DEF LostType
  <2> QED BY <2>1 DEF Lost, dropped
<1>5. CASE ~(NextSeq > 1)
  BY <1>1, <1>3, <1>5 DEF Lost
<1> QED BY <1>4, <1>5

\* The backfill of an outbox without entries, when it succeeds.
LEMMA HistoryIs ==
  ASSUME SessionType, Len(Snapshot) <= Capacity, BackfillHistory
  PROVE  /\ disk' \in DiskType /\ disk'.rows = Snapshot /\ unflushed' = <<>>
         /\ disk'.acked = disk.acked /\ disk'.on = disk.on /\ disk'.attempted = disk.attempted
         /\ disk'.backfilled /\ disk'.stateRecorded /\ lost' = lost /\ stopped' = stopped
         /\ disk'.skipped <=> disk.skipped \/ SnapshotSkips
<1>1. disk \in DiskType /\ Rev \in Nat /\ early \in Items /\ log \in Seq(Kinds)
  BY PendingIs DEF SessionType
<1>2. Snapshot \in Items
  BY <1>1, SnapshotIs
<1>3. Held(Rev) = <<>>
  BY <1>1, HeldIs DEF SessionType
<1> DEFINE d == Skipped(SnapshotSkips)
<1>4. /\ disk' = [[d EXCEPT !.rows = Snapshot] EXCEPT !.backfilled = TRUE, !.stateRecorded = TRUE]
      /\ unflushed' = Held(Rev) /\ stopped' = stopped /\ lost' = lost
  BY DEF BackfillHistory, Initialized
<1>5. /\ d \in DiskType /\ d = [disk EXCEPT !.skipped = d.skipped]
      /\ d.skipped \in BOOLEAN /\ (d.skipped <=> disk.skipped \/ SnapshotSkips)
  BY <1>1, SkippedIs
<1> HIDE DEF d
<1>6. d.acked = disk.acked /\ d.on = disk.on /\ d.attempted = disk.attempted
  BY <1>1, <1>5 DEF DiskType
<1>7. /\ disk' \in DiskType /\ disk'.rows = Snapshot
      /\ disk'.acked = d.acked /\ disk'.on = d.on /\ disk'.attempted = d.attempted
      /\ disk'.backfilled = TRUE /\ disk'.stateRecorded = TRUE /\ disk'.skipped = d.skipped
  BY <1>2, <1>4, <1>5 DEF DiskType
<1> QED BY <1>3, <1>4, <1>5, <1>6, <1>7

\* The current state is a list of one item or of none.
LEMMA CurrentIs ==
  ASSUME SessionType
  PROVE  CurrentState \in Items
<1>1. Item("state", Rev) \in OneItem
  BY PendingIs, ItemIs DEF Kinds
<1> QED BY <1>1, Single, ItemsAre DEF CurrentState

\* The backfill of an outbox that has entries.
LEMMA TornIs ==
  ASSUME SessionType, BackfillTorn
  PROVE  \E items, state \in Items :
           /\ items = Held(0)
           /\ state = (IF disk.stateRecorded THEN <<>> ELSE CurrentState)
           /\ Store(items, state)
           /\ disk' \in DiskType /\ disk'.rows = disk.rows /\ disk'.acked = disk.acked
           /\ disk'.on = disk.on /\ disk'.attempted = disk.attempted /\ disk'.backfilled
           /\ disk'.stateRecorded = (disk.stateRecorded \/ ~stopped')
           /\ disk'.skipped <=>
                (disk.skipped \/ HeldSkips(0) \/ (~disk.stateRecorded /\ ~stopped' /\ ~StateFits))
<1> DEFINE state == IF disk.stateRecorded THEN <<>> ELSE CurrentState
           u == disk.stateRecorded \/ ~stopped'
           any == HeldSkips(0) \/ (~disk.stateRecorded /\ ~stopped' /\ ~StateFits)
           d == Skipped(any)
<1>1. disk \in DiskType /\ Rev \in Nat /\ early \in Items
  BY PendingIs DEF SessionType
<1>2. state \in Items
  BY CurrentIs, ItemsAre
<1>3. Held(0) \in Items
  BY <1>1, HeldIs DEF SessionType
<1>4. Store(Held(0), state)
  BY DEF BackfillTorn
<1>5. /\ d \in DiskType /\ d = [disk EXCEPT !.skipped = d.skipped]
      /\ d.skipped \in BOOLEAN /\ (d.skipped <=> disk.skipped \/ any)
  BY <1>1, SkippedIs
<1>6. disk' = [d EXCEPT !.backfilled = TRUE, !.stateRecorded = @ \/ ~stopped']
  BY DEF BackfillTorn
<1> HIDE DEF d, any
<1>7. /\ d.rows = disk.rows /\ d.acked = disk.acked /\ d.on = disk.on
      /\ d.attempted = disk.attempted /\ d.stateRecorded = disk.stateRecorded
  BY <1>1, <1>5 DEF DiskType
<1>8. disk' = [d EXCEPT !.backfilled = TRUE, !.stateRecorded = u]
  BY <1>6, <1>7
<1>9. u \in BOOLEAN
  BY ZenonT(20)
<1> HIDE DEF u
<1>10. /\ disk' \in DiskType /\ disk'.rows = d.rows /\ disk'.acked = d.acked
       /\ disk'.on = d.on /\ disk'.attempted = d.attempted /\ disk'.backfilled = TRUE
       /\ disk'.stateRecorded = u /\ disk'.skipped = d.skipped
  BY <1>5, <1>8, <1>9 DEF DiskType
<1>11. /\ disk' \in DiskType /\ disk'.rows = disk.rows /\ disk'.acked = disk.acked
       /\ disk'.on = disk.on /\ disk'.attempted = disk.attempted /\ disk'.backfilled
       /\ disk'.stateRecorded = u /\ (disk'.skipped <=> disk.skipped \/ any)
  BY <1>5, <1>7, <1>10
<1> QED BY <1>2, <1>3, <1>4, <1>11 DEF u, any

\* The record and the history of a session keep their types.
LEMMA ChangeTypes ==
  ASSUME TypeInv, NEW kind \in Kinds, Change(kind)
  PROVE  SessionType' /\ HistoryType'
<1> DEFINE item == Item(kind, Rev + 1)
<1>1. /\ SessionType /\ disk \in DiskType /\ early \in Items /\ unflushed \in Items
      /\ lost \in LostType /\ due \subseteq OneItem /\ secret \subseteq Nat
      /\ counts \in CountsType /\ checkpoint \in DiskType /\ stopped \in BOOLEAN
  BY DEF TypeInv, SessionType, HistoryType
<1>2. /\ log' \in Seq(Kinds) /\ Rev' = Rev + 1 /\ Rev \in Nat /\ Rev' <= MaxChanges
      /\ item \in OneItem /\ item.rev = Rev + 1 /\ Rev + 1 \in Nat
  BY <1>1, ChangeIs
<1> HIDE DEF item
<1>3. checkpoint' = checkpoint /\ counts' = counts
  BY DEF Change
<1>4. CASE Overlook(kind)
  <2> DEFINE u == disk.stateRecorded /\ ~Missing(kind)
  <2>1. u \in BOOLEAN
    BY ZenonT(20)
  <2>2. disk' = [disk EXCEPT !.stateRecorded = u]
    BY <1>4 DEF Overlook
  <2> HIDE DEF u
  <2>3. disk' \in DiskType /\ disk'.backfilled = disk.backfilled
    BY <1>1, <2>1, <2>2 DEF DiskType
  <2>4. unflushed' = unflushed /\ early' = early /\ stopped' = stopped /\ lost' = lost
    BY <1>4 DEF Overlook
  <2>5. \A i \in 1..Len(early) : early[i].rev \in 1..Rev'
    BY <1>1, <1>2 DEF SessionType
  <2>6. due' \subseteq OneItem /\ secret' \subseteq Nat
    BY <1>1, <1>2, <1>4 DEF Overlook, item
  <2>7. SessionType'
    BY <1>1, <1>2, <1>3, <2>3, <2>4, <2>5 DEF SessionType
  <2>8. HistoryType'
    BY <1>1, <1>3, <2>4, <2>6 DEF HistoryType
  <2> QED BY <2>7, <2>8
<1>5. CASE Hold(kind)
  <2>1. /\ early' \in Items /\ ~disk.backfilled
        /\ \/ /\ Len(early') = Len(early) + 1 /\ early'[Len(early) + 1] = item
              /\ \A i \in 1..Len(early) : early'[i] = early[i]
           \/ Len(early') = 1 /\ early'[1] = item
           \/ Len(early') = 0
    BY <1>1, <1>5, HoldIs DEF item
  <2>2. disk' = disk /\ unflushed' = unflushed /\ stopped' = stopped /\ secret' = secret
    BY <1>5 DEF Hold
  <2>3. \A i \in 1..Len(early') : early'[i].rev \in 1..Rev'
    <3>1. Len(early) \in Nat /\ Len(early') \in Nat
      BY <1>1, <2>1, ItemsAre
    <3>2. \A i \in 1..Len(early) : early[i].rev \in 1..Rev'
      BY <1>1, <1>2 DEF SessionType
    <3>3. item.rev \in 1..Rev'
      BY <1>2
    <3> QED BY <2>1, <3>1, <3>2, <3>3
  <2>4. lost' \in LostType
    BY <1>5, HoldLost
  <2>5. due' \subseteq OneItem
    BY <1>1, <1>2, <1>5 DEF Hold, item
  <2>6. SessionType'
    BY <1>1, <1>2, <1>3, <2>1, <2>2, <2>3 DEF SessionType
  <2>7. HistoryType'
    BY <1>1, <1>3, <2>2, <2>4, <2>5 DEF HistoryType
  <2> QED BY <2>6, <2>7
<1>6. CASE Record(kind)
  <2>1. Store(<<item>>, <<>>) /\ disk' = disk /\ early' = early /\ secret' = secret
    BY <1>6 DEF Record, item
  <2>2. unflushed' \in Items /\ stopped' \in BOOLEAN /\ lost' \in LostType
    <3>1. <<item>> \in Items /\ <<>> \in Items
      BY <1>2, Single, ItemsAre
    <3> QED BY <1>1, <2>1, <3>1, StoreIs
  <2>3. \A i \in 1..Len(early) : early[i].rev \in 1..Rev'
    BY <1>1, <1>2 DEF SessionType
  <2>4. due' \subseteq OneItem
    BY <1>1, <1>2, <1>6 DEF Record, item
  <2>5. SessionType'
    BY <1>1, <1>2, <1>3, <2>1, <2>2, <2>3 DEF SessionType
  <2>6. HistoryType'
    BY <1>1, <1>3, <2>1, <2>2, <2>4 DEF HistoryType
  <2> QED BY <2>5, <2>6
<1>7. CASE Skip(kind)
  <2>1. /\ disk' = Skipped(TRUE) /\ UNCHANGED <<unflushed, stopped, lost, early, secret>>
        /\ due' = due \cup {item} /\ disk.backfilled
    BY <1>7 DEF Skip, item
  <2>2. disk' \in DiskType
    BY <1>1, <2>1, SkippedIs
  <2>3. \A i \in 1..Len(early) : early[i].rev \in 1..Rev'
    BY <1>1, <1>2 DEF SessionType
  <2>4. early' = <<>>
    BY <1>1, <2>1 DEF SessionType
  <2>5. SessionType'
    BY <1>1, <1>2, <1>3, <2>1, <2>2, <2>3, <2>4 DEF SessionType
  <2>6. HistoryType'
    BY <1>1, <1>2, <1>3, <2>1 DEF HistoryType
  <2> QED BY <2>5, <2>6
<1> QED BY <1>4, <1>5, <1>6, <1>7 DEF Change

\* A backfill keeps the types, whichever way it ends.
LEMMA BackfillTypes ==
  ASSUME TypeInv, Backfill
  PROVE  SessionType' /\ HistoryType' /\ disk'.acked = disk.acked
<1>1. /\ SessionType /\ lost \in LostType /\ Rev \in Nat /\ disk \in DiskType
      /\ early \in Items /\ log \in Seq(Kinds) /\ unflushed \in Items
  BY PendingIs DEF TypeInv, SessionType, HistoryType
<1>2. /\ early' = <<>> /\ log' = log /\ checkpoint' = checkpoint /\ counts' = counts
      /\ due' = due /\ secret' = secret /\ Rev' = Rev
  BY DEF Backfill, Rev
<1>3. /\ disk' \in DiskType /\ unflushed' \in Items /\ stopped' \in BOOLEAN
      /\ lost' \in LostType /\ disk'.acked = disk.acked
  <2>1. CASE BackfillHistory /\ Len(Snapshot) <= Capacity
    <3>1. /\ disk' \in DiskType /\ unflushed' = <<>> /\ disk'.acked = disk.acked
          /\ lost' = lost /\ stopped' = stopped
      BY <1>1, <2>1, HistoryIs
    <3>2. <<>> \in Items
      BY ItemsAre
    <3> QED BY <1>1, <3>1, <3>2 DEF SessionType
  <2>2. CASE BackfillHistory /\ ~(Len(Snapshot) <= Capacity)
    <3>1. /\ disk' = Skipped(SnapshotSkips) /\ unflushed' = unflushed /\ stopped' = TRUE
          /\ lost' = [lost EXCEPT !.full = @ \cup Range(Snapshot)]
      BY <2>2 DEF BackfillHistory
    <3>2. Range(Snapshot) \subseteq OneItem
      BY <1>1, SnapshotIs, RangeIs
    <3>3. lost' \in LostType
      BY <1>1, <3>1, <3>2 DEF LostType
    <3>4. disk' \in DiskType /\ disk' = [disk EXCEPT !.skipped = disk'.skipped]
      BY <1>1, <3>1, SkippedIs
    <3>5. disk'.acked = disk.acked
      BY <1>1, <3>4 DEF DiskType
    <3> QED BY <1>1, <3>1, <3>3, <3>4, <3>5
  <2>3. CASE BackfillTorn
    <3>1. PICK items \in Items, state \in Items :
            Store(items, state) /\ disk' \in DiskType /\ disk'.acked = disk.acked
      BY <1>1, <2>3, TornIs
    <3> QED BY <1>1, <3>1, StoreIs
  <2> QED BY <2>1, <2>2, <2>3 DEF Backfill
<1>4. early' \in Items /\ Len(early') = 0
  BY <1>2, ItemsAre
<1>5. SessionType'
  BY <1>1, <1>2, <1>3, <1>4 DEF SessionType
<1>6. HistoryType'
  BY <1>2, <1>3 DEF HistoryType, TypeInv
<1> QED BY <1>3, <1>5, <1>6

\* The record of a session, its revisions and what is held do not change.
LEMMA SessionSame ==
  ASSUME SessionType, log' = log, early' = early \/ early' = <<>>,
         disk' \in DiskType, checkpoint' \in DiskType, unflushed' \in Items,
         stopped' \in BOOLEAN, disk'.backfilled => early' = <<>>
  PROVE  SessionType' /\ Rev' = Rev
<1>1. <<>> \in Items /\ Len(<<>>) = 0
  BY ItemsAre
<1>2. Rev' = Rev
  BY DEF Rev
<1>3. early' \in Items /\ \A i \in 1..Len(early') : early'[i].rev \in 1..Rev'
  BY <1>1, <1>2 DEF SessionType
<1> QED BY <1>2, <1>3 DEF SessionType

\* A login that records the state, or counts one that cannot be encoded.
LEMMA LoginIs ==
  ASSUME SessionType, Login, disk.on /\ disk.backfilled /\ ~disk.stateRecorded /\ ~stopped
  PROVE  /\ CurrentState \in Items /\ Store(CurrentState, <<>>)
         /\ disk' \in DiskType /\ disk'.rows = disk.rows /\ disk'.acked = disk.acked
         /\ disk'.attempted = disk.attempted /\ disk'.backfilled = disk.backfilled
         /\ disk'.stateRecorded = ~stopped'
         /\ disk'.skipped <=> disk.skipped \/ ~StateFits
<1> DEFINE d == Skipped(~StateFits)
           u == ~stopped'
<1>1. disk \in DiskType
  BY DEF SessionType
<1>2. Store(CurrentState, <<>>) /\ disk' = [d EXCEPT !.stateRecorded = u]
  BY DEF Login
<1>3. /\ d \in DiskType /\ d = [disk EXCEPT !.skipped = d.skipped]
      /\ d.skipped \in BOOLEAN /\ (d.skipped <=> disk.skipped \/ ~StateFits)
  BY <1>1, SkippedIs
<1> HIDE DEF d
<1>4. /\ d.rows = disk.rows /\ d.acked = disk.acked
      /\ d.attempted = disk.attempted /\ d.backfilled = disk.backfilled
  BY <1>1, <1>3 DEF DiskType
<1>5. u \in BOOLEAN
  BY ZenonT(20)
<1> HIDE DEF u
<1>6. /\ disk' \in DiskType /\ disk'.rows = d.rows /\ disk'.acked = d.acked
      /\ disk'.attempted = d.attempted /\ disk'.backfilled = d.backfilled
      /\ disk'.stateRecorded = u /\ disk'.skipped = d.skipped
  BY <1>2, <1>3, <1>5 DEF DiskType
<1> QED BY <1>2, <1>3, <1>4, <1>6, CurrentIs DEF u

\* The choices of the user, and what the outbox makes of them.
LEMMA ChoiceTypes ==
  ASSUME TypeInv, On \/ Off \/ Login
  PROVE  SessionType' /\ HistoryType' /\ disk'.acked = disk.acked
<1>1. /\ SessionType /\ lost \in LostType /\ Rev \in Nat /\ disk \in DiskType
      /\ checkpoint \in DiskType /\ early \in Items /\ unflushed \in Items /\ stopped \in BOOLEAN
      /\ due \subseteq OneItem /\ secret \subseteq Nat /\ counts \in CountsType
      /\ disk.backfilled => early = <<>>
  BY PendingIs DEF TypeInv, SessionType, HistoryType
<1>2. <<>> \in Items
  BY ItemsAre
<1>3. CASE On
  <2>1. /\ disk' = [disk EXCEPT !.on = TRUE]
        /\ UNCHANGED <<log, checkpoint, unflushed, early, stopped, counts, due, secret, lost>>
    BY <1>3 DEF On, history
  <2>2. /\ disk' \in DiskType /\ disk'.backfilled = disk.backfilled /\ disk'.acked = disk.acked
    BY <1>1, <2>1 DEF DiskType
  <2>3. SessionType'
    BY <1>1, <2>1, <2>2, SessionSame
  <2>4. HistoryType'
    BY <1>1, <2>1 DEF HistoryType
  <2> QED BY <2>2, <2>3, <2>4
<1>4. CASE Off
  <2>1. /\ UNCHANGED <<log, checkpoint, due>>
        /\ counts' = [counts EXCEPT !.choices = @ + 1]
    BY <1>4 DEF Off, Choose
  <2>2. /\ disk' \in DiskType /\ disk'.acked = disk.acked /\ unflushed' \in Items
        /\ stopped' \in BOOLEAN /\ (early' = early \/ early' = <<>>)
        /\ (disk'.backfilled => early' = <<>>)
        /\ secret' \subseteq Nat /\ lost' \in LostType
    <3>1. CASE ~configured
      <4>1. /\ disk' = [disk EXCEPT !.on = FALSE]
            /\ UNCHANGED <<early, unflushed, stopped, secret, lost>>
        BY <1>4, <3>1 DEF Off
      <4> QED BY <1>1, <4>1 DEF DiskType
    <3>2. CASE configured /\ Discardable
      <4>1. /\ disk' = [disk EXCEPT !.on = FALSE, !.rows = <<>>, !.backfilled = FALSE]
            /\ unflushed' = <<>> /\ stopped' = FALSE /\ secret' = {} /\ lost' = lost
            /\ early' = <<>>
        BY <1>4, <3>2 DEF Off, Discard
      <4> QED BY <1>1, <1>2, <4>1 DEF DiskType
    <3>3. CASE configured /\ ~Discardable
      <4>1. /\ disk' = [disk EXCEPT !.on = FALSE]
            /\ UNCHANGED <<unflushed, stopped, secret>> /\ early' = <<>>
            /\ lost' = lost \/ lost' = [lost EXCEPT !.held = @ \cup Range(early)]
        BY <1>4, <3>3 DEF Off, Pause
      <4>2. Range(early) \subseteq OneItem
        BY <1>1, RangeIs
      <4>3. lost' \in LostType
        BY <1>1, <4>1, <4>2 DEF LostType
      <4> QED BY <1>1, <4>1, <4>3 DEF DiskType
    <3> QED BY <3>1, <3>2, <3>3
  <2>3. SessionType'
    BY <1>1, <2>1, <2>2, SessionSame
  <2>4. HistoryType'
    BY <1>1, <2>1, <2>2 DEF HistoryType, CountsType
  <2> QED BY <2>2, <2>3, <2>4
<1>5. CASE Login
  <2>1. UNCHANGED <<log, checkpoint, early, counts, due, secret>>
    BY <1>5 DEF Login
  <2>2. /\ disk' \in DiskType /\ disk'.acked = disk.acked /\ unflushed' \in Items
        /\ stopped' \in BOOLEAN /\ lost' \in LostType /\ disk'.backfilled = disk.backfilled
    <3>1. CASE disk.on /\ disk.backfilled /\ ~disk.stateRecorded /\ ~stopped
      <4>1. /\ disk' \in DiskType /\ disk'.acked = disk.acked /\ disk'.backfilled = disk.backfilled
            /\ CurrentState \in Items /\ Store(CurrentState, <<>>)
        BY <1>1, <1>5, <3>1, LoginIs
      <4>2. unflushed' \in Items /\ stopped' \in BOOLEAN /\ lost' \in LostType
        BY <1>1, <1>2, <4>1, StoreIs
      <4> QED BY <4>1, <4>2
    <3>2. CASE ~(disk.on /\ disk.backfilled /\ ~disk.stateRecorded /\ ~stopped)
      <4>1. UNCHANGED <<disk, unflushed, stopped, lost>>
        BY <1>5, <3>2 DEF Login
      <4> QED BY <1>1, <4>1
    <3> QED BY <3>1, <3>2
  <2>3. SessionType'
    BY <1>1, <2>1, <2>2, SessionSame
  <2>4. HistoryType'
    BY <1>1, <2>1, <2>2 DEF HistoryType
  <2> QED BY <2>2, <2>3, <2>4
<1> QED BY <1>3, <1>4, <1>5

\* What uploading and the platform leave of the record.
LEMMA UploadTypes ==
  ASSUME TypeInv, AnswerInv,
         Flush \/ Publish \/ Acknowledge \/ Recover
  PROVE  SessionType' /\ HistoryType' /\ disk'.acked <= Len(web)
<1>1. /\ SessionType /\ disk \in DiskType /\ checkpoint \in DiskType /\ Pending \in Items
      /\ stopped \in BOOLEAN /\ (disk.backfilled => early = <<>>) /\ <<>> \in Items
      /\ disk.acked <= Len(web) /\ unflushed \in Items
  BY PendingIs, ItemsAre DEF TypeInv, SessionType, AnswerInv
<1>2. UNCHANGED <<log, checkpoint, early, stopped, counts, due, secret, lost>>
  BY DEF Flush, Publish, Acknowledge, Recover, history
<1>3. /\ disk' \in DiskType /\ disk'.backfilled = disk.backfilled /\ disk'.acked <= Len(web)
      /\ unflushed' \in Items
  <2>1. CASE Flush
    <3>1. disk' = [disk EXCEPT !.rows = Pending] /\ unflushed' = <<>>
      BY <2>1 DEF Flush
    <3> QED BY <1>1, <3>1 DEF DiskType
  <2>2. CASE Publish
    <3>1. disk' = [disk EXCEPT !.rows = Pending, !.attempted = TRUE] /\ unflushed' = <<>>
      BY <2>2 DEF Publish, Attempted
    <3> QED BY <1>1, <3>1 DEF DiskType
  <2>3. CASE Acknowledge \/ Recover
    <3>1. /\ disk' \in DiskType /\ disk'.acked <= Len(web)
          /\ disk'.backfilled = disk.backfilled
          /\ unflushed' = <<>> \/ unflushed' = unflushed
      BY <2>3, AnswerStep
    <3> QED BY <1>1, <3>1
  <2> QED BY <2>1, <2>2, <2>3
<1>4. SessionType'
  BY <1>1, <1>2, <1>3, SessionSame
<1>5. HistoryType'
  BY <1>2 DEF HistoryType, TypeInv
<1> QED BY <1>3, <1>4, <1>5

\* initialize of an outbox with the snapshot.
LEMMA InitializedIs ==
  ASSUME SessionType
  PROVE  /\ Initialized \in DiskType /\ Initialized.rows = Snapshot
         /\ Initialized.acked = disk.acked /\ Initialized.attempted = disk.attempted
         /\ Initialized.backfilled = disk.backfilled
         /\ Initialized.skipped <=> disk.skipped \/ SnapshotSkips
<1> DEFINE d == Skipped(SnapshotSkips)
<1>1. disk \in DiskType /\ Snapshot \in Items
  BY SnapshotIs DEF SessionType
<1>2. /\ d \in DiskType /\ d = [disk EXCEPT !.skipped = d.skipped]
      /\ d.skipped \in BOOLEAN /\ (d.skipped <=> disk.skipped \/ SnapshotSkips)
  BY <1>1, SkippedIs
<1>3. Initialized = [d EXCEPT !.rows = Snapshot]
  BY DEF Initialized
<1> HIDE DEF d
<1>4. d.acked = disk.acked /\ d.attempted = disk.attempted /\ d.backfilled = disk.backfilled
  BY <1>1, <1>2 DEF DiskType
<1>5. /\ Initialized \in DiskType /\ Initialized.rows = Snapshot
      /\ Initialized.acked = d.acked /\ Initialized.attempted = d.attempted
      /\ Initialized.backfilled = d.backfilled /\ Initialized.skipped = d.skipped
  BY <1>1, <1>2, <1>3 DEF DiskType
<1> QED BY <1>2, <1>4, <1>5

\* What a crash takes, as it is accounted for.
LEMMA CrashLost ==
  ASSUME TypeInv, Crash
  PROVE  /\ lost' \in LostType /\ Lost \subseteq Lost' /\ Range(unflushed) \subseteq Lost'
         /\ NextSeq > 1 => Range(early) \subseteq Lost'
<1> DEFINE held == IF NextSeq > 1 THEN Range(early) ELSE {}
<1>1. lost \in LostType /\ early \in Items /\ unflushed \in Items
  BY DEF TypeInv, SessionType, HistoryType
<1>2. Range(unflushed) \subseteq OneItem /\ held \subseteq OneItem
  BY <1>1, RangeIs
<1>3. lost' = [lost EXCEPT !.crash = @ \cup Range(unflushed) \cup held]
  BY DEF Crash
<1>4. NextSeq > 1 => Range(early) \subseteq held
  OBVIOUS
<1> HIDE DEF held
<1>5. /\ lost' \in LostType /\ lost'.early = lost.early /\ lost'.full = lost.full
      /\ lost'.held = lost.held /\ lost'.crash = lost.crash \cup Range(unflushed) \cup held
  BY <1>1, <1>2, <1>3 DEF LostType
<1> QED BY <1>4, <1>5 DEF Lost

\* A daemon that dies keeps what is on the disk.
LEMMA FaultTypes ==
  ASSUME TypeInv, Crash \/ CrashInBackfill \/ Checkpoint \/ PowerLoss
  PROVE  /\ SessionType' /\ HistoryType'
         /\ disk'.acked \in {disk.acked, checkpoint.acked}
         /\ checkpoint'.acked \in {disk.acked, checkpoint.acked, 0}
<1>1. /\ SessionType /\ lost \in LostType /\ disk \in DiskType
      /\ checkpoint \in DiskType /\ early \in Items /\ unflushed \in Items /\ stopped \in BOOLEAN
      /\ due \subseteq OneItem /\ secret \subseteq Nat /\ counts \in CountsType
      /\ (disk.backfilled => early = <<>>) /\ log \in Seq(Kinds)
  BY DEF TypeInv, SessionType, HistoryType
<1>2. <<>> \in Items
  BY ItemsAre
<1>3. CASE Crash
  <2>1. /\ UNCHANGED <<log, disk, checkpoint, due, secret>>
        /\ unflushed' = <<>> /\ early' = <<>> /\ stopped' = FALSE
        /\ counts' = [counts EXCEPT !.faults = @ + 1]
    BY <1>3 DEF Crash, Restart, Fault
  <2>3. lost' \in LostType
    BY <1>3, CrashLost
  <2>4. SessionType'
    BY <1>1, <1>2, <2>1, SessionSame
  <2>5. HistoryType'
    BY <1>1, <2>1, <2>3 DEF HistoryType, CountsType
  <2> QED BY <2>1, <2>4, <2>5
<1>4. CASE CrashInBackfill
  <2>1. /\ UNCHANGED <<log, checkpoint, due, secret, lost>>
        /\ unflushed' = <<>> /\ early' = <<>> /\ stopped' = FALSE
        /\ counts' = [counts EXCEPT !.faults = @ + 1]
        /\ disk' = Initialized
    BY <1>4 DEF CrashInBackfill, Restart, Fault
  <2>3. disk' \in DiskType /\ disk'.acked = disk.acked
    BY <1>1, <2>1, InitializedIs
  <2>4. SessionType'
    BY <1>1, <1>2, <2>1, <2>3, SessionSame
  <2>5. HistoryType'
    BY <1>1, <2>1 DEF HistoryType, CountsType
  <2> QED BY <2>1, <2>3, <2>4, <2>5
<1>5. CASE Checkpoint
  <2>1. /\ UNCHANGED <<log, disk, unflushed, early, stopped, counts, due, secret, lost>>
        /\ checkpoint' = disk
    BY <1>5 DEF Checkpoint, history
  <2>2. SessionType'
    BY <1>1, <2>1, SessionSame
  <2>3. HistoryType'
    BY <1>1, <2>1 DEF HistoryType
  <2> QED BY <2>1, <2>2, <2>3
<1>6. CASE PowerLoss
  <2>1. /\ UNCHANGED <<log, due, secret, lost>>
        /\ unflushed' = <<>> /\ early' = <<>> /\ stopped' = FALSE
        /\ counts' = [counts EXCEPT !.power = @ + 1, !.faults = @ + 1]
        /\ disk' = checkpoint /\ checkpoint' = Nothing
    BY <1>6 DEF PowerLoss, Restart
  <2>2. SessionType'
    BY <1>1, <1>2, <2>1, FlightsAre, SessionSame
  <2>3. HistoryType'
    <3> DEFINE power == counts.power + 1
               faults == counts.faults + 1
    <3>1. power \in Nat /\ faults \in Nat
      BY <1>1 DEF CountsType
    <3>2. counts' = [counts EXCEPT !.power = power, !.faults = faults]
      BY <2>1
    <3> HIDE DEF power, faults
    <3>3. counts' \in CountsType
      BY <1>1, <3>1, <3>2 DEF CountsType
    <3> QED BY <1>1, <2>1, <3>3 DEF HistoryType
  <2>4. checkpoint'.acked = 0
    BY <2>1, FlightsAre
  <2> QED BY <2>1, <2>2, <2>3, <2>4
<1> QED BY <1>3, <1>4, <1>5, <1>6

\* The steps that leave the record alone.
LEMMA QuietTypes ==
  ASSUME TypeInv,
         \/ Logout \/ Connect \/ Arrive \/ Settle \/ Drop \/ Refuse
         \/ \E request \in late : ArriveLate(request)
         \/ UNCHANGED vars
  PROVE  SessionType' /\ HistoryType' /\ disk' = disk /\ checkpoint' = checkpoint
<1>1. UNCHANGED <<log, disk, checkpoint, unflushed, early, stopped, due, secret, lost>>
  BY DEF Logout, Connect, Arrive, Settle, Drop, Refuse, ArriveLate, vars, recording, history
<1>2. counts \in CountsType
  BY DEF TypeInv, HistoryType
<1>3. counts' \in CountsType
  <2>1. \/ counts' = counts
        \/ counts' = [counts EXCEPT !.choices = @ + 1]
        \/ counts' = [counts EXCEPT !.faults = @ + 1]
    BY DEF Logout, Connect, Arrive, Settle, Drop, Refuse, ArriveLate, vars, Choose, Fault
  <2> QED BY <1>2, <2>1 DEF CountsType
<1>4. HistoryType'
  BY <1>1, <1>3 DEF HistoryType, TypeInv
<1>5. Rev' = Rev
  BY <1>1 DEF Rev
<1>6. SessionType'
  BY <1>1, <1>5 DEF SessionType, TypeInv
<1> QED BY <1>1, <1>4, <1>6

\* The part of a publication that the connection has.
LEMMA UploadSame ==
  ASSUME UploadType, configured' \in BOOLEAN, connected' \in BOOLEAN,
         connected' => configured', quarantined' \in BOOLEAN, gap' \in GapType,
         flight' = flight \/ flight' = NoFlight, late' \subseteq Request,
         web' = web, offered' = offered
  PROVE  UploadType'
BY FlightsAre DEF UploadType

\* What is given up was sent, with a first number.
LEMMA GivenIs ==
  ASSUME TypeInv, AnswerInv
  PROVE  Given(flight) \subseteq Request /\ Given(flight) \subseteq Requests
<1>1. SUFFICES ASSUME flight.items # <<>>
               PROVE  [first |-> flight.first, items |-> flight.items] \in Request
  BY DEF Given, Requests
<1>2. flight.first = disk.acked + 1 /\ disk.acked \in Nat /\ flight.items \in Items
  BY <1>1, PendingIs, FlightIs DEF AnswerInv, TypeInv, UploadType
<1> QED BY <1>2 DEF Request

\* The steps that leave the web alone, and so do their answers.
LEMMA UploadStep ==
  ASSUME TypeInv, AnswerInv, [Next]_vars
  PROVE  UploadType' /\ Len(web) <= Len(web')
<1>1. /\ UploadType /\ configured \in BOOLEAN /\ connected \in BOOLEAN
      /\ (connected => configured) /\ quarantined \in BOOLEAN /\ gap \in GapType
      /\ flight \in FlightType /\ late \subseteq Request /\ web \in Items /\ offered \in Nat
      /\ Len(web) \in Nat /\ SessionType
  BY ItemsAre DEF TypeInv, UploadType
<1>2. NoFlight \in FlightType /\ NoGap \in GapType
  BY FlightsAre
<1>3. Given(flight) \subseteq Request
  BY GivenIs
<1>4. flight.first \in Nat /\ flight.items \in Items /\ flight.seq \in Nat
  BY <1>1, FlightIs
<1>5. CASE \/ \E kind \in Kinds : Change(kind)
           \/ Flush \/ Backfill \/ On \/ Checkpoint \/ UNCHANGED vars
  <2>1. UNCHANGED <<configured, connected, quarantined, gap, flight, late, web, offered>>
    BY <1>5 DEF Change, Flush, Backfill, On, Checkpoint, vars, upload
  <2>2. UploadType'
    BY <1>1, <2>1, UploadSame
  <2> QED BY <1>1, <2>1, <2>2
<1>6. CASE Off
  <2>1. /\ UNCHANGED <<configured, connected, gap, flight, late, web, offered>>
        /\ quarantined' = quarantined \/ quarantined' = FALSE
    BY <1>6 DEF Off, Discard, Pause
  <2>2. UploadType'
    BY <1>1, <2>1, UploadSame
  <2> QED BY <1>1, <2>1, <2>2
<1>7. CASE Login
  <2>1. /\ UNCHANGED <<connected, quarantined, gap, flight, late, web, offered>>
        /\ configured' = TRUE
    BY <1>7 DEF Login, upload
  <2>2. UploadType'
    BY <1>1, <2>1, UploadSame
  <2> QED BY <1>1, <2>1, <2>2
<1>8. CASE Connect
  <2>1. /\ UNCHANGED <<configured, quarantined, gap, flight, late, web, offered>>
        /\ connected' = TRUE /\ configured
    BY <1>8 DEF Connect, upload
  <2>2. UploadType'
    BY <1>1, <2>1, UploadSame
  <2> QED BY <1>1, <2>1, <2>2
<1>9. CASE Logout \/ Drop \/ Crash \/ CrashInBackfill \/ PowerLoss
  <2>1. /\ connected' = FALSE /\ flight' = NoFlight /\ late' = late \cup Given(flight)
        /\ web' = web /\ offered' = offered
        /\ configured' = FALSE \/ configured' = configured
        /\ quarantined' = FALSE \/ quarantined' = quarantined
        /\ gap' = NoGap \/ gap' = gap
    BY <1>9 DEF Logout, Drop, Crash, CrashInBackfill, PowerLoss, Restart, Disconnect
  <2>2. late' \subseteq Request
    BY <1>1, <1>3, <2>1
  <2>3. UploadType'
    BY <1>1, <1>2, <2>1, <2>2, UploadSame
  <2> QED BY <1>1, <2>1, <2>3
<1>10. CASE Publish
  <2>1. /\ UNCHANGED <<configured, connected, quarantined, gap, late, web>>
        /\ flight' = [NoFlight EXCEPT !.first = disk.acked + 1, !.items = Page]
        /\ offered' = disk.acked + Len(Page) \/ offered' = offered
        /\ Pending # <<>>
    BY <1>10 DEF Publish, Ready
  <2>2. Page \in Items /\ Len(Page) \in Nat /\ disk.acked \in Nat /\ disk.acked + 1 \in Nat
    BY <1>1, <2>1, PageIs, PendingIs, ItemsAre
  <2>3. offered' \in Nat
    BY <1>1, <2>1, <2>2
  <2>4. flight' \in FlightType
    BY <1>2, <2>1, <2>2 DEF FlightType
  <2> QED BY <1>1, <2>1, <2>3, <2>4 DEF UploadType
<1>11. CASE Arrive
  <2>1. UNCHANGED <<configured, connected, quarantined, gap, late, offered>>
    BY <1>11 DEF Arrive
  <2>2. flight.items # <<>> /\ flight.first = disk.acked + 1 /\ disk.acked \in Nat
    BY <1>1, <1>11, PendingIs DEF Arrive, AnswerInv
  <2>3. /\ web' \in Items /\ Len(web) <= Len(web')
        /\ \/ flight' = [flight EXCEPT !.reply = "ok", !.seq = Len(web')]
           \/ flight' = [flight EXCEPT !.reply = "gap", !.seq = Len(web)]
    <3>1. CASE /\ Accepted(flight)
               /\ flight' = [flight EXCEPT !.reply = "ok", !.seq = Len(web')]
      <4>1. Accepted([first |-> flight.first, items |-> flight.items])
        BY <3>1 DEF Accepted
      <4>2. flight.first \in Nat \ {0}
        BY <2>2
      <4> QED BY <1>1, <1>4, <3>1, <4>1, <4>2, AcceptedIs
    <3>2. CASE /\ Refused(flight)
               /\ flight' = [flight EXCEPT !.reply = "gap", !.seq = Len(web)]
      BY <1>1, <3>2 DEF Refused
    <3>3. \/ /\ Accepted(flight)
             /\ flight' = [flight EXCEPT !.reply = "ok", !.seq = Len(web')]
          \/ /\ Refused(flight)
             /\ flight' = [flight EXCEPT !.reply = "gap", !.seq = Len(web)]
      BY <1>11 DEF Arrive
    <3> QED BY <3>1, <3>2, <3>3
  <2>4. Len(web') \in Nat
    BY <2>3, ItemsAre
  <2>5. flight' \in FlightType
    BY <1>1, <2>3, <2>4 DEF FlightType
  <2> QED BY <1>1, <2>1, <2>3, <2>5 DEF UploadType
<1>12. CASE Acknowledge \/ Recover
  <2>1. /\ UNCHANGED <<configured, connected, late, web, offered>>
        /\ flight' = NoFlight /\ (quarantined' = quarantined \/ quarantined' = TRUE)
    BY <1>12 DEF Acknowledge, Recover
  <2>2. gap' \in GapType
    <3> DEFINE u == gap.forwarded \/ flight.seq >= NextSeq
    <3>1. gap' = NoGap \/ gap' = gap
          \/ gap' = [open |-> TRUE, lastSeq |-> flight.seq, forwarded |-> u]
      BY <1>12 DEF Acknowledge, Recover
    <3>2. u \in BOOLEAN
      BY ZenonT(20)
    <3> HIDE DEF u
    <3>3. [open |-> TRUE, lastSeq |-> flight.seq, forwarded |-> u] \in GapType
      BY <1>4, <3>2 DEF GapType
    <3> QED BY <1>1, <1>2, <3>1, <3>3
  <2>3. UploadType'
    BY <1>1, <2>1, <2>2, UploadSame
  <2> QED BY <1>1, <2>1, <2>3
<1>13. CASE Settle
  <2>1. /\ UNCHANGED <<configured, connected, quarantined, flight, late, web, offered>>
        /\ gap' = NoGap
    BY <1>13 DEF Settle
  <2>2. UploadType'
    BY <1>1, <1>2, <2>1, UploadSame
  <2> QED BY <1>1, <2>1, <2>2
<1>14. CASE \E request \in late : ArriveLate(request)
  <2>1. PICK request \in late : ArriveLate(request)
    BY <1>14
  <2>2. /\ UNCHANGED <<configured, connected, quarantined, gap, flight, offered>>
        /\ late' \subseteq Request
    BY <1>1, <2>1 DEF ArriveLate
  <2>3. web' \in Items /\ Len(web) <= Len(web')
    <3>1. CASE Accepted(request)
      <4>1. request.first \in Nat \ {0} /\ request.items \in Items
        BY <1>1 DEF Request
      <4>2. Accepted([first |-> request.first, items |-> request.items])
        BY <3>1 DEF Accepted
      <4> QED BY <1>1, <4>1, <4>2, AcceptedIs
    <3>2. CASE Refused(request)
      BY <1>1, <3>2 DEF Refused
    <3> QED BY <2>1, <3>1, <3>2 DEF ArriveLate
  <2> QED BY <1>1, <2>2, <2>3 DEF UploadType
<1>15. CASE Refuse
  <2>1. /\ UNCHANGED <<configured, connected, gap, late, web, offered>>
        /\ flight' = NoFlight /\ quarantined' = TRUE
    BY <1>15 DEF Refuse
  <2>2. UploadType'
    BY <1>1, <2>1, UploadSame
  <2> QED BY <1>1, <2>1, <2>2
<1> QED BY <1>5, <1>6, <1>7, <1>8, <1>9, <1>10, <1>11, <1>12, <1>13, <1>14, <1>15 DEF Next

\* A change of the session does not move the cursor.
LEMMA CursorStays ==
  ASSUME disk \in DiskType, \E kind \in Kinds : Change(kind)
  PROVE  disk'.acked = disk.acked
<1>1. PICK kind \in Kinds : Change(kind)
  OBVIOUS
<1>2. CASE Overlook(kind)
  <2>1. disk' = [disk EXCEPT !.stateRecorded = @ /\ ~Missing(kind)]
    BY <1>2 DEF Overlook
  <2> QED BY <2>1 DEF DiskType
<1>3. CASE Skip(kind)
  <2>1. disk' = Skipped(TRUE) /\ Skipped(TRUE) = [disk EXCEPT !.skipped = Skipped(TRUE).skipped]
    BY <1>3, SkippedIs DEF Skip
  <2> QED BY <2>1 DEF DiskType
<1> QED BY <1>1, <1>2, <1>3 DEF Change, Hold, Record

\* The count of what could not be encoded is kept, but for a power loss.
LEMMA SkippedStays ==
  ASSUME TypeInv, AnswerInv, [Next]_vars, ~PowerLoss
  PROVE  disk.skipped => disk'.skipped
<1>1. disk \in DiskType /\ SessionType
  BY DEF TypeInv, SessionType
<1>2. ASSUME NEW any
      PROVE  disk.skipped => Skipped(any).skipped
  BY <1>1, SkippedIs
<1>3. CASE \E kind \in Kinds : Change(kind)
  <2>1. PICK kind \in Kinds : Change(kind)
    BY <1>3
  <2>2. CASE Overlook(kind)
    <3>1. disk' = [disk EXCEPT !.stateRecorded = @ /\ ~Missing(kind)]
      BY <2>2 DEF Overlook
    <3> QED BY <1>1, <3>1 DEF DiskType
  <2>3. CASE ~Overlook(kind)
    BY <1>2, <2>1, <2>3 DEF Change, Hold, Record, Skip
  <2> QED BY <2>2, <2>3
<1>4. CASE Backfill
  <2>1. CASE BackfillHistory /\ Len(Snapshot) <= Capacity
    BY <1>1, <2>1, HistoryIs
  <2>2. CASE BackfillHistory /\ ~(Len(Snapshot) <= Capacity)
    BY <1>2, <2>2 DEF BackfillHistory
  <2>3. CASE BackfillTorn
    BY <1>1, <2>3, TornIs
  <2> QED BY <1>4, <2>1, <2>2, <2>3 DEF Backfill
<1>5. CASE Login
  <2>1. CASE disk.on /\ disk.backfilled /\ ~disk.stateRecorded /\ ~stopped
    BY <1>1, <1>5, <2>1, LoginIs
  <2>2. CASE ~(disk.on /\ disk.backfilled /\ ~disk.stateRecorded /\ ~stopped)
    BY <1>5, <2>2 DEF Login
  <2> QED BY <2>1, <2>2
<1>6. CASE CrashInBackfill
  BY <1>1, <1>6, InitializedIs DEF CrashInBackfill
<1>7. CASE On \/ Off \/ Flush \/ Publish
  <2>1. \/ disk' = [disk EXCEPT !.on = TRUE] \/ disk' = [disk EXCEPT !.on = FALSE]
        \/ disk' = [disk EXCEPT !.on = FALSE, !.rows = <<>>, !.backfilled = FALSE]
        \/ disk' = [disk EXCEPT !.rows = Pending]
        \/ disk' = [disk EXCEPT !.rows = Pending, !.attempted = TRUE]
    BY <1>7 DEF On, Off, Discard, Pause, Flush, Publish, Attempted
  <2> QED BY <1>1, <2>1 DEF DiskType
<1>8. CASE Acknowledge \/ Recover
  <2>1. \/ disk' = disk
        \/ disk' = [disk EXCEPT !.acked = flight.seq, !.rows = disk'.rows]
    BY <1>8 DEF Acknowledge, Recover, Acknowledged, FastForward
  <2> QED BY <1>1, <2>1 DEF DiskType
<1>9. CASE \/ Logout \/ Connect \/ Arrive \/ Settle \/ Drop \/ Refuse \/ Crash \/ Checkpoint
           \/ \E request \in late : ArriveLate(request)
           \/ UNCHANGED vars
  BY <1>9 DEF Logout, Connect, Arrive, Settle, Drop, Refuse, Crash, Checkpoint, ArriveLate, vars,
              recording
<1> QED BY <1>3, <1>4, <1>5, <1>6, <1>7, <1>8, <1>9 DEF Next

\* What is awaited is given up or waits on, the cursor where it was.
LEMMA FlightStays ==
  ASSUME TypeInv, AnswerInv, [Next]_vars, ~Publish, ~Arrive
  PROVE  flight' = NoFlight \/ (flight' = flight /\ disk'.acked = disk.acked)
<1> DEFINE Waits == flight' = NoFlight \/ (flight' = flight /\ disk'.acked = disk.acked)
<1>1. disk \in DiskType
  BY DEF TypeInv, SessionType
<1>2. CASE \E kind \in Kinds : Change(kind)
  BY <1>1, <1>2, CursorStays DEF Change, upload
<1>3. CASE Backfill
  BY <1>3, BackfillTypes DEF Backfill, upload
<1>4. CASE On \/ Off \/ Login
  BY <1>4, ChoiceTypes DEF On, Off, Login, upload
<1>5. CASE Flush
  <2>1. disk' = [disk EXCEPT !.rows = Pending] /\ flight' = flight
    BY <1>5 DEF Flush, upload
  <2> QED BY <1>1, <2>1 DEF DiskType
<1>6. CASE \/ Acknowledge \/ Recover \/ Logout \/ Drop \/ Refuse \/ Crash
           \/ CrashInBackfill \/ PowerLoss
  BY <1>6 DEF Acknowledge, Recover, Logout, Drop, Refuse, Crash, CrashInBackfill, PowerLoss,
              Restart, Disconnect
<1>7. CASE \/ Connect \/ Settle \/ Checkpoint \/ UNCHANGED vars
           \/ \E request \in late : ArriveLate(request)
  BY <1>7 DEF Connect, Settle, Checkpoint, vars, ArriveLate, upload, recording
<1> HIDE DEF Waits
<1> QED BY <1>2, <1>3, <1>4, <1>5, <1>6, <1>7 DEF Next

\* The types of every step.
LEMMA TypeStep ==
  ASSUME TypeInv, AnswerInv, [Next]_vars
  PROVE  TypeInv' /\ AnswerInv'
<1>1. UploadType' /\ Len(web) <= Len(web')
  BY UploadStep
<1>2. /\ SessionType /\ web \in Items /\ Len(web) \in Nat /\ disk.acked \in Nat
      /\ checkpoint.acked \in Nat /\ web' \in Items /\ Len(web') \in Nat
      /\ disk.acked <= Len(web) /\ checkpoint.acked <= Len(web)
      /\ flight \in FlightType /\ flight.seq \in Nat
  BY <1>1, PendingIs, DiskIs, ItemsAre, FlightIs DEF TypeInv, SessionType, UploadType, AnswerInv
<1> DEFINE Kept ==
             /\ SessionType' /\ HistoryType'
             /\ disk'.acked \in Nat /\ checkpoint'.acked \in Nat
             /\ disk'.acked <= Len(web) /\ checkpoint'.acked <= Len(web)
<1>3. ASSUME SessionType'
      PROVE  disk'.acked \in Nat /\ checkpoint'.acked \in Nat
  BY <1>3, DiskIs DEF SessionType
<1>4. Kept
  <2>1. CASE \E kind \in Kinds : Change(kind)
    <3>1. PICK kind \in Kinds : Change(kind)
      BY <2>1
    <3>2. SessionType' /\ HistoryType'
      BY <3>1, ChangeTypes
    <3>3. checkpoint' = checkpoint /\ disk'.acked = disk.acked
      <4>1. disk \in DiskType
        BY DEF TypeInv, SessionType
      <4>2. disk'.acked = disk.acked
        BY <2>1, <4>1, CursorStays
      <4> QED BY <3>1, <4>2 DEF Change
    <3> QED BY <1>2, <3>2, <3>3
  <2>2. CASE Backfill
    <3>1. SessionType' /\ HistoryType' /\ disk'.acked = disk.acked
      BY <2>2, BackfillTypes
    <3>2. checkpoint' = checkpoint
      BY <2>2 DEF Backfill
    <3> QED BY <1>2, <3>1, <3>2
  <2>3. CASE On \/ Off \/ Login
    <3>1. SessionType' /\ HistoryType' /\ disk'.acked = disk.acked
      BY <2>3, ChoiceTypes
    <3>2. checkpoint' = checkpoint
      BY <2>3 DEF On, Off, Login
    <3> QED BY <1>2, <3>1, <3>2
  <2>4. CASE Flush \/ Publish \/ Acknowledge \/ Recover
    <3>1. SessionType' /\ HistoryType' /\ disk'.acked <= Len(web)
      BY <2>4, UploadTypes
    <3>2. checkpoint' = checkpoint
      BY <2>4 DEF Flush, Publish, Acknowledge, Recover
    <3> QED BY <1>2, <1>3, <3>1, <3>2
  <2>5. CASE Crash \/ CrashInBackfill \/ Checkpoint \/ PowerLoss
    <3>1. /\ SessionType' /\ HistoryType'
          /\ disk'.acked \in {disk.acked, checkpoint.acked}
          /\ checkpoint'.acked \in {disk.acked, checkpoint.acked, 0}
      BY <2>5, FaultTypes
    <3> QED BY <1>2, <3>1
  <2>6. CASE \/ Logout \/ Connect \/ Arrive \/ Settle \/ Drop \/ Refuse
             \/ \E request \in late : ArriveLate(request)
             \/ UNCHANGED vars
    <3>1. SessionType' /\ HistoryType' /\ disk' = disk /\ checkpoint' = checkpoint
      BY <2>6, QuietTypes
    <3> QED BY <1>2, <3>1
  <2> HIDE DEF Kept
  <2> QED BY <2>1, <2>2, <2>3, <2>4, <2>5, <2>6 DEF Next
<1>5. CASE Publish
  <2>1. /\ disk' = [disk EXCEPT !.rows = Pending, !.attempted = TRUE]
        /\ flight' = [NoFlight EXCEPT !.first = disk.acked + 1, !.items = Page]
    BY <1>5 DEF Publish, Attempted
  <2>2. disk'.acked = disk.acked /\ flight'.first = disk.acked + 1 /\ flight'.reply = "none"
    <3>1. disk \in DiskType
      BY DEF TypeInv, SessionType
    <3> QED BY <2>1, <3>1 DEF DiskType, NoFlight
  <2> QED BY <1>1, <1>2, <1>4, <2>2 DEF AnswerInv, TypeInv
<1>6. CASE Arrive
  <2>1. /\ disk' = disk
        /\ \/ flight' = [flight EXCEPT !.reply = "ok", !.seq = Len(web')]
           \/ flight' = [flight EXCEPT !.reply = "gap", !.seq = Len(web)]
        /\ flight.items # <<>>
    BY <1>6 DEF Arrive, recording
  <2>2. /\ flight'.first = flight.first /\ flight'.items = flight.items
        /\ flight'.seq = Len(web) \/ flight'.seq = Len(web')
    BY <1>2, <2>1 DEF FlightType
  <2> QED BY <1>1, <1>2, <1>4, <2>1, <2>2 DEF AnswerInv, TypeInv
<1>7. CASE ~Publish /\ ~Arrive
  <2>1. flight' = NoFlight \/ (flight' = flight /\ disk'.acked = disk.acked)
    BY <1>7, FlightStays
  <2> QED BY <1>1, <1>2, <1>4, <2>1, FlightsAre DEF AnswerInv, TypeInv
<1> QED BY <1>5, <1>6, <1>7

-----------------------------------------------------------------------------
(* The places of the items *)

\* The web goes on with what the outbox holds.
Tight ==
  /\ Len(web) <= LastSeq
  /\ \A n \in disk.acked + 1 .. Len(web) : web[n] = Pending[n - disk.acked]

\* Every number has an item, on the web or in the outbox.
Placed ==
  /\ Recorded \in Items /\ Len(Recorded) = LastSeq
  /\ \A n \in 1..Len(web) : Recorded[n] = web[n]
  /\ \A n \in disk.acked + 1 .. LastSeq : Recorded[n] = Pending[n - disk.acked]

\* Where the web goes on with the outbox, every number has one item.
LEMMA RecordedIs == TypeInv /\ AnswerInv /\ Tight => Placed
<1> SUFFICES ASSUME TypeInv, AnswerInv, Tight
             PROVE  Placed
  OBVIOUS
<1>1. /\ web \in Items /\ Len(web) \in Nat /\ disk.acked \in Nat /\ disk.acked <= Len(web)
      /\ Pending \in Items /\ Len(Pending) \in Nat /\ LastSeq = disk.acked + Len(Pending)
  BY PendingIs, ItemsAre DEF TypeInv, UploadType, AnswerInv
<1>2. /\ disk.acked \in 0..Len(web) /\ Len(web) <= disk.acked + Len(Pending)
      /\ \A n \in disk.acked + 1 .. Len(web) : web[n] = Pending[n - disk.acked]
  BY <1>1 DEF Tight
<1>3. LET r == web \o SubSeq(Pending, Len(web) - disk.acked + 1, Len(Pending))
      IN  /\ r \in Items /\ Len(r) = disk.acked + Len(Pending)
          /\ \A n \in 1..Len(web) : r[n] = web[n]
          /\ \A n \in disk.acked + 1 .. disk.acked + Len(Pending) : r[n] = Pending[n - disk.acked]
  BY <1>1, <1>2, Places
<1> QED BY <1>1, <1>3 DEF Placed, Recorded

\* The numbers of what is on the disk, sent and shown.
LEMMA NumbersAre ==
  ASSUME TypeInv, AnswerInv
  PROVE  /\ disk.acked \in Nat /\ Len(disk.rows) \in Nat /\ Len(unflushed) \in Nat
         /\ Len(web) \in Nat /\ offered \in Nat /\ LastSeq \in Nat
         /\ LastSeq = disk.acked + Len(disk.rows) + Len(unflushed)
         /\ LastSeq = disk.acked + Len(Pending) /\ NextSeq = LastSeq + 1
         /\ disk.acked <= Len(web)
<1>1. SessionType /\ web \in Items /\ offered \in Nat /\ disk.acked <= Len(web)
  BY DEF TypeInv, UploadType, AnswerInv
<1>2. Len(web) \in Nat
  BY <1>1, ItemsAre
<1>3. /\ disk.acked \in Nat /\ Len(Pending) = Len(disk.rows) + Len(unflushed)
      /\ Len(disk.rows) \in Nat /\ Len(unflushed) \in Nat
      /\ LastSeq = disk.acked + Len(Pending) /\ LastSeq \in Nat /\ NextSeq = LastSeq + 1
  BY <1>1, PendingIs
<1>4. LastSeq = disk.acked + Len(disk.rows) + Len(unflushed)
  BY <1>3
<1> QED BY <1>1, <1>2, <1>3, <1>4

\* What was sent is within what has a place.
LEMMA AgreesIsTight ==
  ASSUME TypeInv, AnswerInv, Agrees
  PROVE  Tight /\ Placed /\ Len(web) <= offered /\ offered <= LastSeq
<1>1. Len(web) <= offered /\ offered <= LastSeq /\ Len(web) <= LastSeq
  <2>1. Len(web) <= offered /\ offered <= disk.acked + Len(disk.rows)
    BY DEF Agrees
  <2>2. /\ disk.acked \in Nat /\ Len(disk.rows) \in Nat /\ Len(unflushed) \in Nat
        /\ Len(web) \in Nat /\ offered \in Nat
        /\ LastSeq = disk.acked + Len(disk.rows) + Len(unflushed)
    BY NumbersAre
  <2> QED BY <2>1, <2>2
<1>2. Tight
  BY <1>1 DEF Agrees, Tight
<1> QED BY <1>1, <1>2, RecordedIs

\* A request has a first number.
LEMMA RequestsAre ==
  ASSUME TypeInv, AnswerInv
  PROVE  Requests \subseteq Request
<1>1. late \subseteq Request /\ flight.items \in Items /\ disk.acked \in Nat
  BY NumbersAre, FlightIs DEF TypeInv, UploadType
<1>2. ASSUME flight.items # <<>>
      PROVE  [first |-> flight.first, items |-> flight.items] \in Request
  <2>1. flight.first = disk.acked + 1
    BY <1>2 DEF AnswerInv
  <2> QED BY <1>1, <2>1 DEF Request
<1> QED BY <1>1, <1>2 DEF Requests

\* What no step does: to move an item that was sent, or to take one away.
Steady ==
  /\ Len(web') <= offered' /\ offered <= offered' /\ offered' <= LastSeq
  /\ offered' <= disk'.acked + Len(disk'.rows)
  /\ offered' > 0 => disk'.attempted
  /\ \A n \in 1..Len(web') : web'[n] = Recorded[n]
  /\ \A n \in disk'.acked + 1 .. LastSeq' : n <= LastSeq => Pending'[n - disk'.acked] = Recorded[n]
  /\ \A request \in Requests' :
       \/ request \in Requests
       \/ /\ request.items # <<>> /\ request.first + Len(request.items) - 1 <= offered'
          /\ \A i \in 1..Len(request.items) : request.items[i] = Recorded[request.first + i - 1]

\* A step that moves nothing that was sent keeps the agreement, and the places.
LEMMA SteadyStep ==
  ASSUME TypeInv, AnswerInv, Agrees, TypeInv', AnswerInv', Steady
  PROVE  /\ Agrees' /\ Placed
         /\ Recorded' \in Items /\ Len(Recorded') = LastSeq' /\ Len(Recorded) = LastSeq
         /\ \A n \in 1..LastSeq' : n <= LastSeq => Recorded'[n] = Recorded[n]
         /\ \A n \in disk'.acked + 1 .. LastSeq' : Recorded'[n] = Pending'[n - disk'.acked]
<1>1. Placed /\ offered <= LastSeq
  BY AgreesIsTight
<1>2. /\ LastSeq \in Nat /\ offered \in Nat /\ Len(web) \in Nat
  BY NumbersAre
<1>3. /\ disk'.acked \in Nat /\ Len(disk'.rows) \in Nat /\ Len(unflushed') \in Nat
      /\ Len(web') \in Nat /\ offered' \in Nat /\ LastSeq' \in Nat
      /\ LastSeq' = disk'.acked + Len(disk'.rows) + Len(unflushed')
      /\ disk'.acked <= Len(web')
  <2>1. (TypeInv /\ AnswerInv)' =>
          (/\ disk.acked \in Nat /\ Len(disk.rows) \in Nat /\ Len(unflushed) \in Nat
           /\ Len(web) \in Nat /\ offered \in Nat /\ LastSeq \in Nat
           /\ LastSeq = disk.acked + Len(disk.rows) + Len(unflushed)
           /\ disk.acked <= Len(web))'
    BY NumbersAre, PTL
  <2> QED BY <2>1
<1>4. Tight'
  <2>1. Len(web') <= LastSeq'
    BY <1>3 DEF Steady
  <2>2. ASSUME NEW n \in disk'.acked + 1 .. Len(web')
        PROVE  web'[n] = Pending'[n - disk'.acked]
    <3>1. n \in 1..Len(web') /\ n \in disk'.acked + 1 .. LastSeq' /\ n <= LastSeq
      BY <1>2, <1>3, <2>1 DEF Steady
    <3> QED BY <3>1 DEF Steady
  <2> QED BY <2>1, <2>2 DEF Tight
<1>5. Placed'
  <2>1. (TypeInv /\ AnswerInv /\ Tight)' => Placed'
    BY RecordedIs, PTL
  <2> QED BY <1>4, <2>1
<1>6. ASSUME NEW n \in 1..LastSeq', n <= LastSeq
      PROVE  Recorded'[n] = Recorded[n]
  <2>1. CASE n <= Len(web')
    <3>1. n \in 1..Len(web')
      BY <1>3, <2>1
    <3> QED BY <1>5, <3>1 DEF Placed, Steady
  <2>2. CASE n > Len(web')
    <3>1. n \in disk'.acked + 1 .. LastSeq'
      BY <1>3, <2>2
    <3> QED BY <1>5, <1>6, <3>1 DEF Placed, Steady
  <2> QED BY <1>3, <2>1, <2>2
<1>7. ASSUME NEW request \in Requests'
      PROVE  Carries(request, Recorded)'
  <2>1. /\ request.items # <<>> /\ request.first + Len(request.items) - 1 <= offered'
        /\ \A i \in 1..Len(request.items) : request.items[i] = Recorded[request.first + i - 1]
    <3>1. CASE request \in Requests
      <4>1. request \in Request
        BY <3>1, RequestsAre
      <4>2. request.first \in Nat /\ Len(request.items) \in Nat
        BY <4>1, ItemsAre DEF Request
      <4>3. Carries(request, Recorded) /\ offered <= offered'
        BY <3>1 DEF Agrees, Steady
      <4>4. request.first + Len(request.items) - 1 <= offered'
        BY <1>2, <1>3, <4>2, <4>3 DEF Carries
      <4> QED BY <4>3, <4>4 DEF Carries
    <3> QED BY <3>1 DEF Steady
  <2>2. request.first \in Nat \ {0} /\ Len(request.items) \in Nat
    <3>1. (TypeInv /\ AnswerInv)' => (Requests \subseteq Request)'
      BY RequestsAre, PTL
    <3>2. request \in Request
      BY <3>1
    <3> QED BY <3>2, ItemsAre DEF Request
  <2>3. offered' <= LastSeq /\ offered' <= LastSeq'
    BY <1>3 DEF Steady
  <2>4. ASSUME NEW i \in 1..Len(request.items)
        PROVE  request.items[i] = Recorded'[request.first + i - 1]
    <3> DEFINE n == Len(request.items)
    <3>1. /\ n \in Nat /\ i \in 1..n /\ request.first \in Nat /\ request.first >= 1
          /\ request.first + n - 1 <= offered' /\ offered' \in Nat
          /\ LastSeq \in Nat /\ LastSeq' \in Nat
      BY <1>2, <1>3, <2>1, <2>2
    <3> HIDE DEF n
    <3>2. request.first + i - 1 \in 1..LastSeq' /\ request.first + i - 1 <= LastSeq
      BY <3>1, <2>3
    <3> QED BY <1>6, <2>1, <3>2
  <2> QED BY <2>1, <2>4 DEF Carries
<1>8. Agrees'
  <2>1. /\ Len(web') <= offered' /\ offered' <= disk'.acked + Len(disk'.rows)
        /\ offered' > 0 => disk'.attempted
    BY DEF Steady
  <2> QED BY <1>4, <1>7, <2>1 DEF Agrees, Tight
<1> QED BY <1>1, <1>5, <1>6, <1>8 DEF Placed

\* The items keep their places when their number stays, grows or shrinks.
LEMMA PlacesStep ==
  ASSUME TypeInv, AnswerInv, Agrees, TypeInv', AnswerInv', Steady
  PROVE  /\ LastSeq' = LastSeq => Recorded' = Recorded
         /\ LastSeq' <= LastSeq => Recorded' = SubSeq(Recorded, 1, LastSeq')
         /\ \A items \in Items :
              (/\ LastSeq' = LastSeq + Len(items)
               /\ \A i \in 1..Len(items) : Pending'[LastSeq - disk'.acked + i] = items[i]
               /\ disk'.acked <= LastSeq)
                 => Recorded' = Recorded \o items
<1>1. /\ Recorded' \in Items /\ Len(Recorded') = LastSeq' /\ Len(Recorded) = LastSeq
      /\ \A n \in 1..LastSeq' : n <= LastSeq => Recorded'[n] = Recorded[n]
      /\ \A n \in disk'.acked + 1 .. LastSeq' : Recorded'[n] = Pending'[n - disk'.acked]
      /\ Recorded \in Items
  BY SteadyStep DEF Placed
<1>2. LastSeq \in Nat /\ LastSeq' \in Nat /\ disk'.acked \in Nat
  <2>1. (TypeInv /\ AnswerInv)' => (LastSeq \in Nat /\ disk.acked \in Nat)'
    BY NumbersAre, PTL
  <2> QED BY <2>1, NumbersAre
<1>3. ASSUME LastSeq' = LastSeq
      PROVE  Recorded' = Recorded
  <2>1. \A n \in 1..Len(Recorded') : Recorded'[n] = Recorded[n]
    BY <1>1, <1>2, <1>3
  <2> QED BY <1>1, <1>3, <2>1, Same
<1>4. ASSUME LastSeq' <= LastSeq
      PROVE  Recorded' = SubSeq(Recorded, 1, LastSeq')
  <2>1. 1 \in Nat \ {0} /\ LastSeq' \in 0..Len(Recorded)
    BY <1>1, <1>2, <1>4
  <2>2. /\ SubSeq(Recorded, 1, LastSeq') \in Items
        /\ Len(SubSeq(Recorded, 1, LastSeq')) = IF 1 <= LastSeq' THEN LastSeq' - 1 + 1 ELSE 0
        /\ \A i \in 1..Len(SubSeq(Recorded, 1, LastSeq')) :
             SubSeq(Recorded, 1, LastSeq')[i] = Recorded[1 + i - 1]
    BY <1>1, <2>1, Part
  <2> DEFINE cut == SubSeq(Recorded, 1, LastSeq')
  <2>3. Len(cut) = LastSeq'
    <3> HIDE DEF cut
    <3> QED BY <1>2, <2>2 DEF cut
  <2>4. \A i \in 1..Len(Recorded') : Recorded'[i] = cut[i]
    <3>1. ASSUME NEW i \in 1..LastSeq'
          PROVE  Recorded'[i] = cut[i]
      <4>1. 1 + i - 1 = i /\ i <= LastSeq
        BY <1>2, <1>4
      <4>2. cut[i] = Recorded[i]
        BY <2>2, <2>3, <4>1
      <4> QED BY <1>1, <4>1, <4>2
    <3> QED BY <1>1, <3>1
  <2> HIDE DEF cut
  <2>5. Recorded' = cut
    BY <1>1, <2>2, <2>3, <2>4, Same DEF cut
  <2> QED BY <2>5 DEF cut
<1>5. ASSUME NEW items \in Items, LastSeq' = LastSeq + Len(items), disk'.acked <= LastSeq,
             \A i \in 1..Len(items) : Pending'[LastSeq - disk'.acked + i] = items[i]
      PROVE  Recorded' = Recorded \o items
  <2>1. Len(items) \in Nat
    BY ItemsAre
  <2>2. /\ Recorded \o items \in Items /\ Len(Recorded \o items) = Len(Recorded) + Len(items)
        /\ \A i \in 1..Len(Recorded) : (Recorded \o items)[i] = Recorded[i]
        /\ \A i \in Len(Recorded) + 1 .. Len(Recorded) + Len(items) :
             (Recorded \o items)[i] = items[i - Len(Recorded)]
    BY <1>1, Joined
  <2>3. ASSUME NEW n \in 1..Len(Recorded')
        PROVE  Recorded'[n] = (Recorded \o items)[n]
    <3>1. CASE n <= LastSeq
      <4>1. n \in 1..Len(Recorded)
        BY <1>1, <1>2, <3>1
      <4> QED BY <1>1, <2>2, <3>1, <4>1
    <3>2. CASE n > LastSeq
      <4>1. /\ n - LastSeq \in 1..Len(items) /\ n \in disk'.acked + 1 .. LastSeq'
            /\ n \in Len(Recorded) + 1 .. Len(Recorded) + Len(items)
        BY <1>1, <1>2, <1>5, <2>1, <3>2
      <4>2. LastSeq - disk'.acked + (n - LastSeq) = n - disk'.acked
        BY <1>2
      <4>3. Pending'[n - disk'.acked] = items[n - LastSeq]
        BY <1>5, <4>1, <4>2
      <4> QED BY <1>1, <2>2, <4>1, <4>3
    <3>3. n \in Nat
      BY <1>1, <1>2
    <3>4. n <= LastSeq \/ n > LastSeq
      BY <1>2, <3>3
    <3> QED BY <3>1, <3>2, <3>4
  <2> QED BY <1>1, <1>5, <2>2, <2>3, Same
<1> QED BY <1>3, <1>4, <1>5

\* Only a publication makes a new request.
LEMMA RequestsStep ==
  ASSUME TypeInv, AnswerInv, [Next]_vars, ~Publish
  PROVE  Requests' \subseteq Requests
<1>1. NoFlight.items = <<>> /\ flight \in FlightType /\ Given(flight) \subseteq Requests
  BY FlightsAre, GivenIs DEF TypeInv, UploadType
<1>2. CASE \/ \E kind \in Kinds : Change(kind)
           \/ Flush \/ Backfill \/ On \/ Off \/ Login \/ Connect \/ Settle \/ Checkpoint
           \/ UNCHANGED vars
  <2>1. late' = late /\ flight' = flight
    BY <1>2 DEF Change, Flush, Backfill, On, Off, Login, Connect, Settle, Checkpoint, vars, upload
  <2> QED BY <2>1 DEF Requests
<1>3. CASE Logout \/ Drop \/ Crash \/ CrashInBackfill \/ PowerLoss
  <2>1. flight' = NoFlight /\ late' = late \cup Given(flight)
    BY <1>3 DEF Logout, Drop, Crash, CrashInBackfill, PowerLoss, Restart, Disconnect
  <2> QED BY <1>1, <2>1 DEF Requests
<1>4. CASE Acknowledge \/ Recover \/ Refuse
  <2>1. flight' = NoFlight /\ late' = late
    BY <1>4 DEF Acknowledge, Recover, Refuse
  <2> QED BY <1>1, <2>1 DEF Requests
<1>5. CASE Arrive
  <2>1. /\ late' = late
        /\ \/ flight' = [flight EXCEPT !.reply = "ok", !.seq = Len(web')]
           \/ flight' = [flight EXCEPT !.reply = "gap", !.seq = Len(web)]
    BY <1>5 DEF Arrive
  <2>2. flight'.first = flight.first /\ flight'.items = flight.items
    BY <1>1, <2>1 DEF FlightType
  <2> QED BY <2>1, <2>2 DEF Requests
<1>6. CASE \E request \in late : ArriveLate(request)
  <2>1. late' \subseteq late /\ flight' = flight
    BY <1>6 DEF ArriveLate
  <2> QED BY <2>1 DEF Requests
<1> QED BY <1>2, <1>3, <1>4, <1>5, <1>6 DEF Next

\* The numbers after a step.
LEMMA NumbersNext ==
  ASSUME TypeInv', AnswerInv'
  PROVE  /\ disk'.acked \in Nat /\ Len(disk'.rows) \in Nat /\ Len(unflushed') \in Nat
         /\ Len(web') \in Nat /\ offered' \in Nat /\ LastSeq' \in Nat
         /\ LastSeq' = disk'.acked + Len(disk'.rows) + Len(unflushed')
         /\ LastSeq' = disk'.acked + Len(Pending') /\ NextSeq' = LastSeq' + 1
         /\ disk'.acked <= Len(web')
         /\ \A i \in 1..Len(disk'.rows) : Pending'[i] = disk'.rows[i]
         /\ \A i \in Len(disk'.rows) + 1 .. Len(Pending') :
              Pending'[i] = unflushed'[i - Len(disk'.rows)]
<1>1. (TypeInv /\ AnswerInv)' =>
        (/\ disk.acked \in Nat /\ Len(disk.rows) \in Nat /\ Len(unflushed) \in Nat
         /\ Len(web) \in Nat /\ offered \in Nat /\ LastSeq \in Nat
         /\ LastSeq = disk.acked + Len(disk.rows) + Len(unflushed)
         /\ LastSeq = disk.acked + Len(Pending) /\ NextSeq = LastSeq + 1
         /\ disk.acked <= Len(web))'
  BY NumbersAre, PTL
<1>2. disk'.rows \in Items /\ unflushed' \in Items
  <2>1. disk' \in DiskType /\ unflushed' \in Items
    BY DEF TypeInv, SessionType
  <2> QED BY <2>1, DiskIs
<1>3. /\ Len(Pending') = Len(disk'.rows) + Len(unflushed')
      /\ \A i \in 1..Len(disk'.rows) : Pending'[i] = disk'.rows[i]
      /\ \A i \in Len(disk'.rows) + 1 .. Len(disk'.rows) + Len(unflushed') :
           Pending'[i] = unflushed'[i - Len(disk'.rows)]
  BY <1>2, Joined DEF Pending
<1> QED BY <1>1, <1>3

\* A step that leaves the web and what is pending alone.
LEMMA SameOutbox ==
  ASSUME TypeInv, AnswerInv, Agrees, TypeInv', AnswerInv', Requests' \subseteq Requests,
         web' = web, offered' = offered, disk'.acked = disk.acked,
         disk.attempted => disk'.attempted, Pending' = Pending, Len(disk.rows) <= Len(disk'.rows)
  PROVE  Agrees' /\ Recorded' = Recorded /\ LastSeq' = LastSeq
<1>1. /\ Placed /\ Len(web) <= offered /\ offered <= LastSeq
      /\ offered <= disk.acked + Len(disk.rows) /\ (offered > 0 => disk.attempted)
  BY AgreesIsTight DEF Agrees
<1>2. LastSeq' = LastSeq
  <2>1. LastSeq = disk.acked + Len(Pending)
    BY NumbersAre
  <2>2. LastSeq' = disk'.acked + Len(Pending')
    BY NumbersNext
  <2> QED BY <2>1, <2>2
<1>3. offered <= disk.acked + Len(disk'.rows)
  <2>1. /\ disk.acked \in Nat /\ Len(disk.rows) \in Nat /\ offered \in Nat
        /\ Len(disk'.rows) \in Nat
    BY NumbersAre, NumbersNext
  <2> QED BY <1>1, <2>1
<1>4. Steady
  <2>1. offered \in Nat /\ offered <= offered
    BY NumbersAre
  <2>2. /\ Len(web') <= offered' /\ offered <= offered' /\ offered' <= LastSeq
        /\ offered' <= disk'.acked + Len(disk'.rows) /\ (offered' > 0 => disk'.attempted)
    BY <1>1, <1>3, <2>1
  <2>3. \A n \in 1..Len(web') : web'[n] = Recorded[n]
    BY <1>1 DEF Placed
  <2>4. \A n \in disk'.acked + 1 .. LastSeq' : n <= LastSeq => Pending'[n - disk'.acked] = Recorded[n]
    BY <1>1, <1>2 DEF Placed
  <2> QED BY <2>2, <2>3, <2>4 DEF Steady
<1> QED BY <1>2, <1>4, SteadyStep, PlacesStep

\* A step that puts items at the end of what is pending.
LEMMA Appends ==
  ASSUME TypeInv, AnswerInv, Agrees, TypeInv', AnswerInv', Requests' \subseteq Requests,
         web' = web, offered' = offered, disk'.acked = disk.acked,
         disk'.attempted = disk.attempted, disk'.rows = disk.rows,
         NEW items \in Items, unflushed' = unflushed \o items
  PROVE  Agrees' /\ Recorded' = Recorded \o items /\ LastSeq' = LastSeq + Len(items)
<1>1. /\ Placed /\ Len(web) <= offered /\ offered <= LastSeq
      /\ offered <= disk.acked + Len(disk.rows) /\ (offered > 0 => disk.attempted)
  BY AgreesIsTight DEF Agrees
<1>2. /\ disk.acked \in Nat /\ Len(Pending) \in Nat /\ LastSeq = disk.acked + Len(Pending)
      /\ Pending \in Items /\ unflushed \in Items /\ disk.rows \in Items /\ Len(items) \in Nat
  BY PendingIs, ItemsAre DEF TypeInv
<1>3. Pending' = Pending \o items
  <2>1. Pending' = disk.rows \o (unflushed \o items)
    BY DEF Pending
  <2>2. disk.rows \o (unflushed \o items) = (disk.rows \o unflushed) \o items
    BY <1>2, Chained
  <2> QED BY <2>1, <2>2 DEF Pending
<1>4. /\ Len(Pending') = Len(Pending) + Len(items)
      /\ \A i \in 1..Len(Pending) : Pending'[i] = Pending[i]
      /\ \A i \in Len(Pending) + 1 .. Len(Pending) + Len(items) :
           Pending'[i] = items[i - Len(Pending)]
  BY <1>2, <1>3, Joined
<1>5. LastSeq' = LastSeq + Len(items)
  BY <1>2, <1>4, NumbersNext
<1>6. \A n \in disk'.acked + 1 .. LastSeq' : n <= LastSeq => Pending'[n - disk'.acked] = Recorded[n]
  <2>1. ASSUME NEW n \in disk.acked + 1 .. LastSeq', n <= LastSeq
        PROVE  Pending'[n - disk.acked] = Recorded[n]
    <3>1. n \in disk.acked + 1 .. LastSeq /\ n - disk.acked \in 1..Len(Pending)
      BY <1>2, <1>5, <2>1
    <3> QED BY <1>1, <1>4, <3>1 DEF Placed
  <2> QED BY <2>1
<1>7. Steady
  <2>1. Len(web) \in Nat /\ offered \in Nat /\ LastSeq \in Nat
    BY NumbersAre
  <2>2. /\ Len(web') <= offered' /\ offered <= offered' /\ offered' <= LastSeq
        /\ offered' <= disk'.acked + Len(disk'.rows) /\ (offered' > 0 => disk'.attempted)
    BY <1>1, <2>1
  <2>3. \A n \in 1..Len(web') : web'[n] = Recorded[n]
    BY <1>1 DEF Placed
  <2> QED BY <1>6, <2>2, <2>3 DEF Steady
<1>8. \A i \in 1..Len(items) : Pending'[LastSeq - disk'.acked + i] = items[i]
  <2>1. ASSUME NEW i \in 1..Len(items)
        PROVE  Pending'[LastSeq - disk.acked + i] = items[i]
    <3>1. /\ LastSeq - disk.acked + i = Len(Pending) + i
          /\ Len(Pending) + i \in Len(Pending) + 1 .. Len(Pending) + Len(items)
          /\ Len(Pending) + i - Len(Pending) = i
      BY <1>2
    <3> QED BY <1>4, <3>1
  <2> QED BY <2>1
<1>9. disk'.acked <= LastSeq
  BY <1>2
<1> QED BY <1>5, <1>7, <1>8, <1>9, SteadyStep, PlacesStep

\* A publication commits what is pending, and offers the first of it.
LEMMA PublishStep ==
  ASSUME TypeInv, AnswerInv, Agrees, TypeInv', AnswerInv', Publish
  PROVE  /\ Agrees' /\ Recorded' = Recorded /\ LastSeq' = LastSeq
         /\ offered <= offered' /\ offered' <= LastSeq
         /\ disk'.backfilled = disk.backfilled /\ disk'.stateRecorded = disk.stateRecorded
         /\ disk'.acked = disk.acked /\ Len(disk'.rows) = Len(Pending) /\ unflushed' = <<>>
<1>1. /\ Placed /\ Len(web) <= offered /\ offered <= LastSeq
      /\ Len(web) \in Nat /\ offered \in Nat /\ disk.acked \in Nat /\ LastSeq \in Nat
      /\ LastSeq = disk.acked + Len(Pending) /\ Len(Pending) \in Nat
  BY AgreesIsTight, NumbersAre, PendingIs DEF TypeInv
<1>2. /\ disk' = [disk EXCEPT !.rows = Pending, !.attempted = TRUE] /\ unflushed' = <<>>
      /\ flight' = [NoFlight EXCEPT !.first = disk.acked + 1, !.items = Page]
      /\ offered' = (IF disk.acked + Len(Page) > offered
                       THEN disk.acked + Len(Page) ELSE offered)
      /\ late' = late /\ web' = web /\ Pending # <<>>
  BY DEF Publish, Attempted, Ready
<1>3. /\ disk \in DiskType /\ Pending \in Items
      /\ Page \in Items /\ Len(Page) \in 1..Len(Pending) /\ Page # <<>>
      /\ \A i \in 1..Len(Page) : Page[i] = Pending[i]
  BY <1>2, PageIs, PendingIs DEF TypeInv, SessionType
<1>4. /\ disk'.acked = disk.acked /\ disk'.rows = Pending /\ disk'.attempted
      /\ disk'.backfilled = disk.backfilled /\ disk'.stateRecorded = disk.stateRecorded
  BY <1>2, <1>3 DEF DiskType
<1>5. Pending' = Pending
  BY <1>2, <1>3, <1>4, ItemsAre DEF Pending
<1>6. LastSeq' = LastSeq
  BY <1>1, <1>4, <1>5, NumbersNext
<1>7. offered <= offered' /\ offered' <= LastSeq /\ disk.acked + Len(Page) <= offered'
  BY <1>1, <1>2, <1>3
<1>8. flight'.first = disk.acked + 1 /\ flight'.items = Page
  BY <1>2 DEF NoFlight
<1>9. ASSUME NEW request \in Requests', request \notin Requests
      PROVE  /\ request.items # <<>> /\ request.first + Len(request.items) - 1 <= offered'
             /\ \A i \in 1..Len(request.items) :
                  request.items[i] = Recorded[request.first + i - 1]
  <2>1. request = [first |-> disk.acked + 1, items |-> Page]
    BY <1>2, <1>8, <1>9 DEF Requests
  <2>2. request.first = disk.acked + 1 /\ request.items = Page
    BY <2>1
  <2>3. disk.acked + 1 + Len(Page) - 1 <= offered'
    BY <1>1, <1>2, <1>3, <1>7
  <2>4. ASSUME NEW i \in 1..Len(Page)
        PROVE  Page[i] = Recorded[disk.acked + 1 + i - 1]
    <3> DEFINE n == disk.acked + 1 + i - 1
    <3>1. n \in disk.acked + 1 .. LastSeq /\ n - disk.acked = i
      <4> DEFINE a == disk.acked
                 k == Len(Pending)
      <4>1. a \in Nat /\ k \in Nat /\ LastSeq = a + k /\ i \in 1..k
        BY <1>1, <1>3
      <4> HIDE DEF a, k
      <4>2. n = a + 1 + i - 1
        BY DEF a
      <4> HIDE DEF n
      <4>3. n \in a + 1 .. LastSeq /\ n - a = i
        BY <4>1, <4>2
      <4> QED BY <4>3 DEF a
    <3> HIDE DEF n
    <3>2. \A q \in disk.acked + 1 .. LastSeq : Recorded[q] = Pending[q - disk.acked]
      BY <1>1 DEF Placed
    <3>3. Recorded[n] = Page[i]
      BY <1>3, <3>1, <3>2
    <3> QED BY <3>3 DEF n
  <2> QED BY <1>3, <2>2, <2>3, <2>4
<1>10. Steady
  <2>1. /\ Len(web') <= offered' /\ offered <= offered' /\ offered' <= LastSeq
        /\ offered' <= disk'.acked + Len(disk'.rows) /\ (offered' > 0 => disk'.attempted)
    <3>1. offered' \in Nat
      BY NumbersNext
    <3>2. Len(web') <= offered'
      <4>1. Len(web') = Len(web)
        BY <1>2
      <4> QED BY <1>1, <1>7, <3>1, <4>1
    <3>3. offered' <= disk'.acked + Len(disk'.rows)
      <4>1. disk'.acked + Len(disk'.rows) = LastSeq
        BY <1>1, <1>4
      <4> QED BY <1>7, <4>1
    <3> QED BY <1>4, <1>7, <3>2, <3>3
  <2>2. \A n \in 1..Len(web') : web'[n] = Recorded[n]
    BY <1>1, <1>2 DEF Placed
  <2>3. \A n \in disk'.acked + 1 .. LastSeq' : n <= LastSeq => Pending'[n - disk'.acked] = Recorded[n]
    BY <1>1, <1>4, <1>5, <1>6 DEF Placed
  <2> QED BY <1>9, <2>1, <2>2, <2>3 DEF Steady
<1> QED BY <1>2, <1>4, <1>6, <1>7, <1>10, SteadyStep, PlacesStep

\* A request that arrives shows what has its numbers.
LEMMA ShowStep ==
  ASSUME TypeInv, AnswerInv, Agrees, TypeInv', AnswerInv', Requests' \subseteq Requests,
         NEW request \in Requests, Accepted(request), offered' = offered,
         disk' = disk, unflushed' = unflushed
  PROVE  Agrees' /\ Recorded' = Recorded /\ LastSeq' = LastSeq /\ Len(web') <= offered
<1>1. /\ Placed /\ Len(web) <= offered /\ offered <= LastSeq
      /\ Len(web) \in Nat /\ offered \in Nat /\ disk.acked \in Nat /\ LastSeq \in Nat
      /\ Len(disk.rows) \in Nat /\ offered <= disk.acked + Len(disk.rows)
      /\ (offered > 0 => disk.attempted) /\ web \in Items
  BY AgreesIsTight, NumbersAre DEF Agrees, TypeInv, UploadType
<1>2. request.first \in Nat \ {0} /\ request.items \in Items /\ Len(request.items) \in Nat
  BY RequestsAre, ItemsAre DEF Request
<1>3. Accepted([first |-> request.first, items |-> request.items])
  BY DEF Accepted
<1>4. /\ Len(web) <= Len(web') /\ request.first <= Len(web) + 1
      /\ Len(web') = IF request.first + Len(request.items) - 1 > Len(web)
                       THEN request.first + Len(request.items) - 1 ELSE Len(web)
      /\ \A n \in 1..Len(web) : web'[n] = web[n]
      /\ \A n \in Len(web) + 1 .. Len(web') : web'[n] = request.items[n - request.first + 1]
  BY <1>1, <1>2, <1>3, AcceptedIs
<1>5. /\ request.first + Len(request.items) - 1 <= offered
      /\ \A i \in 1..Len(request.items) : request.items[i] = Recorded[request.first + i - 1]
  BY DEF Agrees, Carries
<1>6. Len(web') <= offered /\ Len(web') \in Nat
  BY <1>1, <1>2, <1>4, <1>5
<1>7. ASSUME NEW n \in 1..Len(web')
      PROVE  web'[n] = Recorded[n]
  <2>1. CASE n <= Len(web)
    <3>1. n \in 1..Len(web)
      BY <1>1, <1>6, <2>1
    <3> QED BY <1>1, <1>4, <3>1 DEF Placed
  <2>2. CASE n > Len(web)
    <3>1. /\ n \in Len(web) + 1 .. Len(web')
          /\ n - request.first + 1 \in 1..Len(request.items)
          /\ request.first + (n - request.first + 1) - 1 = n
      <4> DEFINE f == request.first
                 k == Len(request.items)
      <4>1. /\ f \in Nat /\ k \in Nat /\ n \in Nat /\ n <= Len(web') /\ n > Len(web)
            /\ f <= Len(web) + 1 /\ Len(web) \in Nat /\ Len(web') \in Nat
            /\ Len(web') = IF f + k - 1 > Len(web) THEN f + k - 1 ELSE Len(web)
        BY <1>1, <1>2, <1>4, <1>6, <2>2
      <4> HIDE DEF f, k
      <4>2. n \in Len(web) + 1 .. Len(web') /\ n - f + 1 \in 1..k /\ f + (n - f + 1) - 1 = n
        BY <4>1
      <4> QED BY <4>2 DEF f, k
    <3>2. web'[n] = request.items[n - request.first + 1]
      BY <1>4, <3>1
    <3>3. request.items[n - request.first + 1] = Recorded[n]
      BY <1>5, <3>1
    <3> QED BY <3>2, <3>3
  <2>3. n <= Len(web) \/ n > Len(web)
    BY <1>1, <1>6
  <2> QED BY <2>1, <2>2, <2>3
<1>8. Pending' = Pending /\ LastSeq' = LastSeq
  BY DEF Pending, LastSeq
<1>9. Steady
  <2>1. \A n \in disk'.acked + 1 .. LastSeq' : n <= LastSeq => Pending'[n - disk'.acked] = Recorded[n]
    BY <1>1, <1>8 DEF Placed
  <2>2. /\ Len(web') <= offered' /\ offered <= offered' /\ offered' <= LastSeq
        /\ offered' <= disk'.acked + Len(disk'.rows) /\ (offered' > 0 => disk'.attempted)
    BY <1>1, <1>6
  <2> QED BY <1>7, <2>1, <2>2 DEF Steady
<1> QED BY <1>6, <1>8, <1>9, SteadyStep, PlacesStep

\* An answer takes from the outbox what the web has.
LEMMA AnswerAgrees ==
  ASSUME TypeInv, AnswerInv, Agrees, TypeInv', AnswerInv', [Next]_vars, Acknowledge \/ Recover
  PROVE  /\ Agrees' /\ Recorded' = Recorded /\ LastSeq' = LastSeq
         /\ disk'.acked + Len(disk'.rows) >= disk.acked + Len(disk.rows)
         /\ unflushed' = <<>> \/ unflushed' = unflushed
<1>1. /\ Placed /\ Len(web) <= offered /\ offered <= LastSeq
      /\ Len(web) \in Nat /\ offered \in Nat /\ disk.acked \in Nat /\ LastSeq \in Nat
      /\ Len(disk.rows) \in Nat /\ offered <= disk.acked + Len(disk.rows)
      /\ (offered > 0 => disk.attempted) /\ NextSeq = LastSeq + 1
      /\ LastSeq = disk.acked + Len(disk.rows) + Len(unflushed) /\ Len(unflushed) \in Nat
  BY AgreesIsTight, NumbersAre DEF Agrees
<1>2. web' = web /\ offered' = offered
  BY DEF Acknowledge, Recover
<1>3. Requests' \subseteq Requests
  <2>1. flight' = NoFlight /\ late' = late
    BY DEF Acknowledge, Recover
  <2> QED BY <2>1, FlightsAre DEF Requests
<1>4. /\ disk'.attempted = disk.attempted /\ disk'.acked <= Len(web)
      /\ \/ /\ disk'.acked \in disk.acked .. LastSeq /\ unflushed' = <<>>
            /\ Len(disk'.rows) = LastSeq - disk'.acked
            /\ \A i \in 1..Len(disk'.rows) : disk'.rows[i] = Pending[disk'.acked - disk.acked + i]
         \/ disk' = disk /\ unflushed' = unflushed
         \/ disk'.acked >= NextSeq /\ unflushed' = <<>>
  BY AnswerStep
<1>5. CASE disk' = disk /\ unflushed' = unflushed
  <2>1. Pending' = Pending
    BY <1>5 DEF Pending
  <2>2. Agrees' /\ Recorded' = Recorded /\ LastSeq' = LastSeq
    BY <1>1, <1>2, <1>3, <1>5, <2>1, SameOutbox
  <2> QED BY <1>1, <1>5, <2>2
<1>6. CASE disk'.acked >= NextSeq
  BY <1>1, <1>4, <1>6, NumbersNext
<1>7. CASE /\ disk'.acked \in disk.acked .. LastSeq /\ unflushed' = <<>>
           /\ Len(disk'.rows) = LastSeq - disk'.acked
           /\ \A i \in 1..Len(disk'.rows) : disk'.rows[i] = Pending[disk'.acked - disk.acked + i]
  <2>1. Len(unflushed') = 0 /\ disk'.acked \in Nat
    BY <1>7, ItemsAre, NumbersNext
  <2>2. LastSeq' = LastSeq /\ disk'.acked + Len(disk'.rows) = LastSeq
    BY <1>1, <1>7, <2>1, NumbersNext
  <2>3. ASSUME NEW n \in disk'.acked + 1 .. LastSeq'
        PROVE  Pending'[n - disk'.acked] = Recorded[n]
    <3>1. /\ n - disk'.acked \in 1..Len(disk'.rows) /\ n \in disk.acked + 1 .. LastSeq
          /\ disk'.acked - disk.acked + (n - disk'.acked) = n - disk.acked
      <4> DEFINE a == disk'.acked
                 k == Len(disk'.rows)
      <4>1. /\ a \in Nat /\ disk.acked \in Nat /\ LastSeq \in Nat /\ a \in disk.acked .. LastSeq
            /\ k = LastSeq - a /\ n \in a + 1 .. LastSeq
        BY <1>1, <1>7, <2>1, <2>2
      <4> HIDE DEF a, k
      <4>2. n - a \in 1..k /\ n \in disk.acked + 1 .. LastSeq
            /\ a - disk.acked + (n - a) = n - disk.acked
        BY <4>1
      <4> QED BY <4>2 DEF a, k
    <3>2. Pending'[n - disk'.acked] = disk'.rows[n - disk'.acked]
      BY <3>1, NumbersNext
    <3>3. disk'.rows[n - disk'.acked] = Pending[n - disk.acked]
      BY <1>7, <3>1
    <3> QED BY <1>1, <3>1, <3>2, <3>3 DEF Placed
  <2>4. Steady
    <3>1. /\ Len(web') <= offered' /\ offered <= offered' /\ offered' <= LastSeq
          /\ offered' <= disk'.acked + Len(disk'.rows) /\ (offered' > 0 => disk'.attempted)
      BY <1>1, <1>2, <1>4, <2>2
    <3>2. \A n \in 1..Len(web') : web'[n] = Recorded[n]
      BY <1>1, <1>2 DEF Placed
    <3> QED BY <1>3, <2>3, <3>1, <3>2 DEF Steady
  <2> QED BY <1>1, <1>7, <2>2, <2>4, SteadyStep, PlacesStep
<1> QED BY <1>4, <1>5, <1>6, <1>7

\* A daemon that dies loses what it had not committed, at the end.
LEMMA CutStep ==
  ASSUME TypeInv, AnswerInv, Agrees, TypeInv', AnswerInv', Requests' \subseteq Requests,
         web' = web, offered' = offered, disk' = disk, unflushed' = <<>>
  PROVE  /\ Agrees' /\ LastSeq' = disk.acked + Len(disk.rows) /\ LastSeq' <= LastSeq
         /\ Recorded' = SubSeq(Recorded, 1, LastSeq')
<1>1. /\ Placed /\ Len(web) <= offered /\ offered <= LastSeq
      /\ Len(web) \in Nat /\ offered \in Nat /\ disk.acked \in Nat /\ LastSeq \in Nat
      /\ Len(disk.rows) \in Nat /\ offered <= disk.acked + Len(disk.rows)
      /\ (offered > 0 => disk.attempted)
      /\ LastSeq = disk.acked + Len(disk.rows) + Len(unflushed) /\ Len(unflushed) \in Nat
  BY AgreesIsTight, NumbersAre DEF Agrees
<1>2. Len(unflushed') = 0
  BY ItemsAre
<1>3. LastSeq' = disk.acked + Len(disk.rows) /\ LastSeq' <= LastSeq
  <2>1. LastSeq' = disk.acked + Len(disk.rows) + Len(unflushed')
    BY NumbersNext
  <2> QED BY <1>1, <1>2, <2>1
<1>4. ASSUME NEW n \in disk.acked + 1 .. LastSeq'
      PROVE  Pending'[n - disk.acked] = Recorded[n]
  <2>1. n - disk.acked \in 1..Len(disk.rows) /\ n \in disk.acked + 1 .. LastSeq
    <3> DEFINE a == disk.acked
               k == Len(disk.rows)
               u == Len(unflushed)
    <3>1. /\ a \in Nat /\ k \in Nat /\ u \in Nat /\ LastSeq = a + k + u
          /\ n \in a + 1 .. a + k
      BY <1>1, <1>3
    <3> HIDE DEF a, k, u
    <3>2. n - a \in 1..k /\ n \in a + 1 .. LastSeq
      BY <3>1
    <3> QED BY <3>2 DEF a, k
  <2>2. Pending'[n - disk.acked] = disk.rows[n - disk.acked]
    BY <2>1, NumbersNext
  <2>3. Pending[n - disk.acked] = disk.rows[n - disk.acked]
    BY <2>1, PendingIs DEF TypeInv
  <2> QED BY <1>1, <2>1, <2>2, <2>3 DEF Placed
<1>5. Steady
  BY <1>1, <1>4 DEF Steady, Placed
<1> QED BY <1>3, <1>5, SteadyStep, PlacesStep

\* The first items are the snapshot; before them nothing was sent.
LEMMA FirstStep ==
  ASSUME TypeInv, AnswerInv, Agrees, TypeInv', AnswerInv', Requests' \subseteq Requests,
         web' = web, offered' = offered, NextSeq = 1, disk'.acked = disk.acked,
         disk'.attempted = disk.attempted, NEW items \in Items, disk'.rows = items,
         unflushed' = <<>>
  PROVE  /\ Agrees' /\ Recorded' = items /\ LastSeq' = Len(items)
         /\ LastSeq = 0 /\ Recorded = <<>> /\ offered = 0
<1>1. /\ Placed /\ Len(web) <= offered /\ offered <= LastSeq
      /\ Len(web) \in Nat /\ offered \in Nat /\ disk.acked \in Nat /\ LastSeq \in Nat
      /\ NextSeq = LastSeq + 1 /\ disk.acked <= Len(web) /\ Len(items) \in Nat
  BY AgreesIsTight, NumbersAre, ItemsAre DEF Agrees
<1>2. LastSeq = 0 /\ offered = 0 /\ Len(web) = 0 /\ disk.acked = 0
  BY <1>1
<1>3. Recorded = <<>> /\ Recorded \in Items
  BY <1>1, <1>2, ItemsAre DEF Placed
<1>4. Len(unflushed') = 0
  BY ItemsAre
<1>5. LastSeq' = Len(items)
  BY <1>1, <1>2, <1>4, NumbersNext
<1>6. \A i \in 1..Len(items) : Pending'[LastSeq - disk'.acked + i] = items[i]
  <2>1. \A i \in 1..Len(items) : Pending'[i] = items[i]
    BY NumbersNext
  <2>2. \A i \in 1..Len(items) : LastSeq - disk'.acked + i = i
    BY <1>1, <1>2
  <2> QED BY <2>1, <2>2
<1>7. Steady
  <2>1. \A n \in disk'.acked + 1 .. LastSeq' : ~(n <= LastSeq)
    BY <1>1, <1>2, <1>5
  <2>2. offered' <= disk'.acked + Len(disk'.rows)
    BY <1>1, <1>2
  <2> QED BY <1>1, <1>2, <2>1, <2>2 DEF Steady
<1>8. Recorded' = Recorded \o items
  BY <1>1, <1>2, <1>5, <1>6, <1>7, PlacesStep
<1>9. Recorded' = items
  BY <1>3, <1>8, ItemsAre
<1> QED BY <1>2, <1>3, <1>5, <1>7, <1>9, SteadyStep

\* What was never attempted can be discarded.
LEMMA DiscardStep ==
  ASSUME TypeInv, AnswerInv, Agrees, TypeInv', AnswerInv', Requests' \subseteq Requests,
         web' = web, offered' = offered, Discardable, disk'.acked = disk.acked,
         disk'.rows = <<>>, unflushed' = <<>>
  PROVE  Agrees' /\ Recorded' = <<>> /\ LastSeq' = 0 /\ offered = 0
<1>1. /\ Placed /\ Len(web) <= offered /\ offered <= LastSeq
      /\ Len(web) \in Nat /\ offered \in Nat /\ disk.acked \in Nat /\ LastSeq \in Nat
      /\ (offered > 0 => disk.attempted) /\ disk.acked = 0 /\ ~disk.attempted
  BY AgreesIsTight, NumbersAre DEF Agrees, Discardable
<1>2. offered = 0 /\ Len(web) = 0
  BY <1>1
<1>3. Len(unflushed') = 0 /\ Len(disk'.rows) = 0
  BY ItemsAre
<1>4. LastSeq' = 0
  BY <1>1, <1>3, NumbersNext
<1>5. Steady
  <2>1. \A n \in disk'.acked + 1 .. LastSeq' : FALSE
    BY <1>1, <1>4
  <2> QED BY <1>1, <1>2, <1>3, <2>1 DEF Steady
<1>6. Recorded' \in Items /\ Len(Recorded') = 0
  BY <1>4, <1>5, SteadyStep
<1> QED BY <1>2, <1>4, <1>5, <1>6, SteadyStep, ItemsAre

-----------------------------------------------------------------------------
(* What the items are *)

RestInv == OrderInv /\ SecretInv /\ DueInv /\ MessagesInv /\ StateInv

\* The revision of an item is a number.
LEMMA RevIs ==
  ASSUME NEW item \in OneItem
  PROVE  item.rev \in Nat /\ item = Item(item.kind, item.rev)
BY DEF OneItem, Item

\* What was due is a message or the state of the session.
LEMMA DueIs ==
  ASSUME TypeInv, DueInv, NEW item \in due
  PROVE  /\ item \in OneItem /\ item.rev \in 1..Rev /\ item.rev \in Nat /\ Rev \in Nat
         /\ item.kind = log[item.rev] /\ item = Item(item.kind, item.rev)
         /\ item.kind = "message" \/ item.kind = "state"
<1>1. /\ item \in OneItem /\ item.rev \in 1..Rev /\ item.kind = log[item.rev] /\ Rev \in Nat
      /\ log \in Seq(Kinds) /\ Rev = Len(log)
  BY PendingIs DEF TypeInv, SessionType, HistoryType, DueInv, Rev
<1>2. log[item.rev] \in Kinds
  BY <1>1, ElementOfSeq
<1> QED BY <1>1, <1>2, RevIs DEF Kinds

\* What is lost stays lost.
LEMMA LostStays ==
  ASSUME TypeInv, [Next]_vars
  PROVE  Lost \subseteq Lost'
<1>1. SessionType /\ lost \in LostType /\ <<>> \in Items
  BY ItemsAre DEF TypeInv, HistoryType
<1>2. ASSUME NEW kind \in Kinds, Change(kind)
      PROVE  Lost \subseteq Lost'
  <2>1. CASE Overlook(kind) \/ Skip(kind)
    BY <2>1 DEF Overlook, Skip, Lost
  <2>2. CASE Hold(kind)
    BY <1>2, <2>2, HoldLost
  <2>3. CASE Record(kind)
    <3>1. <<Item(kind, Rev + 1)>> \in Items
      BY <1>1, <1>2, ChangeIs, Single
    <3> QED BY <1>1, <2>3, <3>1, StoreIs DEF Record
  <2> QED BY <1>2, <2>1, <2>2, <2>3 DEF Change
<1>3. CASE Backfill
  <2>1. CASE BackfillHistory
    <3>1. \/ lost' = lost
          \/ lost' = [lost EXCEPT !.full = @ \cup Range(Snapshot)]
      BY <2>1 DEF BackfillHistory
    <3> HIDE DEF Snapshot
    <3> QED BY <1>1, <3>1 DEF LostType, Lost
  <2>2. CASE BackfillTorn
    <3>1. PICK items, state \in Items : Store(items, state)
      BY <1>1, <2>2, TornIs
    <3> QED BY <1>1, <3>1, StoreIs
  <2> QED BY <1>3, <2>1, <2>2 DEF Backfill
<1>4. CASE Off
  <2>1. \/ lost' = lost
        \/ lost' = [lost EXCEPT !.held = @ \cup Range(early)]
    BY <1>4 DEF Off, Discard, Pause
  <2> QED BY <1>1, <2>1 DEF LostType, Lost
<1>5. CASE Login
  <2>1. CASE disk.on /\ disk.backfilled /\ ~disk.stateRecorded /\ ~stopped
    <3>1. CurrentState \in Items /\ Store(CurrentState, <<>>)
      BY <1>1, <1>5, <2>1, LoginIs
    <3> HIDE DEF CurrentState
    <3> QED BY <1>1, <3>1, StoreIs
  <2>2. CASE ~(disk.on /\ disk.backfilled /\ ~disk.stateRecorded /\ ~stopped)
    BY <1>5, <2>2 DEF Login, Lost
  <2> QED BY <2>1, <2>2
<1>6. CASE Crash
  BY <1>6, CrashLost
<1>7. CASE UNCHANGED lost
  BY <1>7 DEF Lost
<1>8. \/ \E kind \in Kinds : Change(kind)
      \/ Backfill \/ Off \/ Login \/ Crash \/ UNCHANGED lost
  BY DEF Next, vars, Flush, On, Logout, Connect, Publish, Arrive, Acknowledge, Recover, Settle,
         ArriveLate, Drop, Refuse, CrashInBackfill, Checkpoint, PowerLoss, history
<1> QED BY <1>2, <1>3, <1>4, <1>5, <1>6, <1>7, <1>8

\* The session only grows.
LEMMA LogGrows ==
  ASSUME TypeInv, [Next]_vars
  PROVE  /\ Rev \in Nat /\ Rev' \in Nat /\ Rev <= Rev'
         /\ \A r \in 1..Rev : r \in 1..Rev' /\ log'[r] = log[r]
<1>1. Rev \in Nat
  BY PendingIs DEF TypeInv
<1>2. ASSUME NEW kind \in Kinds, Change(kind)
      PROVE  Rev' = Rev + 1 /\ \A r \in 1..Rev : log'[r] = log[r]
  BY <1>2, ChangeIs DEF TypeInv
<1>3. log' = log \/ \E kind \in Kinds : Change(kind)
  BY DEF Next, vars, Flush, Backfill, On, Off, Login, Logout, Connect, Publish, Arrive,
         Acknowledge, Recover, Settle, ArriveLate, Drop, Refuse, Crash, CrashInBackfill,
         Checkpoint, PowerLoss, Restart
<1>4. log' = log => Rev' = Rev
  BY DEF Rev
<1>5. Rev' = Rev \/ Rev' = Rev + 1
  BY <1>2, <1>3, <1>4
<1>6. \A r \in 1..Rev : log'[r] = log[r]
  BY <1>2, <1>3
<1>7. Rev' \in Nat /\ Rev <= Rev' /\ \A r \in 1..Rev : r \in 1..Rev'
  BY <1>1, <1>5
<1> QED BY <1>1, <1>6, <1>7

\* What is accounted for stays so, until power is lost.
LEMMA SpentStays ==
  ASSUME TypeInv, AnswerInv, [Next]_vars, ~PowerLoss
  PROVE  Spent \subseteq Spent'
<1>1. Lost \subseteq Lost' /\ (disk.skipped => disk'.skipped)
  BY LostStays, SkippedStays
<1>2. \A r \in 1..Rev : r \in 1..Rev' /\ log'[r] = log[r]
  BY LogGrows
<1> QED BY <1>1, <1>2 DEF Spent

\* A change that cannot be encoded is accounted for once the record says so.
LEMMA UnfitIs ==
  ASSUME disk'.skipped, NEW item \in OneItem, item.rev \in 1..Rev', item.rev \in Unfit,
         item.kind = log'[item.rev]
  PROVE  item \in Spent'
BY DEF Spent

\* So is every state, once the current one could not be encoded.
LEMMA StateSpent ==
  ASSUME TypeInv, DueInv, ~StateFits, log' = log, disk'.skipped,
         NEW item \in due, item.kind = "state"
  PROVE  Excused(item.rev)'
<1>1. /\ item.rev \in 1..Rev /\ log[item.rev] = "state" /\ Rev \in Nat /\ Rev' = Rev
      /\ DOMAIN log = 1..Rev
  <2>1. item.rev \in 1..Rev /\ log[item.rev] = "state" /\ Rev \in Nat
    BY DueIs
  <2>2. DOMAIN log = 1..Rev
    BY LenProperties DEF TypeInv, SessionType, Rev
  <2> QED BY <2>1, <2>2 DEF Rev
<1>2. PICK r \in DOMAIN log \cap Unfit :
        log[r] = "state" /\ ~(\E q \in r + 1 .. Rev : log[q] = "state")
  BY DEF StateFits
<1>3. r \in 1..Rev /\ r \in Unfit
  BY <1>1, <1>2
<1>4. ~(item.rev \in r + 1 .. Rev)
  BY <1>1, <1>2
<1>5. r >= item.rev /\ r \in Nat
  BY <1>1, <1>3, <1>4
<1>6. /\ Item("state", r) \in OneItem
      /\ Item("state", r).kind = "state" /\ Item("state", r).rev = r
  BY <1>5, ItemIs DEF Kinds
<1>7. Item("state", r) \in Spent'
  BY <1>1, <1>2, <1>3, <1>6, UnfitIs
<1> QED BY <1>5, <1>6, <1>7 DEF Excused

\* What is stored at the end has the order of what is there.
LEMMA AscendJoined ==
  ASSUME NEW s \in Items, NEW t \in Items, Ascend(s), Ascend(t),
         \A x \in Range(s), y \in Range(t) :
           (x.kind = "message" /\ y.kind = "message") => x.rev < y.rev
  PROVE  Ascend(s \o t)
<1> DEFINE u == s \o t
<1>1. /\ Len(s) \in Nat /\ Len(t) \in Nat /\ Len(u) = Len(s) + Len(t)
      /\ \A i \in 1..Len(s) : u[i] = s[i]
      /\ \A i \in Len(s) + 1 .. Len(s) + Len(t) : u[i] = t[i - Len(s)]
  BY Joined, ItemsAre
<1>2. /\ \A i \in 1..Len(s) : s[i] \in Range(s)
      /\ \A i \in 1..Len(t) : t[i] \in Range(t)
  BY RangeIs
<1> HIDE DEF u
<1>3. ASSUME NEW i \in 1..Len(u), NEW j \in 1..Len(u), i < j,
             u[i].kind = "message", u[j].kind = "message"
      PROVE  u[i].rev < u[j].rev
  <2>1. CASE j <= Len(s)
    <3>1. i \in 1..Len(s) /\ j \in 1..Len(s)
      BY <1>1, <1>3, <2>1
    <3>2. u[i] = s[i] /\ u[j] = s[j]
      BY <1>1, <3>1
    <3> QED BY <1>3, <3>1, <3>2 DEF Ascend
  <2>2. CASE i <= Len(s) /\ j > Len(s)
    <3>1. i \in 1..Len(s) /\ j \in Len(s) + 1 .. Len(s) + Len(t) /\ j - Len(s) \in 1..Len(t)
      BY <1>1, <2>2
    <3>2. u[i] = s[i] /\ u[j] = t[j - Len(s)]
      BY <1>1, <3>1
    <3>3. s[i] \in Range(s) /\ t[j - Len(s)] \in Range(t)
      BY <1>2, <3>1
    <3> QED BY <1>3, <3>2, <3>3
  <2>3. CASE i > Len(s)
    <3>1. /\ i \in Len(s) + 1 .. Len(s) + Len(t) /\ j \in Len(s) + 1 .. Len(s) + Len(t)
          /\ i - Len(s) \in 1..Len(t) /\ j - Len(s) \in 1..Len(t) /\ i - Len(s) < j - Len(s)
      BY <1>1, <1>3, <2>3
    <3>2. u[i] = t[i - Len(s)] /\ u[j] = t[j - Len(s)]
      BY <1>1, <3>1
    <3> QED BY <1>3, <3>1, <3>2 DEF Ascend
  <2> QED BY <1>1, <2>1, <2>2, <2>3
<1> QED BY <1>3 DEF Ascend, u

\* A single item, and none, are in order.
LEMMA AscendOne ==
  ASSUME NEW item \in OneItem
  PROVE  Ascend(<<item>>) /\ Ascend(<<>>)
<1>1. Len(<<item>>) = 1 /\ Len(<<>>) = 0
  BY Single, ItemsAre
<1>2. \A i, j \in 1..1 : ~(i < j)
  OBVIOUS
<1>3. \A i \in 1..0 : FALSE
  OBVIOUS
<1> QED BY <1>1, <1>2, <1>3 DEF Ascend

\* The items in the order of their revisions have the order of the messages.
LEMMA AscendEarly ==
  ASSUME OrderInv
  PROVE  Ascend(early)
BY DEF OrderInv, Ascend

\* The first of the items keep their order.
LEMMA PrefixIs ==
  ASSUME NEW s \in Items, NEW n \in 0..Len(s)
  PROVE  /\ Range(SubSeq(s, 1, n)) \subseteq Range(s)
         /\ \A i \in 1..n : s[i] \in Range(SubSeq(s, 1, n))
         /\ Ascend(s) => Ascend(SubSeq(s, 1, n))
<1> DEFINE p == SubSeq(s, 1, n)
<1>1. n \in Nat /\ Len(s) \in Nat
  BY ItemsAre
<1>2. /\ p \in Items /\ Len(p) = IF 1 <= n THEN n - 1 + 1 ELSE 0
      /\ \A i \in 1..Len(p) : p[i] = s[1 + i - 1]
  <2>1. 1 \in Nat \ {0}
    OBVIOUS
  <2> QED BY <2>1, Part
<1>3. Len(p) = n
  <2> HIDE DEF p
  <2> QED BY <1>1, <1>2
<1>4. \A i \in 1..n : p[i] = s[i]
  <2>1. \A i \in 1..n : 1 + i - 1 = i
    BY <1>1
  <2> QED BY <1>2, <1>3, <2>1
<1> HIDE DEF p
<1>5. 1..n \subseteq 1..Len(s)
  BY <1>1
<1>6. Range(p) \subseteq Range(s) /\ \A i \in 1..n : s[i] \in Range(p)
  BY <1>2, <1>3, <1>4, <1>5, RangeIs
<1>7. Ascend(s) => Ascend(p)
  BY <1>3, <1>4, <1>5 DEF Ascend
<1> QED BY <1>6, <1>7 DEF p

\* The steps that leave the items and their histories alone.
LEMMA RestSame ==
  ASSUME RestInv, Recorded' = Recorded, LastSeq' = LastSeq,
         UNCHANGED <<log, early, due, secret>>, Spent \subseteq Spent',
         disk'.backfilled = disk.backfilled, disk'.stateRecorded = disk.stateRecorded
  PROVE  RestInv'
<1>1. Rev' = Rev /\ NextSeq' = NextSeq
  BY DEF Rev, NextSeq
<1>2. OrderInv'
  BY <1>1 DEF RestInv, OrderInv, Ascend
<1>3. SecretInv' /\ DueInv'
  BY <1>1 DEF RestInv, SecretInv, DueInv
<1>4. MessagesInv'
  BY <1>1 DEF RestInv, MessagesInv
<1>5. StateInv'
  BY <1>1 DEF RestInv, StateInv, Excused, StateSince
<1> QED BY <1>2, <1>3, <1>4, <1>5 DEF RestInv

\* What is held is dropped, and accounted for if there are entries.
LEMMA RestDropped ==
  ASSUME TypeInv, RestInv, Recorded' = Recorded, LastSeq' = LastSeq,
         UNCHANGED <<log, due, secret>>, early' = <<>>,
         Spent \subseteq Spent', NextSeq > 1 => Range(early) \subseteq Spent',
         disk'.backfilled = disk.backfilled, disk'.stateRecorded = disk.stateRecorded
  PROVE  RestInv'
<1>1. Rev' = Rev /\ NextSeq' = NextSeq
  BY DEF Rev, NextSeq
<1>2. Range(early') = {} /\ Len(early') = 0
  BY RangeNone, ItemsAre
<1>3. \A item \in due : item.rev \in Nat
  BY DueIs DEF RestInv
<1>4. OrderInv'
  <2>1. \A i \in 1..Len(early') : FALSE
    BY <1>2
  <2> QED BY <1>1, <1>2, <2>1 DEF RestInv, OrderInv, Ascend
<1>5. SecretInv' /\ DueInv'
  BY <1>1, <1>2 DEF RestInv, SecretInv, DueInv
<1>6. MessagesInv'
  <2> SUFFICES ASSUME NextSeq > 1, NEW item \in due
               PROVE  \/ item.kind = "state" \/ item \in Spent' \/ item \in Range(Recorded)
    BY <1>1, <1>2 DEF MessagesInv
  <2> QED BY DEF RestInv, MessagesInv
<1>7. StateInv'
  <2> SUFFICES ASSUME NextSeq > 1, disk.backfilled => disk.stateRecorded, NEW item \in due
               PROVE  \/ item.kind = "message" \/ Excused(item.rev)'
                      \/ StateSince(item.rev, Recorded)
    BY <1>1, <1>2 DEF StateInv, Excused, StateSince
  <2>1. \/ item.kind = "message" \/ Excused(item.rev)
        \/ StateSince(item.rev, Recorded) \/ item \in Range(early)
    BY DEF RestInv, StateInv
  <2>2. CASE item \in Range(early) /\ item.kind # "message"
    <3>1. item \in Spent' /\ item.kind = "state" /\ item.rev >= item.rev
      BY <1>3, <2>2, DueIs DEF RestInv
    <3> QED BY <3>1 DEF Excused
  <2>3. Excused(item.rev) => Excused(item.rev)'
    BY DEF Excused
  <2> QED BY <2>1, <2>2, <2>3
<1> QED BY <1>4, <1>5, <1>6, <1>7 DEF RestInv

\* What is put at the end is newer, when nothing is held.
LEMMA OrderAppends ==
  ASSUME TypeInv, OrderInv, Recorded \in Items, NEW items \in Items, Recorded' = Recorded \o items,
         Rev' \in Nat, Rev <= Rev', early' = <<>>, Ascend(items),
         \A y \in Range(items) : y.rev <= Rev',
         \A x \in Range(Recorded), y \in Range(items) : y.kind = "message" => x.rev < y.rev
  PROVE  OrderInv'
<1>1. Rev \in Nat /\ Range(Recorded') = Range(Recorded) \cup Range(items)
  BY RangeJoined, PendingIs DEF TypeInv
<1>2. Range(early') = {} /\ Len(early') = 0
  BY RangeNone, ItemsAre
<1>3. Ascend(Recorded \o items)
  BY AscendJoined DEF OrderInv
<1>4. ASSUME NEW x \in Range(Recorded)
      PROVE  x.rev <= Rev'
  <2>1. x.rev \in Nat /\ x.rev <= Rev
    BY <1>4, RangeIs, RevIs DEF OrderInv
  <2> QED BY <1>1, <2>1
<1>5. \A i \in 1..Len(early') : FALSE
  BY <1>2
<1>6. Ascend(Recorded)'
  BY <1>3 DEF Ascend
<1> QED BY <1>1, <1>2, <1>4, <1>5, <1>6 DEF OrderInv

\* What is put at the end is no secret.
LEMMA SecretAppends ==
  ASSUME TypeInv, SecretInv, Recorded \in Items, NEW items \in Items, Recorded' = Recorded \o items,
         Rev' \in Nat, Rev <= Rev', early' = <<>>, secret' = secret, secret # {} => NextSeq' > 1,
         \A y \in Range(items) : y.kind = "message" => y.rev \notin secret
  PROVE  SecretInv'
<1>1. /\ Rev \in Nat /\ secret \subseteq Nat
      /\ Range(Recorded') = Range(Recorded) \cup Range(items)
  BY RangeJoined, PendingIs DEF TypeInv, HistoryType
<1>2. Range(early') = {}
  BY RangeNone
<1>3. \A r \in secret : r <= Rev'
  BY <1>1 DEF SecretInv
<1> QED BY <1>1, <1>2, <1>3 DEF SecretInv

\* What is due belongs to the history.
LEMMA DueStep ==
  ASSUME TypeInv, DueInv, NEW kind \in Kinds, Change(kind),
         due' \subseteq due \cup {Item(kind, Rev + 1)}
  PROVE  DueInv'
<1>1. /\ Rev' = Rev + 1 /\ Rev \in Nat /\ log'[Rev + 1] = kind
      /\ \A r \in 1..Rev : log'[r] = log[r]
      /\ Item(kind, Rev + 1).kind = kind /\ Item(kind, Rev + 1).rev = Rev + 1
  BY ChangeIs DEF TypeInv
<1>2. ASSUME NEW item \in due
      PROVE  item.rev \in 1..Rev' /\ item.kind = log'[item.rev]
  <2>1. item.rev \in 1..Rev /\ item.kind = log[item.rev]
    BY <1>2 DEF DueInv
  <2> QED BY <1>1, <2>1
<1>3. Rev + 1 \in 1..Rev'
  BY <1>1
<1> QED BY <1>1, <1>2, <1>3 DEF DueInv

\* A change that is not to be recorded.
LEMMA OverlookRest ==
  ASSUME TypeInv, RestInv, NEW kind \in Kinds, Change(kind), Overlook(kind),
         Recorded \in Items, Recorded' = Recorded, LastSeq' = LastSeq, Spent \subseteq Spent'
  PROVE  RestInv'
<1> DEFINE item == Item(kind, Rev + 1)
<1>1. /\ Rev' = Rev + 1 /\ Rev \in Nat /\ item.kind = kind /\ item.rev = Rev + 1
      /\ \A x \in Range(Recorded) : x \in OneItem /\ x.rev \in Nat
  BY ChangeIs, RangeIs, RevIs DEF TypeInv
<1>2. /\ early' = early /\ ~Recording
      /\ secret' = (IF kind = "message" /\ NextSeq > 1 THEN secret \cup {Rev + 1} ELSE secret)
      /\ due' = (IF kind = "state" /\ disk.on /\ disk.backfilled THEN due \cup {item} ELSE due)
  BY DEF Overlook
<1>3. disk' = [disk EXCEPT !.stateRecorded = @ /\ ~Missing(kind)] /\ disk \in DiskType
  BY DEF Overlook, TypeInv, SessionType
<1>4. /\ disk'.backfilled = disk.backfilled
      /\ disk'.stateRecorded => disk.stateRecorded /\ ~Missing(kind)
  BY <1>3 DEF DiskType
<1>5. NextSeq' = NextSeq
  BY DEF NextSeq
<1>6. \A x \in Range(early) : x.rev \in 1..Rev
  <2>1. early \in Items /\ \A i \in 1..Len(early) : early[i].rev \in 1..Rev
    BY DEF TypeInv, SessionType
  <2> QED BY <2>1, RangeIs
<1> HIDE DEF item
<1>7. OrderInv'
  <2>1. \A x \in Range(Recorded) : x.rev <= Rev'
    BY <1>1 DEF RestInv, OrderInv
  <2> QED BY <1>2, <2>1 DEF RestInv, OrderInv, Ascend
<1>8. SecretInv'
  <2>1. \A r \in secret : r <= Rev'
    BY <1>1 DEF RestInv, SecretInv, TypeInv, HistoryType
  <2>2. \A x \in Range(Recorded) : x.rev # Rev + 1
    BY <1>1 DEF RestInv, OrderInv
  <2>3. \A x \in Range(early) : x.rev # Rev + 1
    BY <1>1, <1>6
  <2> QED BY <1>1, <1>2, <1>5, <2>1, <2>2, <2>3 DEF RestInv, SecretInv
<1>9. DueInv'
  <2>1. due' \subseteq due \cup {item}
    BY <1>2
  <2> QED BY <2>1, DueStep DEF RestInv, item
<1>10. MessagesInv'
  <2>1. \A x \in due' : x \in due \/ x.kind = "state"
    BY <1>1, <1>2
  <2> QED BY <1>2, <1>5, <2>1 DEF RestInv, MessagesInv
<1>11. StateInv'
  <2>1. CASE due' = due
    BY <1>2, <1>4, <1>5, <2>1 DEF RestInv, StateInv, Excused, StateSince
  <2>2. CASE due' # due
    <3>1. kind = "state" /\ disk.on /\ disk.backfilled
      BY <1>2, <2>2
    <3>2. ~configured \/ stopped
      BY <1>2, <3>1 DEF Recording
    <3>3. Missing(kind)
      BY <3>1, <3>2 DEF Missing
    <3>4. disk'.backfilled /\ ~disk'.stateRecorded
      BY <1>4, <3>1, <3>3
    <3> QED BY <3>4 DEF StateInv
  <2> QED BY <2>1, <2>2
<1> QED BY <1>7, <1>8, <1>9, <1>10, <1>11 DEF RestInv

\* A change that is held for the backfill.
LEMMA HoldRest ==
  ASSUME TypeInv, RestInv, NEW kind \in Kinds, Change(kind), Hold(kind),
         Recorded \in Items, Recorded' = Recorded, LastSeq' = LastSeq, Spent \subseteq Spent'
  PROVE  RestInv'
<1> DEFINE item == Item(kind, Rev + 1)
<1>1. /\ Rev' = Rev + 1 /\ Rev \in Nat /\ item.kind = kind /\ item.rev = Rev + 1
      /\ \A x \in Range(Recorded) : x \in OneItem /\ x.rev \in Nat
      /\ item \in OneItem
  BY ChangeIs, RangeIs, RevIs DEF TypeInv
<1>2. /\ disk' = disk /\ secret' = secret /\ due' = due \cup {item}
  BY DEF Hold
<1>3. NextSeq' = NextSeq /\ NextSeq \in Nat
  BY PendingIs DEF NextSeq, TypeInv
<1>4. /\ early \in Items /\ Len(early) \in Nat
      /\ \A i \in 1..Len(early) : early[i].rev \in 1..Rev
      /\ \A x \in Range(early) : x.rev \in 1..Rev
      /\ \A i \in 1..Len(early) : early[i] \in Range(early)
  <2>1. early \in Items /\ \A i \in 1..Len(early) : early[i].rev \in 1..Rev
    BY DEF TypeInv, SessionType
  <2> QED BY <2>1, RangeIs, ItemsAre
<1>5. /\ early' \in Items /\ Len(early') \in Nat
      /\ \/ /\ Len(early') = Len(early) + 1 /\ early'[Len(early) + 1] = item
            /\ \A i \in 1..Len(early) : early'[i] = early[i]
         \/ Len(early') = 1 /\ early'[1] = item
         \/ early' = <<>> /\ Len(early') = 0
  BY HoldIs, ItemsAre DEF TypeInv
<1>6. Range(early') = {early'[i] : i \in 1..Len(early')}
  BY <1>5, RangeIs
<1>7. /\ \A x \in Range(early') : x = item \/ x \in Range(early)
      /\ \A i, j \in 1..Len(early') : i < j => early'[i].rev < early'[j].rev
  <2> HIDE DEF item
  <2>1. CASE /\ Len(early') = Len(early) + 1 /\ early'[Len(early) + 1] = item
             /\ \A i \in 1..Len(early) : early'[i] = early[i]
    <3>1. \A i \in 1..Len(early') : i \in 1..Len(early) \/ i = Len(early) + 1
      BY <1>4, <2>1
    <3>2. \A x \in Range(early') : x = item \/ x \in Range(early)
      BY <1>4, <1>6, <2>1, <3>1
    <3>3. ASSUME NEW i \in 1..Len(early'), NEW j \in 1..Len(early'), i < j
          PROVE  early'[i].rev < early'[j].rev
      <4>1. i \in 1..Len(early) /\ early'[i] = early[i] /\ early[i].rev \in 1..Rev
        BY <1>4, <2>1, <3>1, <3>3
      <4>2. CASE j \in 1..Len(early)
        BY <2>1, <3>3, <4>1, <4>2 DEF RestInv, OrderInv
      <4>3. CASE j = Len(early) + 1
        <5>1. early'[j].rev = Rev + 1
          BY <1>1, <2>1, <4>3
        <5> QED BY <1>1, <4>1, <5>1
      <4> QED BY <3>1, <4>2, <4>3
    <3> QED BY <3>2, <3>3
  <2>2. CASE Len(early') = 1 /\ early'[1] = item
    <3>1. Range(early') = {item}
      BY <1>6, <2>2
    <3>2. \A i, j \in 1..Len(early') : ~(i < j)
      BY <2>2
    <3> QED BY <3>1, <3>2
  <2>3. CASE early' = <<>> /\ Len(early') = 0
    <3>1. \A i \in 1..Len(early') : FALSE
      BY <2>3
    <3> QED BY <2>3, <3>1, RangeNone
  <2> QED BY <1>5, <2>1, <2>2, <2>3
<1>8. NextSeq > 1 => \A x \in Range(early) \cup {item} : x \in Range(early') \/ x \in Spent'
  BY HoldLost DEF Spent
<1> HIDE DEF item
<1>9. OrderInv'
  <2>1. \A x \in Range(Recorded) : x.rev <= Rev' /\ x.rev < item.rev
    BY <1>1 DEF RestInv, OrderInv
  <2>2. \A x \in Range(Recorded) : \A held \in Range(early') : x.rev < held.rev
    BY <1>7, <2>1 DEF RestInv, OrderInv
  <2> QED BY <1>7, <2>1, <2>2 DEF RestInv, OrderInv, Ascend
<1>10. SecretInv'
  <2>1. \A r \in secret : r <= Rev' /\ r # item.rev
    BY <1>1 DEF RestInv, SecretInv, TypeInv, HistoryType
  <2> QED BY <1>2, <1>3, <1>7, <2>1 DEF RestInv, SecretInv
<1>11. DueInv'
  BY <1>2, DueStep DEF RestInv, item
<1>12. MessagesInv'
  <2> SUFFICES ASSUME NextSeq > 1, NEW x \in due \cup {item}
               PROVE  \/ x.kind = "state" \/ x \in Spent'
                      \/ x \in Range(Recorded) \cup Range(early')
    BY <1>2, <1>3 DEF MessagesInv
  <2>1. CASE x = item
    BY <1>8, <2>1
  <2>2. CASE x \in due
    <3>1. \/ x.kind = "state" \/ x \in Spent \/ x \in Range(Recorded) \cup Range(early)
      BY <2>2 DEF RestInv, MessagesInv
    <3> QED BY <1>8, <3>1
  <2> QED BY <2>1, <2>2
<1>13. StateInv'
  <2> SUFFICES ASSUME NextSeq > 1, disk.backfilled => disk.stateRecorded, NEW x \in due \cup {item}
               PROVE  \/ x.kind = "message" \/ Excused(x.rev)'
                      \/ StateSince(x.rev, Recorded) \/ x \in Range(early')
    BY <1>2, <1>3 DEF StateInv, Excused, StateSince
  <2>1. x.rev \in Nat /\ (x.kind = "message" \/ x.kind = "state")
    <3>1. CASE x = item
      BY <1>1, <3>1 DEF Kinds
    <3>2. CASE x \in due
      BY <3>2, DueIs DEF RestInv
    <3> QED BY <3>1, <3>2
  <2>2. ASSUME x \in Spent', x.kind = "state"
        PROVE  Excused(x.rev)'
    <3>1. x.rev >= x.rev
      BY <2>1
    <3> QED BY <2>2, <3>1 DEF Excused
  <2>3. CASE x \in Range(early) \cup {item}
    BY <1>8, <2>1, <2>2, <2>3
  <2>4. CASE x \in due /\ x \notin Range(early)
    <3>1. x.kind = "message" \/ Excused(x.rev) \/ StateSince(x.rev, Recorded)
      BY <2>4 DEF RestInv, StateInv
    <3>2. Excused(x.rev) => Excused(x.rev)'
      BY DEF Excused
    <3> QED BY <3>1, <3>2
  <2> QED BY <2>3, <2>4
<1> QED BY <1>9, <1>10, <1>11, <1>12, <1>13 DEF RestInv

\* What append made of the outbox, in terms of the places.
Stored(items, more) ==
  \/ Recorded' = Recorded \o (items \o more) /\ stopped' = stopped
  \/ Recorded' = Recorded \o items /\ stopped' = TRUE
  \/ Recorded' = Recorded /\ stopped' = TRUE /\ Range(items \o more) \subseteq Spent'

\* A change that is recorded: it is the newest, or accounted for.
LEMMA RecordRest ==
  ASSUME TypeInv, AnswerInv, BackfillInv, RestInv, NEW kind \in Kinds, Change(kind), Record(kind),
         Recorded \in Items, Stored(<<Item(kind, Rev + 1)>>, <<>>),
         NextSeq > 1 => NextSeq' > 1, Spent \subseteq Spent'
  PROVE  RestInv'
<1> DEFINE item == Item(kind, Rev + 1)
<1>1. /\ Rev' = Rev + 1 /\ Rev \in Nat /\ item.kind = kind /\ item.rev = Rev + 1
      /\ \A x \in Range(Recorded) : x \in OneItem /\ x.rev \in Nat
      /\ item \in OneItem
  BY ChangeIs, RangeIs, RevIs DEF TypeInv
<1>2. /\ disk' = disk /\ secret' = secret /\ due' = due \cup {item} /\ early' = early
      /\ disk.backfilled
  BY DEF Record
<1>3. early = <<>> /\ early' = <<>> /\ Range(early) = {}
  BY <1>2, RangeNone DEF TypeInv, SessionType
<1>4. NextSeq > 1 /\ NextSeq' > 1
  <2>1. /\ disk.acked \in Nat /\ Len(disk.rows) \in Nat /\ Len(unflushed) \in Nat
        /\ LastSeq = disk.acked + Len(disk.rows) + Len(unflushed) /\ NextSeq = LastSeq + 1
    BY NumbersAre
  <2>2. disk.acked + Len(disk.rows) > 0
    BY <1>2 DEF BackfillInv
  <2>3. NextSeq > 1
    BY <2>1, <2>2
  <2> QED BY <2>3
<1>5. /\ <<item>> \in Items /\ Range(<<item>>) = {item} /\ Ascend(<<item>>)
      /\ <<item>> \o <<>> = <<item>> /\ Range(<<>>) = {} /\ Ascend(<<>>) /\ <<>> \in Items
      /\ Recorded \o <<>> = Recorded
  BY <1>1, Single, AscendOne, ItemsAre, RangeNone
<1>6. \A x \in due : x.kind = "message" \/ x.kind = "state"
  BY DueIs DEF RestInv
<1> HIDE DEF item
<1>7. PICK items \in {<<item>>, <<>>} :
        /\ Recorded' = Recorded \o items
        /\ item \in Range(items) \/ item \in Spent'
  <2>1. \/ Recorded' = Recorded \o <<item>>
        \/ Recorded' = Recorded /\ Range(<<item>>) \subseteq Spent'
    BY <1>5 DEF Stored, item
  <2> QED BY <1>5, <2>1
<1>8. /\ items \in Items /\ Ascend(items) /\ \A y \in Range(items) : y = item
      /\ Range(Recorded') = Range(Recorded) \cup Range(items)
  BY <1>5, <1>7, RangeJoined
<1>9. OrderInv'
  <2>1. \A y \in Range(items) : y.rev <= Rev'
    BY <1>1, <1>8
  <2>2. \A x \in Range(Recorded), y \in Range(items) : x.rev < y.rev
    BY <1>1, <1>8 DEF RestInv, OrderInv
  <2>3. Rev' \in Nat /\ Rev <= Rev'
    BY <1>1
  <2> QED BY <1>3, <1>7, <1>8, <2>1, <2>2, <2>3, OrderAppends DEF RestInv
<1>10. SecretInv'
  <2>1. \A y \in Range(items) : y.rev \notin secret
    BY <1>1, <1>8 DEF RestInv, SecretInv, TypeInv, HistoryType
  <2>2. Rev' \in Nat /\ Rev <= Rev'
    BY <1>1
  <2> QED BY <1>2, <1>3, <1>4, <1>7, <1>8, <2>1, <2>2, SecretAppends DEF RestInv
<1>11. DueInv'
  BY <1>2, DueStep DEF RestInv, item
<1>12. MessagesInv'
  <2> SUFFICES ASSUME NEW x \in due \cup {item}
               PROVE  x.kind = "state" \/ x \in Spent' \/ x \in Range(Recorded')
    BY <1>2 DEF MessagesInv
  <2>1. CASE x = item
    BY <1>7, <1>8, <2>1
  <2>2. CASE x \in due
    BY <1>3, <1>4, <1>8, <2>2 DEF RestInv, MessagesInv
  <2> QED BY <2>1, <2>2
<1>13. StateInv'
  <2> SUFFICES ASSUME disk.stateRecorded, NEW x \in due \cup {item}
               PROVE  \/ x.kind = "message" \/ Excused(x.rev)'
                      \/ \E y \in Range(Recorded') : y.kind = "state" /\ y.rev >= x.rev
    BY <1>2 DEF StateInv, Excused, StateSince
  <2>1. CASE x = item
    <3>1. x.rev >= x.rev /\ (x.kind = "message" \/ x.kind = "state")
      BY <1>1, <2>1 DEF Kinds
    <3> QED BY <1>7, <1>8, <2>1, <3>1 DEF Excused
  <2>2. CASE x \in due
    <3>1. \/ x.kind = "message" \/ Excused(x.rev) \/ StateSince(x.rev, Recorded)
      BY <1>3, <1>4, <2>2 DEF RestInv, StateInv
    <3>2. Excused(x.rev) => Excused(x.rev)'
      BY DEF Excused
    <3> QED BY <1>8, <3>1, <3>2 DEF StateSince
  <2> QED BY <2>1, <2>2
<1> QED BY <1>9, <1>10, <1>11, <1>12, <1>13 DEF RestInv

\* A change that cannot be encoded is accounted for.
LEMMA SkipRest ==
  ASSUME TypeInv, RestInv, NEW kind \in Kinds, Change(kind), Skip(kind), disk'.skipped,
         disk'.backfilled = disk.backfilled, disk'.stateRecorded = disk.stateRecorded,
         Recorded \in Items, Recorded' = Recorded, LastSeq' = LastSeq, Spent \subseteq Spent'
  PROVE  RestInv'
<1> DEFINE item == Item(kind, Rev + 1)
<1>1. /\ Rev' = Rev + 1 /\ Rev \in Nat /\ item.kind = kind /\ item.rev = Rev + 1
      /\ \A x \in Range(Recorded) : x \in OneItem /\ x.rev \in Nat
      /\ item \in OneItem /\ log'[Rev + 1] = kind
  BY ChangeIs, RangeIs, RevIs DEF TypeInv
<1>2. /\ secret' = secret /\ due' = due \cup {item} /\ early' = early /\ Rev + 1 \in Unfit
      /\ NextSeq' = NextSeq
  BY DEF Skip, NextSeq
<1>3. item \in Spent'
  <2>1. Rev + 1 \in 1..Rev'
    BY <1>1
  <2> HIDE DEF item
  <2> QED BY <1>1, <1>2, <2>1, UnfitIs
<1> HIDE DEF item
<1>4. OrderInv'
  <2>1. \A x \in Range(Recorded) : x.rev <= Rev'
    BY <1>1 DEF RestInv, OrderInv
  <2> QED BY <1>2, <2>1 DEF RestInv, OrderInv, Ascend
<1>5. SecretInv'
  <2>1. \A r \in secret : r <= Rev'
    BY <1>1 DEF RestInv, SecretInv, TypeInv, HistoryType
  <2> QED BY <1>2, <2>1 DEF RestInv, SecretInv
<1>6. DueInv'
  BY <1>2, DueStep DEF RestInv, item
<1>7. MessagesInv'
  BY <1>2, <1>3 DEF RestInv, MessagesInv
<1>8. StateInv'
  <2> SUFFICES ASSUME NextSeq > 1, disk.backfilled => disk.stateRecorded, NEW x \in due \cup {item}
               PROVE  \/ x.kind = "message" \/ Excused(x.rev)'
                      \/ StateSince(x.rev, Recorded) \/ x \in Range(early)
    BY <1>2 DEF StateInv, Excused, StateSince
  <2>1. CASE x = item
    <3>1. x.rev >= x.rev /\ (x.kind = "message" \/ x.kind = "state")
      BY <1>1, <2>1 DEF Kinds
    <3> QED BY <1>3, <2>1, <3>1 DEF Excused
  <2>2. CASE x \in due
    <3>1. Excused(x.rev) => Excused(x.rev)'
      BY DEF Excused
    <3> QED BY <2>2, <3>1 DEF RestInv, StateInv
  <2> QED BY <2>1, <2>2
<1> QED BY <1>4, <1>5, <1>6, <1>7, <1>8 DEF RestInv

\* The state of the session, put at the end, or none.
LEMMA StateIs ==
  ASSUME TypeInv, NEW items \in Items, items = CurrentState \/ items = <<>>
  PROVE  /\ Ascend(items) /\ Rev \in Nat
         /\ \A y \in Range(items) : y.kind = "state" /\ y.rev = Rev
         /\ (items = CurrentState /\ StateFits) => Item("state", Rev) \in Range(items)
<1>1. Rev \in Nat
  BY PendingIs DEF TypeInv
<1>2. /\ Item("state", Rev) \in OneItem
      /\ Item("state", Rev).kind = "state" /\ Item("state", Rev).rev = Rev
  BY <1>1, ItemIs DEF Kinds
<1>3. Ascend(<<Item("state", Rev)>>) /\ Ascend(<<>>)
  BY <1>2, AscendOne
<1>4. Range(<<Item("state", Rev)>>) = {Item("state", Rev)} /\ Range(<<>>) = {}
  BY <1>2, Single, RangeNone
<1>5. items = <<Item("state", Rev)>> \/ (items = <<>> /\ ~(items = CurrentState /\ StateFits))
  <2>1. StateFits => CurrentState = <<Item("state", Rev)>>
    BY DEF CurrentState
  <2>2. ~StateFits => CurrentState = <<>>
    BY DEF CurrentState
  <2>3. <<Item("state", Rev)>> # <<>>
    BY <1>2, Single, ItemsAre
  <2> QED BY <2>1, <2>2, <2>3
<1> QED BY <1>1, <1>2, <1>3, <1>4, <1>5

\* A login records the current state, or leaves it unrecorded.
LEMMA LoginRest ==
  ASSUME TypeInv, AnswerInv, BackfillInv, RestInv, Recorded \in Items,
         UNCHANGED <<log, early, due, secret>>, early = <<>>, disk.backfilled, ~stopped,
         disk'.backfilled, disk'.stateRecorded = ~stopped', ~StateFits => disk'.skipped,
         CurrentState \in Items, Stored(CurrentState, <<>>), NextSeq > 1 => NextSeq' > 1,
         Spent \subseteq Spent'
  PROVE  RestInv'
<1> DEFINE item == Item("state", Rev)
<1>1. /\ Rev' = Rev /\ Rev \in Nat
      /\ \A x \in Range(Recorded) : x \in OneItem /\ x.rev \in Nat
      /\ item \in OneItem /\ item.kind = "state" /\ item.rev = Rev
  BY PendingIs, RangeIs, RevIs, ItemIs DEF TypeInv, Rev, Kinds
<1>2. Range(early) = {} /\ early' = <<>>
  BY RangeNone
<1>3. NextSeq > 1 /\ NextSeq' > 1
  <2>1. /\ disk.acked \in Nat /\ Len(disk.rows) \in Nat /\ Len(unflushed) \in Nat
        /\ LastSeq = disk.acked + Len(disk.rows) + Len(unflushed) /\ NextSeq = LastSeq + 1
    BY NumbersAre
  <2>2. disk.acked + Len(disk.rows) > 0
    BY DEF BackfillInv
  <2>3. NextSeq > 1
    BY <2>1, <2>2
  <2> QED BY <2>3
<1>4. /\ <<item>> \in Items /\ <<>> \in Items
      /\ CurrentState \o <<>> = CurrentState /\ Recorded \o <<>> = Recorded
  BY <1>1, Single, ItemsAre
<1> HIDE DEF item
<1>5. PICK items \in {CurrentState, <<>>} :
        /\ Recorded' = Recorded \o items
        /\ ~stopped' => items = CurrentState
  <2>1. \/ Recorded' = Recorded \o CurrentState
        \/ Recorded' = Recorded /\ stopped'
    BY <1>4 DEF Stored
  <2> QED BY <1>4, <2>1
<1>6. /\ items \in Items /\ Ascend(items)
      /\ \A y \in Range(items) : y.kind = "state" /\ y.rev = Rev
      /\ (items = CurrentState /\ StateFits) => item \in Range(items)
      /\ Range(Recorded') = Range(Recorded) \cup Range(items)
  BY <1>4, <1>5, StateIs, RangeJoined DEF item
<1>7. OrderInv'
  <2>1. \A y \in Range(items) : y.rev <= Rev' /\ y.kind # "message"
    BY <1>1, <1>6
  <2>2. Rev' \in Nat /\ Rev <= Rev'
    BY <1>1
  <2> QED BY <1>2, <1>5, <1>6, <2>1, <2>2, OrderAppends DEF RestInv
<1>8. SecretInv'
  <2>1. \A y \in Range(items) : y.kind # "message"
    BY <1>6
  <2>2. Rev' \in Nat /\ Rev <= Rev'
    BY <1>1
  <2> QED BY <1>2, <1>3, <1>5, <1>6, <2>1, <2>2, SecretAppends DEF RestInv
<1>9. DueInv'
  BY <1>1 DEF RestInv, DueInv
<1>10. MessagesInv'
  <2> SUFFICES ASSUME NEW x \in due
               PROVE  x.kind = "state" \/ x \in Spent' \/ x \in Range(Recorded')
    BY DEF MessagesInv
  <2> QED BY <1>2, <1>3, <1>6 DEF RestInv, MessagesInv
<1>11. StateInv'
  <2>1. CASE stopped'
    BY <2>1 DEF StateInv
  <2>2. CASE ~stopped' /\ StateFits
    <3>1. item \in Range(Recorded')
      BY <1>5, <1>6, <2>2
    <3>2. \A x \in due : item.rev >= x.rev
      BY <1>1 DEF RestInv, DueInv
    <3>3. \A x \in due : StateSince(x.rev, Recorded)'
      BY <1>1, <3>1, <3>2 DEF StateSince
    <3> QED BY <3>3 DEF StateInv
  <2>3. CASE ~StateFits
    <3>1. \A x \in due : x.kind = "message" \/ Excused(x.rev)'
      BY <2>3, DueIs, StateSpent DEF RestInv
    <3> QED BY <3>1 DEF StateInv
  <2> QED BY <2>1, <2>2, <2>3
<1> QED BY <1>7, <1>8, <1>9, <1>10, <1>11 DEF RestInv

\* What was held goes behind the entries that a crash left, and the state
\* behind it where it may be missing.
LEMMA TornRest ==
  ASSUME TypeInv, AnswerInv, RestInv, Recorded \in Items,
         UNCHANGED <<log, due, secret>>, early' = <<>>, ~disk.backfilled, NextSeq > 1,
         NEW items \in Items, NEW state \in Items, items = Held(0),
         state = (IF disk.stateRecorded THEN <<>> ELSE CurrentState),
         disk'.backfilled, HeldSkips(0) => disk'.skipped,
         Stored(items, state), NextSeq > 1 => NextSeq' > 1, Spent \subseteq Spent'
  PROVE  RestInv'
<1>1. /\ Rev' = Rev /\ Rev \in Nat /\ early \in Items /\ secret \subseteq Nat
      /\ \A x \in Range(Recorded) : x \in OneItem /\ x.rev \in Nat
      /\ \A i \in 1..Len(early) : early[i].rev \in 1..Rev /\ early[i] \in Range(early)
      /\ \A x \in Range(early) : x \in OneItem /\ x.rev \in Nat /\ x.rev \in 1..Rev
                                 /\ x.rev <= Rev /\ x.rev \in RevsOf(early)
  <2>1. /\ early \in Items /\ \A i \in 1..Len(early) : early[i].rev \in 1..Rev
        /\ Rev \in Nat /\ secret \subseteq Nat /\ Rev' = Rev
    BY PendingIs DEF TypeInv, SessionType, HistoryType, Rev
  <2>2. \A x \in Range(early) : x \in OneItem /\ x.rev \in 1..Rev /\ x.rev \in RevsOf(early)
    BY <2>1, RangeIs, RevsAre
  <2> QED BY <2>1, <2>2, RangeIs, RevIs
<1>2. /\ \A i, j \in 1..Len(items) : i < j =>
           \E k, l \in 1..Len(early) : k < l /\ items[i] = early[k] /\ items[j] = early[l]
      /\ Range(items) = {item \in Range(early) : item.rev \notin Unfit}
  BY <1>1, HeldIs
<1>3. /\ Ascend(state) /\ \A y \in Range(state) : y.kind = "state" /\ y.rev = Rev
  BY StateIs
<1>4. /\ items \o state \in Items /\ <<>> \in Items /\ Recorded \o <<>> = Recorded
      /\ Range(items \o state) = Range(items) \cup Range(state) /\ Range(<<>>) = {}
  BY Joined, RangeJoined, ItemsAre, RangeNone
<1>5. Ascend(items) /\ Ascend(items \o state) /\ Ascend(<<>>)
  <2>1. Ascend(items)
    <3>1. \A k, l \in 1..Len(early) : k < l => early[k].rev < early[l].rev
      BY DEF RestInv, OrderInv
    <3>2. ASSUME NEW i \in 1..Len(items), NEW j \in 1..Len(items), i < j
          PROVE  items[i].rev < items[j].rev
      <4>1. PICK k, l \in 1..Len(early) : k < l /\ items[i] = early[k] /\ items[j] = early[l]
        BY <1>2, <3>2
      <4> QED BY <3>1, <4>1
    <3> QED BY <3>2 DEF Ascend
  <2>2. \A x \in Range(items), y \in Range(state) : y.kind # "message"
    BY <1>3
  <2>3. Ascend(<<>>)
    <3>1. \A i \in 1..Len(<<>>) : FALSE
      BY ItemsAre
    <3> QED BY <3>1 DEF Ascend
  <2> QED BY <1>3, <2>1, <2>2, <2>3, AscendJoined
<1>6. ASSUME NEW x \in due, x \in Range(early), x.rev \in Unfit
      PROVE  x \in Spent'
  <2>1. x.rev \in RevsOf(early) \cap Unfit /\ x.rev > 0
    BY <1>1, <1>6
  <2>2. disk'.skipped
    BY <2>1 DEF HeldSkips
  <2>3. x \in OneItem /\ x.rev \in 1..Rev' /\ x.kind = log'[x.rev]
    BY <1>1, <1>6, DueIs DEF RestInv
  <2> QED BY <1>6, <2>2, <2>3, UnfitIs
<1>7. PICK kept \in {items \o state, items, <<>>} :
        /\ Recorded' = Recorded \o kept
        /\ \A x \in Range(items) : x \in Range(kept) \/ x \in Spent'
  <2>1. CASE Recorded' = Recorded \o (items \o state)
    BY <1>4, <2>1
  <2>2. CASE Recorded' = Recorded \o items
    BY <2>2
  <2>3. CASE Recorded' = Recorded /\ Range(items \o state) \subseteq Spent'
    BY <1>4, <2>3
  <2> QED BY <2>1, <2>2, <2>3 DEF Stored
<1>8. /\ kept \in Items /\ Ascend(kept)
      /\ \A y \in Range(kept) : y \in Range(early) \/ y \in Range(state)
      /\ Range(Recorded') = Range(Recorded) \cup Range(kept)
      /\ Range(early') = {}
  BY <1>2, <1>4, <1>5, <1>7, RangeJoined
<1>9. \A x \in due : x \in Range(early) => (x \in Spent' \/ x \in Range(Recorded'))
  BY <1>2, <1>6, <1>7, <1>8
<1>10. OrderInv'
  <2>1. \A y \in Range(kept) : y.rev <= Rev'
    BY <1>1, <1>3, <1>8
  <2>2. \A x \in Range(Recorded), y \in Range(kept) : y.kind = "message" => x.rev < y.rev
    BY <1>3, <1>8 DEF RestInv, OrderInv
  <2>3. Rev' \in Nat /\ Rev <= Rev'
    BY <1>1
  <2> QED BY <1>7, <1>8, <2>1, <2>2, <2>3, OrderAppends DEF RestInv
<1>11. SecretInv'
  <2>1. \A y \in Range(kept) : y.kind = "message" => y.rev \notin secret
    BY <1>3, <1>8 DEF RestInv, SecretInv
  <2>2. Rev' \in Nat /\ Rev <= Rev'
    BY <1>1
  <2> QED BY <1>7, <1>8, <2>1, <2>2, SecretAppends DEF RestInv
<1>12. DueInv'
  BY <1>1 DEF RestInv, DueInv
<1>13. MessagesInv'
  <2> SUFFICES ASSUME NEW x \in due
               PROVE  x.kind = "state" \/ x \in Spent' \/ x \in Range(Recorded')
    BY DEF MessagesInv
  <2> QED BY <1>8, <1>9 DEF RestInv, MessagesInv
<1>14. StateInv'
  <2> SUFFICES ASSUME NEW x \in due
               PROVE  \/ x.kind = "message" \/ Excused(x.rev)'
                      \/ \E y \in Range(Recorded') : y.kind = "state" /\ y.rev >= x.rev
    BY DEF StateInv, Excused, StateSince
  <2>1. \/ x.kind = "message" \/ Excused(x.rev)
        \/ StateSince(x.rev, Recorded) \/ x \in Range(early)
    BY DEF RestInv, StateInv
  <2>2. CASE x \in Range(early)
    <3>1. x.rev >= x.rev /\ (x.kind = "message" \/ x.kind = "state")
      <4>1. x.rev \in Nat /\ (x.kind = "message" \/ x.kind = "state")
        BY DueIs DEF RestInv
      <4> QED BY <4>1
    <3> QED BY <1>9, <2>2, <3>1 DEF Excused
  <2>3. Excused(x.rev) => Excused(x.rev)'
    BY DEF Excused
  <2> QED BY <1>8, <2>1, <2>2, <2>3 DEF StateSince
<1> QED BY <1>10, <1>11, <1>12, <1>13, <1>14 DEF RestInv

\* The snapshot has every message and the last state, but for what cannot be
\* encoded, and no secrets.
LEMMA FirstRest ==
  ASSUME TypeInv, RestInv, NextSeq = 1, UNCHANGED <<log, due, secret>>,
         early' = <<>>, Recorded' = Snapshot, SnapshotSkips => disk'.skipped
  PROVE  RestInv'
<1> DEFINE s == Snapshot
           n == Len(s) - 1
           last == Item(IF StateFits THEN "state" ELSE "rest", Rev)
<1>1. /\ log \in Seq(Kinds) /\ Rev \in Nat /\ Rev' = Rev /\ Rev = Len(log) /\ DOMAIN log = 1..Rev
      /\ due \subseteq OneItem
  BY PendingIs, LenProperties DEF TypeInv, SessionType, HistoryType, Rev
<1>2. /\ s \in Items /\ n \in Nat
      /\ \A i \in 1..n : s[i].kind = "message" /\ s[i].rev \in 1..Rev
      /\ \A i, j \in 1..n : i < j => s[i].rev < s[j].rev
      /\ \A r \in 1..Rev \ Unfit : log[r] = "message" => Item("message", r) \in Range(s)
      /\ s[Len(s)] = last
  BY <1>1, SnapshotIs
<1> HIDE DEF s
<1>3. /\ Len(s) \in Nat /\ n = Len(s) - 1
      /\ \A i \in 1..Len(s) : i \in 1..n \/ i = Len(s)
      /\ Len(s) \in 1..Len(s)
  <2>1. Len(s) \in Nat
    BY <1>2, ItemsAre
  <2> QED BY <1>2, <2>1
<1> HIDE DEF n
<1>4. Range(s) = {s[i] : i \in 1..Len(s)}
  BY <1>2, RangeIs
<1>5. last.kind # "message" /\ last.rev = Rev /\ (StateFits => last.kind = "state")
  BY <1>1 DEF Item
<1> HIDE DEF last
<1>6. last \in Range(s)
  BY <1>2, <1>3, <1>4
<1>7. \A x \in Range(s) : x.rev \in Nat /\ x.rev <= Rev
  <2>1. \A i \in 1..Len(s) : s[i].rev \in Nat /\ s[i].rev <= Rev
    BY <1>1, <1>2, <1>3, <1>5
  <2> QED BY <1>4, <2>1
<1>8. Recorded' = s /\ Range(early') = {} /\ Len(early') = 0
  BY RangeNone, ItemsAre DEF s
<1>9. OrderInv'
  <2>1. ASSUME NEW i \in 1..Len(s), NEW j \in 1..Len(s), i < j,
               s[i].kind = "message", s[j].kind = "message"
        PROVE  s[i].rev < s[j].rev
    <3>1. i \in 1..n /\ j \in 1..n
      <4>1. i # Len(s) /\ j # Len(s)
        BY <1>2, <1>5, <2>1
      <4> QED BY <1>3, <4>1
    <3> QED BY <1>2, <2>1, <3>1
  <2>2. \A i \in 1..Len(early') : FALSE
    BY <1>8
  <2> QED BY <1>1, <1>7, <1>8, <2>1, <2>2 DEF OrderInv, Ascend
<1>10. SecretInv'
  <2>1. secret = {}
    BY DEF RestInv, SecretInv
  <2> QED BY <1>8, <2>1 DEF SecretInv
<1>11. DueInv'
  BY <1>1 DEF RestInv, DueInv
<1>12. ASSUME NEW item \in due, item.kind # "state"
       PROVE  item \in Range(s) \/ item \in Spent'
  <2>1. /\ item.rev \in 1..Rev /\ item.kind = log[item.rev] /\ item.kind = "message"
        /\ item = Item("message", item.rev) /\ item \in OneItem
    BY <1>12, DueIs DEF RestInv
  <2>2. CASE item.rev \notin Unfit
    BY <1>2, <2>1, <2>2
  <2>3. CASE item.rev \in Unfit
    <3>1. disk'.skipped
      BY <1>1, <2>1, <2>3 DEF SnapshotSkips
    <3> QED BY <1>1, <2>1, <2>3, <3>1, UnfitIs
  <2> QED BY <2>2, <2>3
<1>13. MessagesInv'
  BY <1>8, <1>12 DEF MessagesInv
<1>14. \A item \in due : item.kind = "message" \/ Excused(item.rev)' \/ StateSince(item.rev, s)
  <2>1. CASE StateFits
    <3>1. \A item \in due : Rev >= item.rev
      BY <1>1 DEF RestInv, DueInv
    <3> QED BY <1>5, <1>6, <2>1, <3>1 DEF StateSince
  <2>2. CASE ~StateFits
    <3>1. disk'.skipped
      BY <2>2 DEF SnapshotSkips
    <3> QED BY <2>2, <3>1, DueIs, StateSpent DEF RestInv
  <2> QED BY <2>1, <2>2
<1>15. StateInv'
  <2>1. \A item \in due :
          item.kind = "message" \/ Excused(item.rev)' \/ StateSince(item.rev, Recorded')
    BY <1>8, <1>14
  <2> QED BY <2>1 DEF StateInv, StateSince, Excused
<1> QED BY <1>9, <1>10, <1>11, <1>13, <1>15 DEF RestInv

\* With the outbox gone, the session starts anew.
LEMMA DiscardRest ==
  ASSUME TypeInv, RestInv, UNCHANGED <<log, due>>, secret' = {}, early' = <<>>,
         Recorded' = <<>>, LastSeq' = 0
  PROVE  RestInv'
<1>1. Rev' = Rev /\ NextSeq' = 1
  BY DEF Rev, NextSeq
<1>2. /\ Range(early') = {} /\ Len(early') = 0
      /\ Range(Recorded') = {} /\ Len(Recorded') = 0
  BY RangeNone, ItemsAre
<1>3. OrderInv'
  <2>1. /\ \A i \in 1..Len(early') : FALSE
        /\ \A i \in 1..Len(Recorded') : FALSE
    BY <1>2
  <2> QED BY <1>2, <2>1 DEF OrderInv, Ascend
<1>4. SecretInv' /\ DueInv'
  BY <1>1, <1>2 DEF RestInv, SecretInv, DueInv
<1>5. MessagesInv' /\ StateInv'
  BY <1>1 DEF MessagesInv, StateInv
<1> QED BY <1>3, <1>4, <1>5 DEF RestInv

\* What a crash takes is accounted for: the tick that was not flushed, and
\* what was held for a snapshot that will not be taken again.
LEMMA CrashRest ==
  ASSUME TypeInv, AnswerInv, Placed, BackfillInv, RestInv,
         UNCHANGED <<log, due, secret, disk>>, early' = <<>>,
         LastSeq' = disk.acked + Len(disk.rows), LastSeq' <= LastSeq,
         Recorded' = SubSeq(Recorded, 1, LastSeq'),
         Spent \subseteq Spent', Range(unflushed) \subseteq Spent',
         NextSeq > 1 => Range(early) \subseteq Spent'
  PROVE  RestInv'
<1> DEFINE m == disk.acked + Len(disk.rows)
<1>1. /\ disk.acked \in Nat /\ Len(disk.rows) \in Nat /\ Len(unflushed) \in Nat
      /\ LastSeq \in Nat /\ LastSeq = m + Len(unflushed) /\ NextSeq = LastSeq + 1 /\ m \in Nat
      /\ unflushed \in Items /\ early \in Items /\ Rev' = Rev
  <2>1. /\ disk.acked \in Nat /\ Len(disk.rows) \in Nat /\ Len(unflushed) \in Nat
        /\ LastSeq \in Nat /\ LastSeq = disk.acked + Len(disk.rows) + Len(unflushed)
        /\ NextSeq = LastSeq + 1
    BY NumbersAre
  <2>2. m \in Nat
    BY <2>1
  <2>3. unflushed \in Items /\ early \in Items /\ Rev' = Rev
    BY DEF TypeInv, SessionType, Rev
  <2> QED BY <2>1, <2>2, <2>3
<1>2. NextSeq' = m + 1
  BY DEF NextSeq
<1>3. NextSeq > 1 <=> NextSeq' > 1
  <2>1. m = 0 => Len(unflushed) = 0
    BY <1>1, ItemsAre DEF BackfillInv
  <2> HIDE DEF m
  <2> QED BY <1>1, <1>2, <2>1
<1>4. Recorded \in Items /\ Len(Recorded) = LastSeq /\ m \in 0..Len(Recorded)
  <2>1. Recorded \in Items /\ Len(Recorded) = LastSeq
    BY DEF Placed
  <2> HIDE DEF m
  <2> QED BY <1>1, <2>1
<1>5. /\ Range(Recorded') \subseteq Range(Recorded)
      /\ \A i \in 1..m : Recorded[i] \in Range(Recorded')
      /\ Ascend(Recorded')
  <2> HIDE DEF m
  <2>1. Recorded' = SubSeq(Recorded, 1, m)
    BY DEF m
  <2> QED BY <1>4, <2>1, PrefixIs DEF RestInv, OrderInv
<1>6. \A x \in due : x.rev \in Nat /\ (x.kind = "message" \/ x.kind = "state")
  BY DueIs DEF RestInv
<1>7. Range(unflushed) = {unflushed[i] : i \in 1..Len(unflushed)}
  BY <1>1, RangeIs
<1>8. ASSUME NEW x \in Range(Recorded), x \notin Range(Recorded')
      PROVE  x \in Spent'
  <2>1. PICK i \in 1..LastSeq : x = Recorded[i]
    BY <1>4, RangeIs
  <2>2. i \notin 1..m
    BY <1>5, <1>8, <2>1
  <2>3. /\ i \in disk.acked + 1 .. LastSeq
        /\ i - disk.acked \in Len(disk.rows) + 1 .. Len(disk.rows) + Len(unflushed)
        /\ i - m \in 1..Len(unflushed) /\ i - disk.acked - Len(disk.rows) = i - m
    <3> DEFINE a == disk.acked
               k == Len(disk.rows)
               u == Len(unflushed)
    <3>1. /\ a \in Nat /\ k \in Nat /\ u \in Nat /\ m = a + k /\ LastSeq = a + k + u
          /\ i \in 1..LastSeq /\ i \notin 1..m
      BY <1>1, <2>1, <2>2
    <3> HIDE DEF a, k, u, m
    <3>2. /\ i \in a + 1 .. LastSeq /\ i - a \in k + 1 .. k + u
          /\ i - m \in 1..u /\ i - a - k = i - m
      BY <3>1
    <3> QED BY <3>2 DEF a, k, u
  <2>4. x = Pending[i - disk.acked]
    BY <2>1, <2>3 DEF Placed
  <2>5. Pending[i - disk.acked] = unflushed[i - disk.acked - Len(disk.rows)]
    BY <2>3, PendingIs DEF TypeInv
  <2>6. x = unflushed[i - m]
    BY <2>3, <2>4, <2>5
  <2> HIDE DEF m
  <2> QED BY <1>7, <2>3, <2>6
<1>9. Range(early') = {} /\ Len(early') = 0
  BY RangeNone, ItemsAre
<1> HIDE DEF m
<1>10. OrderInv'
  <2>1. \A i \in 1..Len(early') : FALSE
    BY <1>9
  <2>2. Ascend(Recorded)'
    BY <1>5 DEF Ascend
  <2> QED BY <1>1, <1>5, <1>9, <2>1, <2>2 DEF RestInv, OrderInv
<1>11. SecretInv'
  BY <1>1, <1>3, <1>5, <1>9 DEF RestInv, SecretInv
<1>12. DueInv'
  BY <1>1 DEF RestInv, DueInv
<1>13. MessagesInv'
  <2> SUFFICES ASSUME NextSeq > 1, NEW x \in due
               PROVE  x.kind = "state" \/ x \in Spent' \/ x \in Range(Recorded')
    BY <1>3 DEF MessagesInv
  <2>1. x.kind = "state" \/ x \in Spent \/ x \in Range(Recorded) \/ x \in Range(early)
    BY DEF RestInv, MessagesInv
  <2> QED BY <1>8, <2>1
<1>14. StateInv'
  <2> SUFFICES ASSUME NextSeq > 1, disk.backfilled => disk.stateRecorded, NEW x \in due
               PROVE  \/ x.kind = "message" \/ Excused(x.rev)'
                      \/ \E y \in Range(Recorded') : y.kind = "state" /\ y.rev >= x.rev
    BY <1>3 DEF StateInv, Excused, StateSince
  <2>1. \/ x.kind = "message" \/ Excused(x.rev)
        \/ StateSince(x.rev, Recorded) \/ x \in Range(early)
    BY DEF RestInv, StateInv
  <2>2. CASE StateSince(x.rev, Recorded)
    <3>1. PICK y \in Range(Recorded) : y.kind = "state" /\ y.rev >= x.rev
      BY <2>2 DEF StateSince
    <3>2. y \in Range(Recorded') \/ y \in Spent'
      BY <1>8
    <3> QED BY <3>1, <3>2 DEF Excused
  <2>3. CASE x \in Range(early)
    <3>1. x \in Spent' /\ x.rev >= x.rev
      BY <1>6, <2>3
    <3> QED BY <1>6, <3>1 DEF Excused
  <2>4. Excused(x.rev) => Excused(x.rev)'
    BY DEF Excused
  <2> QED BY <2>1, <2>2, <2>3, <2>4
<1> QED BY <1>10, <1>11, <1>12, <1>13, <1>14 DEF RestInv

\* append, in terms of the places.
LEMMA StoreStep ==
  ASSUME TypeInv, AnswerInv, Agrees, TypeInv', AnswerInv', Requests' \subseteq Requests,
         web' = web, offered' = offered, disk'.acked = disk.acked,
         disk'.attempted = disk.attempted, disk'.rows = disk.rows,
         NEW items \in Items, NEW more \in Items, Store(items, more)
  PROVE  /\ Agrees' /\ Stored(items, more) /\ (NextSeq > 1 => NextSeq' > 1)
         /\ \E kept \in Items : Recorded' = Recorded \o kept
<1>1. \/ unflushed' = unflushed \o (items \o more) /\ stopped' = stopped
      \/ unflushed' = unflushed \o items /\ stopped' = TRUE
      \/ /\ unflushed' = unflushed /\ stopped' = TRUE
         /\ Range(items \o more) \subseteq Spent'
  <2>1. Lost' \subseteq Spent'
    BY DEF Spent
  <2> QED BY <2>1, StoreIs DEF TypeInv, HistoryType
<1>2. /\ items \o more \in Items /\ <<>> \in Items
      /\ unflushed \o <<>> = unflushed /\ Recorded \o <<>> = Recorded
  BY Joined, ItemsAre, AgreesIsTight DEF TypeInv, SessionType, Placed
<1>3. \A kept \in Items :
        unflushed' = unflushed \o kept =>
          Agrees' /\ Recorded' = Recorded \o kept /\ LastSeq' = LastSeq + Len(kept)
  BY Appends
<1>4. \A kept \in Items : LastSeq' = LastSeq + Len(kept) => (NextSeq > 1 => NextSeq' > 1)
  <2>1. LastSeq \in Nat /\ NextSeq = LastSeq + 1
    BY NumbersAre
  <2>2. NextSeq' = LastSeq' + 1
    BY DEF NextSeq
  <2>3. \A kept \in Items : Len(kept) \in Nat
    BY ItemsAre
  <2> QED BY <2>1, <2>2, <2>3
<1>5. CASE unflushed' = unflushed \o (items \o more) /\ stopped' = stopped
  BY <1>1, <1>2, <1>3, <1>4, <1>5 DEF Stored
<1>6. CASE unflushed' = unflushed \o items /\ stopped' = TRUE
  BY <1>1, <1>3, <1>4, <1>6 DEF Stored
<1>7. CASE unflushed' = unflushed /\ stopped' = TRUE /\ Range(items \o more) \subseteq Spent'
  <2>1. unflushed' = unflushed \o <<>>
    BY <1>2, <1>7
  <2>2. Agrees' /\ Recorded' = Recorded \o <<>> /\ LastSeq' = LastSeq + Len(<<>>)
    BY <1>2, <1>3, <2>1
  <2> QED BY <1>1, <1>2, <1>4, <1>7, <2>2 DEF Stored
<1> QED BY <1>1, <1>5, <1>6, <1>7

-----------------------------------------------------------------------------
(* The steps *)

\* What a step does to the places: the web shows more of what was offered,
\* more is offered, items are recorded at the end, or the end is given up.
Keeps ==
  \/ Recorded' = Recorded /\ offered' = offered /\ Len(web') \in Len(web)..offered
  \/ Recorded' = Recorded /\ offered' \in offered..LastSeq /\ web' = web
  \/ /\ web' = web /\ offered' = offered
     /\ \/ \E items \in Items : Recorded' = Recorded \o items
        \/ \E n \in offered..LastSeq : Recorded' = SubSeq(Recorded, 1, n)

\* The parts of the invariant, and what every lemma about a step assumes.
LEMMA WholeIs ==
  ASSUME TypeInv, AnswerInv, WholeInv
  PROVE  /\ Agrees /\ BackfillInv /\ RestInv /\ Placed
         /\ Recorded \in Items /\ Len(Recorded) = LastSeq
         /\ Len(web) <= offered /\ offered <= LastSeq
         /\ Len(web) \in Nat /\ offered \in Nat /\ LastSeq \in Nat
         /\ disk \in DiskType
<1>1. Agrees /\ BackfillInv /\ RestInv
  BY DEF WholeInv, RestInv
<1>2. disk \in DiskType
  BY DEF TypeInv, SessionType
<1> QED BY <1>1, <1>2, AgreesIsTight, NumbersAre DEF Placed

\* The invariant from its parts.
LEMMA WholeIsBuilt ==
  ASSUME Agrees', BackfillInv', RestInv'
  PROVE  WholeInv'
BY DEF WholeInv, RestInv

\* A backfill stays what it was, with what is on the disk.
LEMMA BackfillStays ==
  ASSUME TypeInv, AnswerInv, TypeInv', AnswerInv', BackfillInv,
         disk'.acked + Len(disk'.rows) >= disk.acked + Len(disk.rows),
         disk'.backfilled = disk.backfilled,
         unflushed' = unflushed \/ unflushed' = <<>> \/ disk.backfilled
  PROVE  BackfillInv'
<1>1. disk'.backfilled => disk'.acked + Len(disk'.rows) > 0
  <2>1. disk.backfilled => disk.acked + Len(disk.rows) > 0
    BY DEF BackfillInv
  <2>2. /\ disk.acked + Len(disk.rows) \in Nat
        /\ disk'.acked + Len(disk'.rows) \in Nat
    <3>1. disk.acked \in Nat /\ Len(disk.rows) \in Nat
      BY NumbersAre
    <3>2. disk'.acked \in Nat /\ Len(disk'.rows) \in Nat
      BY NumbersNext
    <3> QED BY <3>1, <3>2
  <2> DEFINE a == disk.acked + Len(disk.rows)
             b == disk'.acked + Len(disk'.rows)
  <2> HIDE DEF a, b
  <2>3. (disk.backfilled => a > 0) /\ a \in Nat /\ b \in Nat /\ b >= a
    BY <2>1, <2>2 DEF a, b
  <2>4. disk'.backfilled => b > 0
    BY <2>3
  <2> QED BY <2>4 DEF b
<1>2. unflushed' # <<>> => disk'.backfilled
  BY DEF BackfillInv
<1> QED BY <1>1, <1>2 DEF BackfillInv

\* The steps that leave the places and their histories alone.
LEMMA SameStep ==
  ASSUME TypeInv, AnswerInv, WholeInv, TypeInv', AnswerInv', Requests' \subseteq Requests, Spent \subseteq Spent',
         UNCHANGED <<web, offered, log, early, due, secret>>, Pending' = Pending,
         disk'.acked = disk.acked, disk.attempted => disk'.attempted,
         Len(disk.rows) <= Len(disk'.rows), unflushed' = unflushed \/ unflushed' = <<>>,
         disk'.backfilled = disk.backfilled, disk'.stateRecorded = disk.stateRecorded
  PROVE  WholeInv' /\ Keeps
<1>1. Agrees /\ BackfillInv /\ RestInv /\ Len(web) <= offered /\ Len(web) \in Nat /\ offered \in Nat
  BY WholeIs
<1>2. Agrees' /\ Recorded' = Recorded /\ LastSeq' = LastSeq
  BY <1>1, SameOutbox
<1>3. RestInv'
  BY <1>1, <1>2, RestSame
<1>4. disk'.acked + Len(disk'.rows) >= disk.acked + Len(disk.rows)
  <2>1. disk.acked \in Nat /\ Len(disk.rows) \in Nat
    BY NumbersAre
  <2>2. Len(disk'.rows) \in Nat
    BY NumbersNext
  <2> QED BY <2>1, <2>2
<1>5. BackfillInv'
  BY <1>1, <1>4, BackfillStays
<1> QED BY <1>1, <1>2, <1>3, <1>5, WholeIsBuilt DEF Keeps

\* With the record and what is not committed unchanged, so is what is pending.
LEMMA QuietStep ==
  ASSUME TypeInv, AnswerInv, WholeInv, TypeInv', AnswerInv', Requests' \subseteq Requests, Spent \subseteq Spent',
         UNCHANGED <<web, offered, log, early, due, secret, disk, unflushed>>
  PROVE  WholeInv' /\ Keeps
<1>1. Len(disk.rows) \in Nat
  BY NumbersAre
<1> QED BY <1>1, SameStep DEF Pending

\* A change is overlooked, held or recorded.
LEMMA ChangeStep ==
  ASSUME TypeInv, AnswerInv, WholeInv, TypeInv', AnswerInv', Requests' \subseteq Requests, Spent \subseteq Spent',
         NEW kind \in Kinds, Change(kind)
  PROVE  WholeInv' /\ Keeps
<1>1. /\ Agrees /\ BackfillInv /\ RestInv /\ Len(web) <= offered /\ Recorded \in Items
      /\ Len(web) \in Nat /\ offered \in Nat /\ disk \in DiskType
  BY WholeIs
<1>2. web' = web /\ offered' = offered
  BY DEF Change, upload
<1>3. disk.acked \in Nat /\ Len(disk.rows) \in Nat
  BY NumbersAre
<1>4. CASE Overlook(kind)
  <2>1. disk' = [disk EXCEPT !.stateRecorded = @ /\ ~Missing(kind)] /\ unflushed' = unflushed
    BY <1>4 DEF Overlook
  <2>2. /\ disk'.acked = disk.acked /\ disk'.rows = disk.rows
        /\ disk'.attempted = disk.attempted /\ disk'.backfilled = disk.backfilled
    BY <1>1, <2>1 DEF DiskType
  <2>3. Pending' = Pending
    BY <2>1, <2>2 DEF Pending
  <2>4. Agrees' /\ Recorded' = Recorded /\ LastSeq' = LastSeq
    BY <1>1, <1>2, <1>3, <2>2, <2>3, SameOutbox
  <2>5. RestInv'
    BY <1>1, <1>4, <2>4, OverlookRest
  <2>6. BackfillInv'
    BY <1>1, <1>3, <2>1, <2>2, BackfillStays
  <2> QED BY <1>1, <1>2, <2>4, <2>5, <2>6, WholeIsBuilt DEF Keeps
<1>5. CASE Hold(kind)
  <2>1. disk' = disk /\ unflushed' = unflushed
    BY <1>5 DEF Hold
  <2>2. Pending' = Pending
    BY <2>1 DEF Pending
  <2>3. Agrees' /\ Recorded' = Recorded /\ LastSeq' = LastSeq
    BY <1>1, <1>2, <1>3, <2>1, <2>2, SameOutbox
  <2>4. RestInv'
    BY <1>1, <1>5, <2>3, HoldRest
  <2>5. BackfillInv'
    BY <1>1, <1>3, <2>1, BackfillStays
  <2> QED BY <1>1, <1>2, <2>3, <2>4, <2>5, WholeIsBuilt DEF Keeps
<1>6. CASE Record(kind)
  <2>1. disk' = disk /\ Store(<<Item(kind, Rev + 1)>>, <<>>) /\ disk.backfilled
    BY <1>6 DEF Record
  <2>2. <<Item(kind, Rev + 1)>> \in Items /\ <<>> \in Items
    BY ChangeIs, Single, ItemsAre DEF TypeInv
  <2>3. /\ Agrees' /\ Stored(<<Item(kind, Rev + 1)>>, <<>>) /\ (NextSeq > 1 => NextSeq' > 1)
        /\ \E kept \in Items : Recorded' = Recorded \o kept
    BY <1>1, <1>2, <2>1, <2>2, StoreStep
  <2>4. RestInv'
    BY <1>1, <1>6, <2>3, RecordRest
  <2>5. BackfillInv'
    <3>1. disk' = disk
      BY <2>1
    <3>2. disk'.acked + Len(disk'.rows) >= disk.acked + Len(disk.rows)
      BY <1>3, <3>1
    <3> QED BY <1>1, <2>1, <3>1, <3>2, BackfillStays
  <2> QED BY <1>1, <1>2, <2>3, <2>4, <2>5, WholeIsBuilt DEF Keeps
<1>7. CASE Skip(kind)
  <2>1. disk' = Skipped(TRUE) /\ unflushed' = unflushed
    BY <1>7 DEF Skip
  <2>2. /\ disk'.acked = disk.acked /\ disk'.rows = disk.rows /\ disk'.skipped
        /\ disk'.attempted = disk.attempted /\ disk'.backfilled = disk.backfilled
        /\ disk'.stateRecorded = disk.stateRecorded
    <3> DEFINE u == Skipped(TRUE).skipped
    <3>1. disk' = [disk EXCEPT !.skipped = u] /\ u
      BY <1>1, <2>1, SkippedIs
    <3> HIDE DEF u
    <3> QED BY <1>1, <3>1 DEF DiskType
  <2>3. Pending' = Pending
    BY <2>1, <2>2 DEF Pending
  <2>4. Agrees' /\ Recorded' = Recorded /\ LastSeq' = LastSeq
    BY <1>1, <1>2, <1>3, <2>2, <2>3, SameOutbox
  <2>5. RestInv'
    BY <1>1, <1>7, <2>2, <2>4, SkipRest
  <2>6. BackfillInv'
    <3>1. disk'.acked + Len(disk'.rows) >= disk.acked + Len(disk.rows)
      BY <1>3, <2>2
    <3> QED BY <1>1, <2>1, <2>2, <3>1, BackfillStays
  <2> QED BY <1>1, <1>2, <2>4, <2>5, <2>6, WholeIsBuilt DEF Keeps
<1> QED BY <1>4, <1>5, <1>6, <1>7 DEF Change

\* The backfill: of the history, of a history that does not fit, and behind
\* the entries that a crash left.
LEMMA BackfillStep ==
  ASSUME TypeInv, AnswerInv, WholeInv, TypeInv', AnswerInv', Requests' \subseteq Requests, Spent \subseteq Spent',
         Backfill
  PROVE  WholeInv' /\ Keeps
<1>1. /\ Agrees /\ BackfillInv /\ RestInv /\ Len(web) <= offered /\ Recorded \in Items
      /\ Len(web) \in Nat /\ offered \in Nat /\ disk \in DiskType /\ LastSeq \in Nat
      /\ SessionType
  BY WholeIs DEF TypeInv
<1>2. /\ web' = web /\ offered' = offered /\ early' = <<>>
      /\ UNCHANGED <<log, due, secret>> /\ ~disk.backfilled
  BY DEF Backfill, upload
<1>3. /\ disk.acked \in Nat /\ Len(disk.rows) \in Nat /\ Len(unflushed) \in Nat
      /\ LastSeq = disk.acked + Len(disk.rows) + Len(unflushed) /\ NextSeq = LastSeq + 1
  BY NumbersAre
<1>4. CASE BackfillHistory /\ Len(Snapshot) <= Capacity
  <2>1. /\ disk'.rows = Snapshot /\ unflushed' = <<>> /\ disk'.acked = disk.acked
        /\ disk'.attempted = disk.attempted /\ disk'.backfilled /\ NextSeq = 1
        /\ SnapshotSkips => disk'.skipped
    BY <1>1, <1>4, HistoryIs DEF BackfillHistory
  <2>2. /\ Snapshot \in Items /\ Len(Snapshot) - 1 \in Nat
    <3>1. log \in Seq(Kinds)
      BY <1>1 DEF SessionType
    <3> QED BY <3>1, SnapshotIs
  <2>3. Agrees' /\ Recorded' = Snapshot /\ Recorded = <<>>
    BY <1>1, <1>2, <2>1, <2>2, FirstStep
  <2>4. RestInv'
    BY <1>1, <1>2, <2>1, <2>3, FirstRest
  <2>5. BackfillInv'
    <3>1. disk'.acked + Len(disk'.rows) > 0
      <4>1. Len(Snapshot) \in Nat
        BY <2>2, ItemsAre
      <4>2. Len(Snapshot) > 0
        BY <2>2, <4>1
      <4> QED BY <1>3, <2>1, <4>1, <4>2
    <3> QED BY <2>1, <3>1 DEF BackfillInv
  <2>6. Recorded' = Recorded \o Snapshot
    BY <2>2, <2>3, ItemsAre
  <2> QED BY <1>2, <2>2, <2>3, <2>4, <2>5, <2>6, WholeIsBuilt DEF Keeps
<1>5. CASE BackfillHistory /\ ~(Len(Snapshot) <= Capacity)
  <2>1. /\ unflushed' = unflushed /\ NextSeq = 1
        /\ disk'.acked = disk.acked /\ disk'.rows = disk.rows
        /\ disk'.attempted = disk.attempted /\ disk'.backfilled = disk.backfilled
        /\ disk'.stateRecorded = disk.stateRecorded
    <3> DEFINE u == Skipped(SnapshotSkips).skipped
    <3>1. disk' = Skipped(SnapshotSkips) /\ unflushed' = unflushed /\ NextSeq = 1
      BY <1>5 DEF BackfillHistory
    <3>2. disk' = [disk EXCEPT !.skipped = u]
      BY <1>1, <3>1, SkippedIs
    <3> HIDE DEF u
    <3> QED BY <1>1, <3>1, <3>2 DEF DiskType
  <2>2. Pending' = Pending
    BY <2>1 DEF Pending
  <2>3. Agrees' /\ Recorded' = Recorded /\ LastSeq' = LastSeq
    BY <1>1, <1>2, <1>3, <2>1, <2>2, SameOutbox
  <2>4. ~(NextSeq > 1)
    BY <2>1
  <2>5. RestInv'
    BY <1>1, <1>2, <2>1, <2>3, <2>4, RestDropped
  <2>6. BackfillInv'
    BY <1>1, <1>3, <2>1, BackfillStays
  <2> QED BY <1>1, <1>2, <2>3, <2>5, <2>6, WholeIsBuilt DEF Keeps
<1>6. CASE BackfillTorn
  <2>1. PICK items, state \in Items :
           /\ items = Held(0)
           /\ state = (IF disk.stateRecorded THEN <<>> ELSE CurrentState)
           /\ Store(items, state)
           /\ disk'.rows = disk.rows /\ disk'.acked = disk.acked
           /\ disk'.attempted = disk.attempted /\ disk'.backfilled
           /\ HeldSkips(0) => disk'.skipped
    BY <1>1, <1>6, TornIs
  <2>2. NextSeq > 1
    BY <1>6 DEF BackfillTorn
  <2>3. /\ Agrees' /\ Stored(items, state) /\ NextSeq' > 1
        /\ \E kept \in Items : Recorded' = Recorded \o kept
    BY <1>1, <1>2, <2>1, <2>2, StoreStep
  <2>4. RestInv'
    BY <1>1, <1>2, <2>1, <2>2, <2>3, TornRest
  <2>5. BackfillInv'
    <3>1. Len(unflushed) = 0
      BY <1>1, <1>2, ItemsAre DEF BackfillInv
    <3>2. disk'.acked + Len(disk'.rows) > 0
      BY <1>3, <2>1, <2>2, <3>1
    <3> QED BY <2>1, <3>2 DEF BackfillInv
  <2> QED BY <1>1, <1>2, <2>3, <2>4, <2>5, WholeIsBuilt DEF Keeps
<1> QED BY <1>4, <1>5, <1>6 DEF Backfill

\* Sharing ends: the outbox is discarded, or keeps what it has.
LEMMA OffStep ==
  ASSUME TypeInv, AnswerInv, WholeInv, TypeInv', AnswerInv', Requests' \subseteq Requests, Spent \subseteq Spent', Off
  PROVE  WholeInv' /\ Keeps
<1>1. /\ Agrees /\ BackfillInv /\ RestInv /\ Len(web) <= offered /\ Recorded \in Items
      /\ Len(web) \in Nat /\ offered \in Nat /\ disk \in DiskType /\ LastSeq \in Nat
      /\ offered <= LastSeq
  BY WholeIs
<1>2. web' = web /\ offered' = offered /\ UNCHANGED <<log, due>>
  BY DEF Off
<1>3. disk.acked \in Nat /\ Len(disk.rows) \in Nat
  BY NumbersAre
<1>4. CASE ~configured
  <2>1. /\ disk' = [disk EXCEPT !.on = FALSE]
        /\ UNCHANGED <<early, unflushed, secret>>
    BY <1>4 DEF Off
  <2>2. /\ disk'.acked = disk.acked /\ disk'.rows = disk.rows
        /\ disk'.attempted = disk.attempted /\ disk'.backfilled = disk.backfilled
        /\ disk'.stateRecorded = disk.stateRecorded
    BY <1>1, <2>1 DEF DiskType
  <2>3. Pending' = Pending
    BY <2>1, <2>2 DEF Pending
  <2> QED BY <1>2, <1>3, <2>1, <2>2, <2>3, SameStep
<1>5. CASE configured /\ Discardable
  <2>1. /\ disk' = [disk EXCEPT !.on = FALSE, !.rows = <<>>, !.backfilled = FALSE]
        /\ unflushed' = <<>> /\ secret' = {} /\ early' = <<>>
    BY <1>5 DEF Off, Discard
  <2>2. /\ disk'.acked = disk.acked /\ disk'.rows = <<>> /\ ~disk'.backfilled
    BY <1>1, <2>1 DEF DiskType
  <2>3. Agrees' /\ Recorded' = <<>> /\ LastSeq' = 0 /\ offered = 0
    BY <1>1, <1>2, <1>5, <2>1, <2>2, DiscardStep
  <2>4. RestInv'
    BY <1>1, <1>2, <2>1, <2>3, DiscardRest
  <2>5. BackfillInv'
    BY <2>1, <2>2 DEF BackfillInv
  <2>6. 0 \in offered..LastSeq /\ SubSeq(Recorded, 1, 0) = <<>>
    BY <1>1, <2>3, SubSeqEmpty
  <2> QED BY <1>2, <2>3, <2>4, <2>5, <2>6, WholeIsBuilt DEF Keeps
<1>6. CASE configured /\ ~Discardable
  <2>1. /\ disk' = [disk EXCEPT !.on = FALSE]
        /\ lost' = (IF NextSeq > 1 THEN [lost EXCEPT !.held = @ \cup Range(early)] ELSE lost)
        /\ UNCHANGED <<unflushed, secret>> /\ early' = <<>>
    BY <1>6 DEF Off, Pause
  <2>2. /\ disk'.acked = disk.acked /\ disk'.rows = disk.rows
        /\ disk'.attempted = disk.attempted /\ disk'.backfilled = disk.backfilled
        /\ disk'.stateRecorded = disk.stateRecorded
    BY <1>1, <2>1 DEF DiskType
  <2>3. Pending' = Pending
    BY <2>1, <2>2 DEF Pending
  <2>4. Agrees' /\ Recorded' = Recorded /\ LastSeq' = LastSeq
    BY <1>1, <1>2, <1>3, <2>2, <2>3, SameOutbox
  <2>5. NextSeq > 1 => Range(early) \subseteq Spent'
    <3>1. lost \in LostType
      BY DEF TypeInv, HistoryType
    <3>2. NextSeq > 1 => Range(early) \subseteq lost'.held
      BY <2>1, <3>1 DEF LostType
    <3> QED BY <3>2 DEF Spent, Lost
  <2>6. RestInv'
    BY <1>1, <1>2, <2>1, <2>2, <2>4, <2>5, RestDropped
  <2>7. BackfillInv'
    BY <1>1, <1>3, <2>1, <2>2, BackfillStays
  <2> QED BY <1>1, <1>2, <2>4, <2>6, <2>7, WholeIsBuilt DEF Keeps
<1> QED BY <1>4, <1>5, <1>6

\* A login records the state where the outbox may lack it.
LEMMA LoginStep ==
  ASSUME TypeInv, AnswerInv, WholeInv, TypeInv', AnswerInv', Requests' \subseteq Requests, Spent \subseteq Spent', Login
  PROVE  WholeInv' /\ Keeps
<1>1. /\ Agrees /\ BackfillInv /\ RestInv /\ Recorded \in Items /\ disk \in DiskType
  BY WholeIs
<1>2. web' = web /\ offered' = offered /\ UNCHANGED <<log, due, early, secret>>
  BY DEF Login, upload
<1>3. CASE disk.on /\ disk.backfilled /\ ~disk.stateRecorded /\ ~stopped
  <2>1. /\ CurrentState \in Items /\ Store(CurrentState, <<>>)
        /\ disk'.acked = disk.acked /\ disk'.rows = disk.rows
        /\ disk'.attempted = disk.attempted /\ disk'.backfilled = disk.backfilled
        /\ disk'.stateRecorded = ~stopped' /\ (~StateFits => disk'.skipped)
    BY <1>3, LoginIs DEF TypeInv
  <2>2. <<>> \in Items /\ early = <<>>
    BY <1>3, ItemsAre DEF TypeInv, SessionType
  <2>3. /\ Agrees' /\ Stored(CurrentState, <<>>) /\ (NextSeq > 1 => NextSeq' > 1)
        /\ \E kept \in Items : Recorded' = Recorded \o kept
    <3> HIDE DEF CurrentState
    <3> QED BY <1>1, <1>2, <2>1, <2>2, StoreStep
  <2>4. RestInv'
    BY <1>1, <1>2, <1>3, <2>1, <2>2, <2>3, LoginRest
  <2>5. BackfillInv'
    <3>1. disk'.acked + Len(disk'.rows) >= disk.acked + Len(disk.rows)
      BY <2>1, NumbersAre
    <3> QED BY <1>1, <1>3, <2>1, <3>1, BackfillStays
  <2> QED BY <1>2, <2>3, <2>4, <2>5, WholeIsBuilt DEF Keeps
<1>4. CASE ~(disk.on /\ disk.backfilled /\ ~disk.stateRecorded /\ ~stopped)
  <2>1. UNCHANGED <<disk, unflushed>>
    BY <1>4 DEF Login
  <2> QED BY <1>2, <2>1, QuietStep
<1> QED BY <1>3, <1>4

\* What is pending is committed, and the session shared again.
LEMMA CommitStep ==
  ASSUME TypeInv, AnswerInv, WholeInv, TypeInv', AnswerInv', Requests' \subseteq Requests, Spent \subseteq Spent',
         Flush \/ On \/ Checkpoint
  PROVE  WholeInv' /\ Keeps
<1>1. /\ disk \in DiskType /\ disk.acked \in Nat /\ Len(disk.rows) \in Nat
      /\ Len(Pending) = Len(disk.rows) + Len(unflushed) /\ Len(unflushed) \in Nat
      /\ Pending \in Items
  BY WholeIs, PendingIs DEF TypeInv
<1>2. UNCHANGED <<web, offered, log, early, due, secret>>
  BY DEF Flush, On, Checkpoint, upload, history
<1>3. CASE Flush
  <2>1. disk' = [disk EXCEPT !.rows = Pending] /\ unflushed' = <<>>
    BY <1>3 DEF Flush
  <2>2. /\ disk'.acked = disk.acked /\ disk'.rows = Pending
        /\ disk'.attempted = disk.attempted /\ disk'.backfilled = disk.backfilled
        /\ disk'.stateRecorded = disk.stateRecorded
    BY <1>1, <2>1 DEF DiskType
  <2>3. Pending' = Pending /\ Len(disk.rows) <= Len(disk'.rows)
    <3>1. Pending' = Pending \o <<>>
      BY <2>1, <2>2 DEF Pending
    <3>2. Len(disk.rows) <= Len(disk'.rows)
      BY <1>1, <2>2
    <3> QED BY <1>1, <3>1, <3>2, ItemsAre
  <2> QED BY <1>2, <2>1, <2>2, <2>3, SameStep
<1>4. CASE On
  <2>1. disk' = [disk EXCEPT !.on = TRUE] /\ unflushed' = unflushed
    BY <1>4 DEF On
  <2>2. /\ disk'.acked = disk.acked /\ disk'.rows = disk.rows
        /\ disk'.attempted = disk.attempted /\ disk'.backfilled = disk.backfilled
        /\ disk'.stateRecorded = disk.stateRecorded
    BY <1>1, <2>1 DEF DiskType
  <2>3. Pending' = Pending /\ Len(disk.rows) <= Len(disk'.rows)
    BY <1>1, <2>1, <2>2 DEF Pending
  <2> QED BY <1>2, <2>1, <2>2, <2>3, SameStep
<1>5. CASE Checkpoint
  <2>1. disk' = disk /\ unflushed' = unflushed
    BY <1>5 DEF Checkpoint
  <2> QED BY <1>2, <2>1, QuietStep
<1> QED BY <1>3, <1>4, <1>5

\* A page that is sent, and an answer that is handled.
LEMMA UploadsStep ==
  ASSUME TypeInv, AnswerInv, WholeInv, TypeInv', AnswerInv', [Next]_vars,
         Spent \subseteq Spent',
         Publish \/ Acknowledge \/ Recover
  PROVE  WholeInv' /\ Keeps
<1>1. /\ Agrees /\ BackfillInv /\ RestInv /\ Len(web) <= offered
      /\ Len(web) \in Nat /\ offered \in Nat /\ LastSeq \in Nat /\ disk \in DiskType
  BY WholeIs
<1>2. web' = web /\ UNCHANGED <<log, early, due, secret>>
  BY DEF Publish, Acknowledge, Recover, history
<1>3. /\ disk.acked \in Nat /\ Len(disk.rows) \in Nat
      /\ Len(Pending) = Len(disk.rows) + Len(unflushed) /\ Len(unflushed) \in Nat
  BY PendingIs DEF TypeInv
<1>4. CASE Publish
  <2>1. /\ Agrees' /\ Recorded' = Recorded /\ LastSeq' = LastSeq
        /\ offered <= offered' /\ offered' <= LastSeq
        /\ disk'.backfilled = disk.backfilled /\ disk'.stateRecorded = disk.stateRecorded
        /\ disk'.acked = disk.acked /\ Len(disk'.rows) = Len(Pending) /\ unflushed' = <<>>
    BY <1>1, <1>4, PublishStep
  <2>2. RestInv'
    BY <1>1, <1>2, <2>1, RestSame
  <2>3. disk'.acked + Len(disk'.rows) >= disk.acked + Len(disk.rows)
    BY <1>3, <2>1
  <2>4. BackfillInv'
    BY <1>1, <2>1, <2>3, BackfillStays
  <2>5. offered' \in offered..LastSeq
    BY <1>1, <2>1, NumbersNext
  <2> QED BY <1>2, <2>1, <2>2, <2>4, <2>5, WholeIsBuilt DEF Keeps
<1>5. CASE Acknowledge \/ Recover
  <2>1. /\ Agrees' /\ Recorded' = Recorded /\ LastSeq' = LastSeq
        /\ disk'.acked + Len(disk'.rows) >= disk.acked + Len(disk.rows)
        /\ unflushed' = <<>> \/ unflushed' = unflushed
    BY <1>1, <1>5, AnswerAgrees
  <2>2. disk'.backfilled = disk.backfilled /\ disk'.stateRecorded = disk.stateRecorded
    BY <1>5, AnswerStep
  <2>3. RestInv'
    BY <1>1, <1>2, <2>1, <2>2, RestSame
  <2>4. BackfillInv'
    BY <1>1, <2>1, <2>2, BackfillStays
  <2>5. offered' = offered /\ Len(web') \in Len(web)..offered
    BY <1>1, <1>2, <1>5 DEF Acknowledge, Recover
  <2> QED BY <2>1, <2>3, <2>4, <2>5, WholeIsBuilt DEF Keeps
<1> QED BY <1>4, <1>5

\* A request that arrives, awaited or not.
LEMMA ArrivalStep ==
  ASSUME TypeInv, AnswerInv, WholeInv, TypeInv', AnswerInv', Requests' \subseteq Requests, Spent \subseteq Spent',
         Arrive \/ \E request \in late : ArriveLate(request)
  PROVE  WholeInv' /\ Keeps
<1>1. /\ Agrees /\ BackfillInv /\ RestInv /\ Len(web) <= offered
      /\ Len(web) \in Nat /\ offered \in Nat /\ flight \in FlightType
      /\ disk.acked \in Nat /\ Len(disk.rows) \in Nat
  BY WholeIs, NumbersAre DEF TypeInv, UploadType
<1>2. UNCHANGED <<offered, log, early, due, secret, disk, unflushed>>
  BY DEF Arrive, ArriveLate, recording, history
<1>3. web' = web \/ \E request \in Requests : Accepted(request)
  <2>1. CASE Arrive /\ web' # web
    <3>1. Accepted(flight) /\ flight.items # <<>>
      BY <2>1 DEF Arrive, Refused
    <3> DEFINE request == [first |-> flight.first, items |-> flight.items]
    <3>2. request.first = flight.first /\ request.items = flight.items
      OBVIOUS
    <3>3. Accepted(request)
      BY <3>1, <3>2 DEF Accepted
    <3> QED BY <3>1, <3>3 DEF Requests
  <2>2. CASE (\E request \in late : ArriveLate(request)) /\ web' # web
    <3>1. PICK request \in late : ArriveLate(request)
      BY <2>2
    <3>2. Accepted(request) /\ request \in Requests
      BY <2>2, <3>1 DEF ArriveLate, Refused, Requests
    <3> QED BY <3>2
  <2> QED BY <2>1, <2>2
<1>4. CASE web' = web
  BY <1>2, <1>4, QuietStep
<1>5. ASSUME NEW request \in Requests, Accepted(request)
      PROVE  WholeInv' /\ Keeps
  <2>1. Agrees' /\ Recorded' = Recorded /\ LastSeq' = LastSeq /\ Len(web') <= offered
    BY <1>1, <1>2, <1>5, ShowStep
  <2>2. RestInv'
    BY <1>1, <1>2, <2>1, RestSame
  <2>3. BackfillInv'
    BY <1>1, <1>2, BackfillStays
  <2>4. Len(web') \in Len(web)..offered
    <3>1. /\ web \in Items /\ request.first \in Nat \ {0} /\ request.items \in Items
          /\ Accepted([first |-> request.first, items |-> request.items])
      BY <1>5, RequestsAre DEF TypeInv, UploadType, Request, Accepted
    <3>2. Len(web) <= Len(web')
      BY <3>1, AcceptedIs
    <3>3. Len(web') \in Nat
      BY NumbersNext
    <3> QED BY <1>1, <2>1, <3>2, <3>3
  <2> QED BY <1>2, <2>1, <2>2, <2>3, <2>4, WholeIsBuilt DEF Keeps
<1> QED BY <1>3, <1>4, <1>5

\* The daemon dies, also in the middle of the first backfill.
LEMMA CrashesStep ==
  ASSUME TypeInv, AnswerInv, WholeInv, TypeInv', AnswerInv', Requests' \subseteq Requests, Spent \subseteq Spent',
         Crash \/ CrashInBackfill
  PROVE  WholeInv' /\ Keeps
<1>1. /\ Agrees /\ BackfillInv /\ RestInv /\ Placed /\ disk \in DiskType
      /\ LastSeq \in Nat /\ offered \in Nat /\ disk.acked \in Nat /\ Len(disk.rows) \in Nat
  BY WholeIs, NumbersAre
<1>2. /\ UNCHANGED <<log, web, offered, due, secret>>
      /\ unflushed' = <<>> /\ early' = <<>>
  BY DEF Crash, CrashInBackfill, Restart
<1>3. CASE Crash
  <2>1. /\ disk' = disk /\ Range(unflushed) \subseteq Spent'
        /\ NextSeq > 1 => Range(early) \subseteq Spent'
    BY <1>3, CrashLost DEF Crash, Spent
  <2>2. /\ Agrees' /\ LastSeq' = disk.acked + Len(disk.rows) /\ LastSeq' <= LastSeq
        /\ Recorded' = SubSeq(Recorded, 1, LastSeq')
    BY <1>1, <1>2, <2>1, CutStep
  <2>3. RestInv'
    BY <1>1, <1>2, <2>1, <2>2, CrashRest
  <2>4. BackfillInv'
    BY <1>1, <1>2, <2>1, BackfillStays
  <2>5. LastSeq' \in offered..LastSeq
    <3>1. offered <= disk.acked + Len(disk.rows)
      BY <1>1 DEF Agrees
    <3>2. LastSeq' \in Nat
      BY NumbersNext
    <3> QED BY <1>1, <2>2, <3>1, <3>2
  <2> QED BY <1>2, <2>2, <2>3, <2>4, <2>5, WholeIsBuilt DEF Keeps
<1>4. CASE CrashInBackfill
  <2>1. disk' = Initialized /\ NextSeq = 1 /\ ~disk.backfilled
    BY <1>4 DEF CrashInBackfill
  <2>2. /\ disk'.acked = disk.acked /\ disk'.rows = Snapshot
        /\ disk'.attempted = disk.attempted /\ disk'.backfilled = disk.backfilled
        /\ SnapshotSkips => disk'.skipped
    BY <2>1, InitializedIs DEF TypeInv
  <2>3. Snapshot \in Items
    <3>1. log \in Seq(Kinds)
      BY DEF TypeInv, SessionType
    <3> QED BY <3>1, SnapshotIs
  <2>4. Agrees' /\ Recorded' = Snapshot /\ Recorded = <<>>
    BY <1>1, <1>2, <2>1, <2>2, <2>3, FirstStep
  <2>5. RestInv'
    BY <1>1, <1>2, <2>1, <2>2, <2>4, FirstRest
  <2>6. BackfillInv'
    BY <1>2, <2>1, <2>2 DEF BackfillInv
  <2>7. Recorded' = Recorded \o Snapshot
    BY <2>3, <2>4, ItemsAre
  <2> QED BY <1>2, <2>3, <2>4, <2>5, <2>6, <2>7, WholeIsBuilt DEF Keeps
<1> QED BY <1>3, <1>4

\* Every step but a power loss.
LEMMA WholeStep ==
  ASSUME TypeInv, AnswerInv, WholeInv, [Next]_vars, ~PowerLoss
  PROVE  WholeInv' /\ Keeps
<1>1. TypeInv' /\ AnswerInv' /\ Spent \subseteq Spent'
  BY TypeStep, SpentStays
<1>2. CASE Publish \/ Acknowledge \/ Recover
  BY <1>1, <1>2, UploadsStep
<1>3. CASE ~Publish
  <2>1. Requests' \subseteq Requests
    BY <1>3, RequestsStep
  <2>2. CASE \E kind \in Kinds : Change(kind)
    BY <1>1, <2>1, <2>2, ChangeStep
  <2>3. CASE Backfill \/ Off \/ Login
    BY <1>1, <2>1, <2>3, BackfillStep, OffStep, LoginStep
  <2>4. CASE Flush \/ On \/ Checkpoint
    BY <1>1, <2>1, <2>4, CommitStep
  <2>5. CASE Arrive \/ \E request \in late : ArriveLate(request)
    BY <1>1, <2>1, <2>5, ArrivalStep
  <2>6. CASE Crash \/ CrashInBackfill
    BY <1>1, <2>1, <2>6, CrashesStep
  <2>7. CASE Logout \/ Connect \/ Settle \/ Drop \/ Refuse \/ UNCHANGED vars
    <3>1. UNCHANGED <<web, offered, log, early, due, secret, disk, unflushed>>
      BY <2>7 DEF Logout, Connect, Settle, Drop, Refuse, recording, upload, history, vars
    <3> QED BY <1>1, <2>1, <3>1, QuietStep
  <2> QED BY <1>2, <2>2, <2>3, <2>4, <2>5, <2>6, <2>7 DEF Next
<1> QED BY <1>2, <1>3

-----------------------------------------------------------------------------
(* The theorems *)

\* The invariant holds at the start.
LEMMA Initially ==
  ASSUME Init
  PROVE  IInv /\ Recorded = <<>> /\ ~Broken
<1>1. /\ log = <<>> /\ disk = Nothing /\ checkpoint = Nothing
      /\ configured = FALSE /\ connected = FALSE
      /\ unflushed = <<>> /\ early = <<>> /\ stopped = FALSE
      /\ quarantined = FALSE /\ gap = NoGap /\ flight = NoFlight /\ late = {}
      /\ web = <<>> /\ offered = 0
      /\ counts = [choices |-> 0, faults |-> 0, power |-> 0]
      /\ due = {} /\ secret = {}
      /\ lost = [crash |-> {}, full |-> {}, early |-> {}, held |-> {}]
  BY DEF Init
<1>2. /\ NoFlight \in FlightType /\ NoFlight.items = <<>> /\ NoFlight.reply = "none"
      /\ NoGap \in GapType /\ Nothing \in DiskType /\ Nothing.acked = 0 /\ Nothing.rows = <<>>
      /\ ~Nothing.backfilled /\ ~Nothing.attempted
  BY FlightsAre
<1>3. <<>> \in Items /\ Len(<<>>) = 0 /\ <<>> \in Seq(Kinds) /\ <<>> \o <<>> = <<>>
  BY ItemsAre, EmptySeq
<1>4. TypeInv
  <2>1. SessionType
    <3>1. log \in Seq(Kinds) /\ Rev <= MaxChanges
      <4>1. log = <<>> /\ Len(log) = 0 /\ MaxChanges \in Nat
        BY <1>1, <1>3, PublicationAssumption
      <4>2. Rev <= MaxChanges
        BY <4>1 DEF Rev
      <4> QED BY <1>3, <4>1, <4>2
    <3>2. disk \in DiskType /\ checkpoint \in DiskType /\ ~disk.backfilled
      BY <1>1, <1>2
    <3>3. unflushed \in Items /\ early \in Items /\ stopped \in BOOLEAN
      BY <1>1, <1>3
    <3>4. \A i \in 1..Len(early) : early[i].rev \in 1..Rev
      <4>1. \A i \in 1..0 : FALSE
        OBVIOUS
      <4> QED BY <1>1, <1>3, <4>1
    <3> QED BY <3>1, <3>2, <3>3, <3>4 DEF SessionType
  <2>2. UploadType
    BY <1>1, <1>2, <1>3 DEF UploadType
  <2>3. HistoryType
    BY <1>1 DEF HistoryType, CountsType, LostType
  <2> QED BY <2>1, <2>2, <2>3 DEF TypeInv
<1>5. AnswerInv
  BY <1>1, <1>2, <1>3 DEF AnswerInv
<1>6. Pending = <<>> /\ LastSeq = 0 /\ NextSeq = 1 /\ Len(web) = 0 /\ disk.acked = 0
      /\ Len(disk.rows) = 0
  BY <1>1, <1>2, <1>3 DEF Pending, LastSeq, NextSeq
<1>7. /\ Len(web) <= LastSeq
      /\ \A n \in disk.acked + 1 .. Len(web) : web[n] = Pending[n - disk.acked]
  BY <1>6
<1>8. Recorded = <<>>
  <2>1. Placed
    BY <1>4, <1>5, <1>7, RecordedIs DEF Tight
  <2> QED BY <1>6, <2>1, ItemsAre DEF Placed
<1>9. Agrees
  <2>1. Requests = {}
    BY <1>1, <1>2 DEF Requests
  <2> QED BY <1>1, <1>6, <1>7, <2>1 DEF Agrees
<1>10. /\ Range(Recorded) = {} /\ Range(early) = {}
       /\ Len(Recorded) = 0 /\ Len(early) = 0
  BY <1>1, <1>3, <1>8, RangeNone
<1>11. BackfillInv
  BY <1>1, <1>2 DEF BackfillInv
<1>12. OrderInv
  <2>1. \A i \in 1..0 : FALSE
    OBVIOUS
  <2> QED BY <1>10, <2>1 DEF OrderInv, Ascend
<1>13. SecretInv /\ DueInv /\ MessagesInv /\ StateInv
  BY <1>1, <1>6, <1>10 DEF SecretInv, DueInv, MessagesInv, StateInv
<1>14. ~Broken
  BY <1>1 DEF Broken
<1> QED BY <1>4, <1>5, <1>8, <1>9, <1>11, <1>12, <1>13, <1>14 DEF IInv, WholeInv

\* Power that was lost stays lost.
LEMMA PowerStep ==
  ASSUME TypeInv, [Next]_vars
  PROVE  /\ PowerLoss => Broken'
         /\ ~PowerLoss => counts'.power = counts.power
         /\ ~Broken' => ~Broken /\ ~PowerLoss
<1>1. counts \in CountsType /\ counts.power \in Nat
  BY DEF TypeInv, HistoryType, CountsType
<1>2. ASSUME PowerLoss
      PROVE  counts'.power = counts.power + 1
  BY <1>1, <1>2 DEF PowerLoss, CountsType
<1>3. ASSUME ~PowerLoss
      PROVE  counts'.power = counts.power
  <2>1. CASE UNCHANGED counts
    BY <2>1
  <2>2. CASE Choose \/ Fault
    BY <1>1, <2>2 DEF Choose, Fault, CountsType
  <2>3. UNCHANGED counts \/ Choose \/ Fault
    BY <1>3 DEF Next, vars, Change, Flush, Backfill, On, Off, Login, Logout, Connect, Publish,
       Arrive, Acknowledge, Recover, Settle, ArriveLate, Drop, Refuse, Crash, CrashInBackfill,
       Checkpoint
  <2> QED BY <2>1, <2>2, <2>3
<1> QED BY <1>1, <1>2, <1>3 DEF Broken

\* Every step keeps the invariant.
LEMMA InvariantStep == IInv /\ [Next]_vars => IInv'
<1> SUFFICES ASSUME IInv, [Next]_vars
             PROVE  IInv'
  OBVIOUS
<1>1. TypeInv /\ AnswerInv /\ (~Broken => WholeInv)
  BY DEF IInv
<1>2. TypeInv' /\ AnswerInv'
  BY <1>1, TypeStep
<1>3. ASSUME ~Broken'
      PROVE  WholeInv'
  <2>1. ~Broken /\ ~PowerLoss
    BY <1>1, <1>3, PowerStep
  <2> QED BY <1>1, <2>1, WholeStep
<1> QED BY <1>2, <1>3 DEF IInv

\* The invariant that all the others follow from.
THEOREM Invariant == Spec => []IInv
<1>1. Init => IInv
  BY Initially
<1>2. IInv /\ [Next]_vars => IInv'
  BY InvariantStep
<1> QED BY <1>1, <1>2, PTL DEF Spec

\* The types of the invariant are those of the module.
LEMMA TypesHold ==
  ASSUME TypeInv
  PROVE  TypeOK
<1>1. \A d \in DiskType :
        /\ DOMAIN d = DOMAIN Nothing
        /\ d.acked \in Nat
        /\ \A i \in DOMAIN d.rows : d.rows[i] \in [kind : Kinds \cup {"rest"}, rev : Nat]
  <2>1. ASSUME NEW d \in DiskType
        PROVE  DOMAIN d = DOMAIN Nothing
    BY DEF DiskType, Nothing
  <2>2. ASSUME NEW d \in DiskType
        PROVE  d.acked \in Nat /\ \A i \in DOMAIN d.rows : d.rows[i] \in OneItem
    BY DiskIs, ItemsAre
  <2> QED BY <2>1, <2>2 DEF OneItem
<1>2. flight.reply \in {"none", "ok", "gap"} /\ flight.seq \in Nat
  BY FlightIs DEF TypeInv, UploadType
<1>3. disk \in DiskType /\ checkpoint \in DiskType
  BY DEF TypeInv, SessionType
<1> QED BY <1>1, <1>2, <1>3 DEF TypeOK, TypeInv, SessionType, UploadType

\* Every variable has its type, and what is held ends with the backfill.
THEOREM PublicationTypes == Spec => []TypeOK
<1>1. IInv => TypeOK
  BY TypesHold DEF IInv
<1> QED BY <1>1, Invariant, PTL

\* The outbox never runs ahead of the web, and what the web has beyond it is
\* what the outbox holds at the same numbers.
THEOREM Agreed == Spec => []Agreement
<1>1. IInv => Agreement
  <2> SUFFICES ASSUME IInv
               PROVE  Agreement
    OBVIOUS
  <2>1. TypeInv /\ AnswerInv /\ (~Broken => Agrees)
    BY DEF IInv, WholeInv
  <2>2. ~Broken => Tight
    BY <2>1, AgreesIsTight
  <2> QED BY <2>1, <2>2, TypesHold DEF Agreement, AnswerInv, Tight
<1> QED BY <1>1, Invariant, PTL

\* The web shows the messages that were shared, and no others, in the order
\* of the session and each once.
THEOREM WebShowsIt == Spec => []WebShowsTheSession
<1>1. IInv => WebShowsTheSession
  <2> SUFFICES ASSUME IInv, ~Broken
               PROVE  /\ \A i \in DOMAIN web : web[i].kind = "message" => web[i].rev \notin secret
                      /\ \A i, j \in DOMAIN web :
                           (i < j /\ web[i].kind = "message" /\ web[j].kind = "message") =>
                             web[i].rev < web[j].rev
    BY DEF WebShowsTheSession, StaysHome, InOrder
  <2>1. /\ TypeInv /\ AnswerInv /\ RestInv /\ Placed /\ Recorded \in Items
        /\ Len(Recorded) = LastSeq /\ Len(web) <= LastSeq /\ Len(web) \in Nat /\ LastSeq \in Nat
    <3>1. TypeInv /\ AnswerInv /\ WholeInv
      BY DEF IInv
    <3>2. /\ RestInv /\ Placed /\ Recorded \in Items /\ Len(Recorded) = LastSeq
          /\ Len(web) <= offered /\ offered <= LastSeq
          /\ Len(web) \in Nat /\ LastSeq \in Nat /\ offered \in Nat
      BY <3>1, WholeIs
    <3> QED BY <3>1, <3>2
  <2>2. DOMAIN web = 1..Len(web)
    BY <2>1, ItemsAre DEF TypeInv, UploadType
  <2>3. \A i \in DOMAIN web : i \in 1..Len(Recorded) /\ web[i] = Recorded[i]
    BY <2>1, <2>2 DEF Placed
  <2>4. \A i \in DOMAIN web : web[i] \in Range(Recorded)
    BY <2>1, <2>3, RangeIs
  <2>5. \A i \in DOMAIN web : web[i].kind = "message" => web[i].rev \notin secret
    BY <2>1, <2>4 DEF RestInv, SecretInv
  <2>6. \A i, j \in DOMAIN web :
          (i < j /\ web[i].kind = "message" /\ web[j].kind = "message") =>
            web[i].rev < web[j].rev
    BY <2>1, <2>3 DEF RestInv, OrderInv, Ascend
  <2> QED BY <2>5, <2>6
<1> QED BY <1>1, Invariant, PTL

\* Nothing that was due is skipped, a message or the state, unless a crash
\* took it, the outbox was full, the buffer before a torn backfill overflowed or
\* was dropped by the user, or it cannot be encoded and the record says so.
THEOREM NothingIsSkipped == Spec => []NothingSkipped
<1>1. IInv => NothingSkipped
  <2> SUFFICES ASSUME IInv, ~Broken
               PROVE  NothingSkipped
    BY DEF NothingSkipped, MessagesAreRecorded, StateIsRecorded
  <2>1. /\ TypeInv /\ AnswerInv /\ RestInv /\ BackfillInv /\ Recorded \in Items
        /\ LastSeq \in Nat
    BY WholeIs DEF IInv
  <2>2. /\ DOMAIN Recorded = 1..Len(Recorded)
        /\ Range(Recorded) = {Recorded[i] : i \in 1..Len(Recorded)}
    BY <2>1, ItemsAre, RangeIs
  <2>3. \A item \in Range(early) : item.rev \in RevsOf(early)
    BY <2>1, RangeIs, RevsAre DEF TypeInv, SessionType
  <2>4. \A item \in Spent : item.rev \in GivenUp(Lost, item.kind)
    <3>1. \A item \in Lost : item.rev \in GivenUp(Lost, item.kind)
      BY DEF GivenUp
    <3>2. ASSUME NEW item \in OneItem, disk.skipped, item.rev \in 1..Rev, item.rev \in Unfit,
                 log[item.rev] = item.kind
          PROVE  item.rev \in GivenUp(Lost, item.kind)
      <4>1. DOMAIN log = 1..Rev
        BY <2>1, LenProperties DEF TypeInv, SessionType, Rev
      <4> QED BY <3>2, <4>1 DEF GivenUp
    <3> QED BY <3>1, <3>2 DEF Spent
  <2>5. /\ NextSeq = LastSeq + 1
        /\ disk.backfilled => NextSeq > 1
    <3>1. /\ disk.acked \in Nat /\ Len(disk.rows) \in Nat /\ Len(unflushed) \in Nat
          /\ LastSeq = disk.acked + Len(disk.rows) + Len(unflushed) /\ NextSeq = LastSeq + 1
      BY <2>1, NumbersAre
    <3>2. CASE disk.backfilled
      <4>1. disk.acked + Len(disk.rows) > 0
        BY <2>1, <3>2 DEF BackfillInv
      <4> QED BY <3>1, <4>1
    <3> QED BY <3>1, <3>2
  <2>6. ASSUME ~(~disk.backfilled /\ NextSeq = 1), NEW item \in due, item.kind # "state"
        PROVE  item.rev \in RecordedMessages \cup RevsOf(early) \cup GivenUp(Lost, "message")
    <3>1. NextSeq > 1
      BY <2>1, <2>5, <2>6
    <3>2. item.kind = "message"
      BY <2>1, <2>6, DueIs DEF RestInv
    <3>3. \/ item.rev \in GivenUp(Lost, "message")
          \/ item \in Range(Recorded) \cup Range(early)
      BY <2>1, <2>4, <2>6, <3>1, <3>2 DEF RestInv, MessagesInv
    <3>4. CASE item \in Range(Recorded)
      <4>1. PICK i \in DOMAIN Recorded : item = Recorded[i]
        BY <2>2, <3>4
      <4>2. item.rev \in RecordedMessages
        BY <3>2, <4>1 DEF RecordedMessages
      <4> QED BY <4>2
    <3> QED BY <2>3, <3>3, <3>4
  <2>7. MessagesAreRecorded
    BY <2>6 DEF MessagesAreRecorded
  <2>8. ASSUME disk.backfilled, disk.stateRecorded, NEW item \in due, item.kind = "state",
               \A r \in GivenUp(Lost, "state") : r < item.rev
        PROVE  \E i \in DOMAIN Recorded : Recorded[i].kind = "state" /\ Recorded[i].rev >= item.rev
    <3>1. /\ item.rev \in Nat /\ early = <<>>
          /\ \A x \in Spent : x.rev \in Nat
      <4>1. item.rev \in Nat /\ early = <<>>
        BY <2>1, <2>8, DueIs DEF RestInv, TypeInv, SessionType
      <4>2. Spent \subseteq OneItem
        BY <2>1 DEF Spent, Lost, TypeInv, HistoryType, LostType
      <4> QED BY <4>1, <4>2, RevIs
    <3>2. ~Excused(item.rev)
      BY <2>4, <2>8, <3>1 DEF Excused
    <3>3. Range(early) = {}
      BY <3>1, RangeNone
    <3>4. StateSince(item.rev, Recorded)
      BY <2>1, <2>5, <2>8, <3>2, <3>3 DEF RestInv, StateInv
    <3> QED BY <2>2, <3>4 DEF StateSince
  <2>9. StateIsRecorded
    BY <2>8 DEF StateIsRecorded, StateIsOnItsWay
  <2> QED BY <2>7, <2>9 DEF NothingSkipped
<1> QED BY <1>1, Invariant, PTL

\* A step of publication is a step of module Channel, or none.
LEMMA PromiseStep ==
  ASSUME IInv, [Next]_vars
  PROVE  [Promise!Next]_(Promise!vars)
<1>1. TypeInv /\ AnswerInv /\ (~Broken => WholeInv)
  BY DEF IInv
<1>2. CASE Broken'
  BY <1>2 DEF Promise!Next, Promise!Break
<1>3. CASE ~Broken'
  <2>1. ~Broken /\ ~PowerLoss /\ Broken' = Broken
    BY <1>1, <1>3, PowerStep DEF Broken
  <2>2. Keeps
    BY <1>1, <2>1, WholeStep
  <2>3. /\ Recorded \in Items /\ Len(Recorded) = LastSeq /\ LastSeq \in Nat
        /\ Len(web) \in Nat /\ offered \in Nat
    BY <1>1, <2>1, WholeIs
  <2>4. CASE Recorded' = Recorded /\ offered' = offered /\ Len(web') \in Len(web)..offered
    <3>1. Len(web') = Len(web) \/ Len(web') \in Len(web) + 1 .. offered
      BY <2>3, <2>4
    <3>2. CASE Len(web') = Len(web)
      BY <2>1, <2>4, <3>2 DEF Promise!vars
    <3>3. CASE Len(web') \in Len(web) + 1 .. offered
      BY <2>1, <2>4, <3>3 DEF Promise!Next, Promise!Deliver
    <3> QED BY <3>1, <3>2, <3>3
  <2>5. CASE Recorded' = Recorded /\ offered' \in offered..LastSeq /\ web' = web
    <3>1. offered' = offered \/ offered' \in offered + 1 .. Len(Recorded)
      BY <2>3, <2>5
    <3>2. CASE offered' = offered
      BY <2>1, <2>5, <3>2 DEF Promise!vars
    <3>3. CASE offered' \in offered + 1 .. Len(Recorded)
      BY <2>1, <2>5, <3>3 DEF Promise!Next, Promise!Offer
    <3> QED BY <3>1, <3>2, <3>3
  <2>6. CASE web' = web /\ offered' = offered /\ \E items \in Items : Recorded' = Recorded \o items
    <3>1. PICK items \in Items : Recorded' = Recorded \o items
      BY <2>6
    <3>2. CASE items = <<>>
      <4>1. Recorded' = Recorded
        BY <2>3, <3>1, <3>2, ItemsAre
      <4> QED BY <2>1, <2>6, <4>1 DEF Promise!vars
    <3>3. CASE items # <<>>
      <4>1. Len(items) \in Nat /\ Len(items) # 0
        BY <3>3, ItemsAre
      <4>2. /\ Recorded' \in Items /\ Len(Recorded') = Len(Recorded) + Len(items)
            /\ \A i \in 1..Len(Recorded) : Recorded'[i] = Recorded[i]
        BY <2>3, <3>1, Joined
      <4>3. Len(Recorded') > Len(Recorded)
        BY <2>3, <4>1, <4>2
      <4>4. SubSeq(Recorded', 1, Len(Recorded)) = Recorded
        <5> DEFINE n == Len(Recorded)
                   p == SubSeq(Recorded', 1, n)
        <5>1. 1 \in Nat \ {0} /\ n \in 0..Len(Recorded') /\ n \in Nat
          BY <2>3, <4>2, <4>1
        <5>2. /\ p \in Items /\ Len(p) = (IF 1 <= n THEN n - 1 + 1 ELSE 0)
              /\ \A i \in 1..Len(p) : p[i] = Recorded'[1 + i - 1]
          BY <4>2, <5>1, Part
        <5>3. Len(p) = n
          <6> HIDE DEF p
          <6>1. \A i \in Nat : (IF 1 <= i THEN i - 1 + 1 ELSE 0) = i
            OBVIOUS
          <6> QED BY <5>1, <5>2, <6>1
        <5>4. \A i \in 1..n : 1 + i - 1 = i
          BY <5>1
        <5>5. \A i \in 1..Len(p) : p[i] = Recorded[i]
          <6> HIDE DEF p
          <6> QED BY <4>2, <5>2, <5>3, <5>4
        <5> HIDE DEF p
        <5> QED BY <2>3, <5>2, <5>3, <5>5, Same DEF p
      <4> QED BY <2>1, <2>6, <4>3, <4>4 DEF Promise!Next, Promise!Record, Promise!Prefix
    <3> QED BY <3>2, <3>3
  <2>7. CASE web' = web /\ offered' = offered
             /\ \E n \in offered..LastSeq : Recorded' = SubSeq(Recorded, 1, n)
    <3>1. \E n \in offered..Len(Recorded) : Recorded' = Promise!Prefix(Recorded, n)
      BY <2>3, <2>7 DEF Promise!Prefix
    <3> QED BY <2>1, <2>7, <3>1 DEF Promise!Next, Promise!GiveUp
  <2> QED BY <2>2, <2>4, <2>5, <2>6, <2>7 DEF Keeps
<1> QED BY <1>2, <1>3

\* Publication keeps the promise: items are recorded at the end, offered from
\* the front and shown in that order, and none that was offered moves.
THEOREM PublicationRefinement == Spec => PromiseKept
<1>1. Init => Promise!Init
  <2> SUFFICES ASSUME Init
               PROVE  Promise!Init
    OBVIOUS
  <2>1. Recorded = <<>> /\ Broken = FALSE
    BY Initially DEF Broken
  <2>2. offered = 0 /\ Len(web) = 0
    BY ItemsAre DEF Init
  <2> QED BY <2>1, <2>2 DEF Promise!Init
<1>2. IInv /\ [Next]_vars => [Promise!Next]_(Promise!vars)
  BY PromiseStep
<1> QED BY <1>1, <1>2, Invariant, PTL DEF Spec, PromiseKept, Promise!Spec
-----------------------------------------------------------------------------
(* Gaps.  The platform answers with the number it has, and the connector     *)
(* gives a session up when that answer cannot be true or comes again.       *)

\* Numbers are moved behind the platform's only after a power loss; an answer
\* either is plausible or names a gap that the connector recovers from, unless
\* numbers were moved before in the same recovery: without a power loss no
\* sequence gap ever quarantines a session (connector.ts:833-875).
GapsHeal ==
  /\ ~Broken => ~gap.forwarded
  /\ flight.reply # "none" => Plausible \/ Recoverable \/ gap.forwarded

\* A recovery leaves the cursor at what the platform has said, and the answer to
\* what is sent from there on says more.
GapInv ==
  /\ gap.open => gap.lastSeq <= disk.acked
  /\ flight.reply # "none" => flight.seq >= flight.first
  /\ ~Broken => ~gap.forwarded

\* What the answer to a request says of the outbox.
LEMMA AnswerSays ==
  ASSUME IInv, GapInv, flight.reply # "none"
  PROVE  /\ flight.seq > disk.acked
         /\ gap.open => flight.seq > gap.lastSeq
         /\ ~Broken => flight.seq < NextSeq
<1>1. /\ TypeInv /\ AnswerInv /\ disk.acked \in Nat /\ Len(web) \in Nat /\ LastSeq \in Nat
      /\ NextSeq = LastSeq + 1 /\ flight.seq \in Nat
  BY NumbersAre, FlightIs DEF IInv, TypeInv, UploadType
<1>2. flight.first = disk.acked + 1 /\ flight.seq <= Len(web)
  BY <1>1 DEF AnswerInv
<1>3. flight.seq > disk.acked
  BY <1>1, <1>2 DEF GapInv
<1>4. ASSUME gap.open PROVE flight.seq > gap.lastSeq
  <2>1. gap.lastSeq \in Nat
    BY <1>1 DEF TypeInv, UploadType, GapType
  <2> QED BY <1>1, <1>3, <1>4, <2>1 DEF GapInv
<1>5. ASSUME ~Broken PROVE flight.seq < NextSeq
  <2>1. Len(web) <= LastSeq
    BY <1>1, <1>5, AgreesIsTight DEF IInv, WholeInv, Tight
  <2> QED BY <1>1, <1>2, <2>1
<1> QED BY <1>3, <1>4, <1>5

\* Every step but those of an upload: the cursor stays or the recovery is over.
LEMMA GapStays ==
  ASSUME IInv, GapInv, [Next]_vars, ~Publish, ~Arrive, ~Acknowledge, ~Recover
  PROVE  GapInv'
<1>1. TypeInv /\ AnswerInv /\ disk \in DiskType
  BY DEF IInv, TypeInv, SessionType
<1>2. ~Broken' => ~Broken
  BY <1>1, PowerStep
<1>3. (flight' = flight /\ disk'.acked = disk.acked) \/ flight' = NoFlight
  BY <1>1, FlightStays
<1>4. \/ gap' = NoGap
      \/ gap' = gap /\ disk'.acked = disk.acked
  <2>1. CASE \E kind \in Kinds : Change(kind)
    <3>1. disk'.acked = disk.acked
      BY <1>1, <2>1, CursorStays
    <3> QED BY <2>1, <3>1 DEF Change, upload
  <2>2. CASE Backfill
    BY <1>1, <2>2, BackfillTypes DEF Backfill, upload
  <2>3. CASE On \/ Off \/ Login
    BY <1>1, <2>3, ChoiceTypes DEF On, Off, Login, upload
  <2>4. CASE Flush
    <3>1. disk' = [disk EXCEPT !.rows = Pending]
      BY <2>4 DEF Flush
    <3> QED BY <1>1, <2>4, <3>1 DEF Flush, upload, DiskType
  <2>5. CASE Logout \/ Connect \/ Settle \/ Drop \/ Refuse \/ Checkpoint
    BY <2>5 DEF Logout, Connect, Settle, Drop, Refuse, Checkpoint, upload, recording
  <2>6. CASE Crash \/ CrashInBackfill \/ PowerLoss
    BY <2>6 DEF Crash, CrashInBackfill, PowerLoss, Restart
  <2>7. CASE (\E request \in late : ArriveLate(request)) \/ UNCHANGED vars
    BY <2>7 DEF ArriveLate, vars, upload, recording
  <2> QED BY <2>1, <2>2, <2>3, <2>4, <2>5, <2>6, <2>7 DEF Next
<1>5. ~NoGap.open /\ ~NoGap.forwarded /\ NoFlight.reply = "none"
  BY DEF NoGap, NoFlight
<1> QED BY <1>2, <1>3, <1>4, <1>5 DEF GapInv

\* The steps of an upload.
LEMMA GapMoves ==
  ASSUME IInv, GapInv, Publish \/ Arrive \/ Acknowledge \/ Recover
  PROVE  GapInv'
<1>1. /\ TypeInv /\ AnswerInv /\ disk \in DiskType /\ flight \in FlightType
      /\ disk.acked \in Nat /\ Len(web) \in Nat /\ LastSeq \in Nat /\ NextSeq = LastSeq + 1
      /\ flight.seq \in Nat /\ flight.items \in Items /\ web \in Items
  BY NumbersAre, FlightIs DEF IInv, TypeInv, SessionType, UploadType
<1>2. Broken' = Broken
  BY DEF Publish, Arrive, Acknowledge, Recover, Broken
<1>3. NoFlight.reply = "none" /\ ~NoGap.open /\ ~NoGap.forwarded
  BY DEF NoFlight, NoGap
<1>4. CASE Publish
  <2>1. /\ disk' = [disk EXCEPT !.rows = Pending, !.attempted = TRUE]
        /\ flight' = [NoFlight EXCEPT !.first = disk.acked + 1, !.items = Page]
        /\ gap' = gap
    BY <1>4 DEF Publish, Attempted
  <2>2. disk'.acked = disk.acked /\ flight'.reply = "none"
    BY <1>1, <2>1 DEF DiskType, NoFlight
  <2> QED BY <1>2, <2>1, <2>2 DEF GapInv
<1>5. CASE Arrive
  <2>1. /\ disk' = disk /\ gap' = gap /\ flight.items # <<>>
        /\ flight.first = disk.acked + 1 /\ disk.acked <= Len(web)
    BY <1>1, <1>5 DEF Arrive, recording, AnswerInv
  <2>2. flight'.first = flight.first /\ flight'.seq >= flight.first
    <3>1. CASE /\ Accepted(flight)
               /\ flight' = [flight EXCEPT !.reply = "ok", !.seq = Len(web')]
      <4>1. Accepted([first |-> flight.first, items |-> flight.items])
        BY <3>1 DEF Accepted
      <4>2. flight.first \in Nat \ {0}
        BY <1>1, <2>1
      <4>3. /\ web' \in Items /\ Len(web) <= Len(web')
            /\ Len(web') = IF flight.first + Len(flight.items) - 1 > Len(web)
                             THEN flight.first + Len(flight.items) - 1 ELSE Len(web)
        BY <1>1, <4>1, <4>2, AcceptedIs
      <4>4. Len(flight.items) \in Nat /\ Len(flight.items) # 0 /\ Len(web') \in Nat
        BY <1>1, <2>1, <4>3, ItemsAre
      <4>5. Len(web') >= flight.first
        BY <1>1, <2>1, <4>2, <4>3, <4>4
      <4>6. flight'.first = flight.first /\ flight'.seq = Len(web')
        BY <1>1, <3>1 DEF FlightType
      <4> QED BY <4>5, <4>6
    <3>2. CASE /\ Refused(flight)
               /\ flight' = [flight EXCEPT !.reply = "gap", !.seq = Len(web)]
      <4>1. flight'.first = flight.first /\ flight'.seq = Len(web)
        BY <1>1, <3>2 DEF FlightType
      <4>2. Len(web) >= flight.first
        BY <1>1, <2>1, <3>2 DEF Refused
      <4> QED BY <4>1, <4>2
    <3> QED BY <1>5, <3>1, <3>2 DEF Arrive
  <2> QED BY <1>2, <2>1, <2>2 DEF GapInv
<1>6. CASE Acknowledge
  <2>1. gap' = NoGap /\ flight' = NoFlight
    BY <1>6 DEF Acknowledge
  <2> QED BY <1>3, <2>1 DEF GapInv
<1>7. CASE Recover
  <2>1. flight' = NoFlight /\ flight.reply # "none"
    BY <1>7 DEF Recover
  <2>2. CASE Recoverable
    <3> DEFINE u == gap.forwarded \/ flight.seq >= NextSeq
    <3>1. /\ gap' = [open |-> TRUE, lastSeq |-> flight.seq, forwarded |-> u]
          /\ disk' = IF flight.seq >= NextSeq THEN FastForward(flight.seq)
                                              ELSE Acknowledged(flight.seq)
      BY <1>7, <2>2 DEF Recover
    <3>2. disk'.acked = flight.seq
      BY <1>1, <3>1 DEF FastForward, Acknowledged, DiskType
    <3>3. ~Broken => ~u
      <4>1. ~Broken => flight.seq < NextSeq
        BY <2>1, AnswerSays
      <4> QED BY <1>1, <4>1 DEF GapInv
    <3> HIDE DEF u
    <3>4. gap'.lastSeq = flight.seq /\ (gap'.forwarded <=> u)
      BY <3>1, Zenon
    <3> QED BY <1>1, <1>2, <1>3, <2>1, <3>2, <3>3, <3>4 DEF GapInv
  <2>3. CASE ~Recoverable
    <3>1. disk' = disk /\ gap' = gap
      BY <1>7, <2>3 DEF Recover
    <3> QED BY <1>2, <1>3, <2>1, <3>1 DEF GapInv
  <2> QED BY <2>2, <2>3
<1> QED BY <1>4, <1>5, <1>6, <1>7

\* Without a power loss no sequence gap quarantines a session, and after one
\* only a second move of its numbers in one recovery.
THEOREM GapsAreHealed == Spec => []GapsHeal
<1>1. Init => GapInv
  BY DEF Init, GapInv, NoGap, NoFlight
<1>2. IInv /\ GapInv /\ [Next]_vars => GapInv'
  BY GapStays, GapMoves
<1>3. IInv /\ GapInv => GapsHeal
  <2> SUFFICES ASSUME IInv, GapInv, flight.reply # "none", ~gap.forwarded
               PROVE  Recoverable
    BY DEF GapsHeal, GapInv
  <2>1. /\ disk.acked \in Nat /\ flight.seq \in Nat /\ gap.lastSeq \in Nat
    BY NumbersAre, FlightIs DEF IInv, TypeInv, UploadType, GapType
  <2>2. flight.seq > disk.acked /\ (gap.open => flight.seq > gap.lastSeq)
    BY AnswerSays
  <2> QED BY <2>1, <2>2 DEF Recoverable
<1> QED BY <1>1, <1>2, <1>3, Invariant, PTL DEF Spec
=============================================================================
