-------------------------- MODULE ExecutionsProofs --------------------------
(***************************************************************************)
(* Theorems about Executions, for every value of its constants: types, the *)
(* slots, what a parent port holds, the refinement of Tasks, what a close  *)
(* leaves behind, live jobs, silenced notices, and rows that wait.         *)
(***************************************************************************)
EXTENDS Executions, FiniteSetTheorems, TLAPS

States == {"absent", "queued", "running", "done"}

Row == [state : States, parent : Session, end : Ends, pending : BOOLEAN, turn : 0 .. MaxTurns]

\* A row counts its turns once it is there, and owes a notice only at an end that
\* somebody wants to hear of.
RowInv(r) ==
  \A e \in Execution :
    /\ r[e].state = "absent" <=> r[e].turn = 0
    /\ r[e].pending => r[e].state = "done" /\ e \in Notify

Rows(r) == r \in [Execution -> Row] /\ RowInv(r)

\* An end of the rows r: an earlier turn's, or the last turn's once it is over.
OverIn(r, n) == n[2] < r[n[1]].turn \/ (n[2] = r[n[1]].turn /\ r[n[1]].state = "done")

\* A notice in the port, or on its way to the transcript, is of an end, untold, and in one
\* of the two places.
PortInv(r, w, s, t) ==
  /\ w \subseteq Notice /\ s \subseteq Notice /\ t \in [Notice -> Nat]
  /\ w \cap s = {}
  /\ \A n \in w \cup s : OverIn(r, n) /\ t[n] = 0

\* What holds `control` may go on: a row that is opened is not there yet, one that
\* is activated is, one that is continued has ended and has turns left.
ControlInv ==
  \A e \in Execution :
    /\ Starting(e, "opening") => row[e].state = "absent"
    /\ Starting(e, "activating") => row[e].state # "absent"
    /\ Continuing(e) => row[e].state = "done" /\ row[e].turn < MaxTurns

IInv ==
  /\ TypeOK
  /\ RowInv(row)
  /\ PortInv(row, waiting, sent, told)
  /\ ControlInv
  /\ SlotsFit
-----------------------------------------------------------------------------
(* Rows that end, and what the port makes of it.                           *)

\* A row x that ends, with u saying whether somebody wants to hear of it.
EndedTo(x, end, u) == [x EXCEPT !.state = "done", !.end = end, !.pending = u]

\* One row that ends.
LEMMA EndedRow ==
  ASSUME NEW x \in Row, NEW end \in Ends, NEW u \in BOOLEAN
  PROVE  /\ EndedTo(x, end, u) \in Row
         /\ EndedTo(x, end, u).state = "done"
         /\ EndedTo(x, end, u).turn = x.turn
         /\ EndedTo(x, end, u).parent = x.parent
         /\ EndedTo(x, end, u).pending = u
<1>1. EndedTo(x, end, u) \in Row
  BY DEF EndedTo, Row, States
<1>2. EndedTo(x, end, u).state = "done"
  BY DEF EndedTo, Row, States
<1>3. EndedTo(x, end, u).turn = x.turn
  BY DEF EndedTo, Row, States
<1>4. EndedTo(x, end, u).parent = x.parent
  BY DEF EndedTo, Row, States
<1>5. EndedTo(x, end, u).pending = u
  BY DEF EndedTo, Row, States
<1> QED
  BY <1>1, <1>2, <1>3, <1>4, <1>5, Zenon

\* The rows q are r after those of S have ended.
EndsOf(r, q, S) ==
  \A e \in Execution :
    /\ q[e].turn = r[e].turn /\ q[e].parent = r[e].parent
    /\ e \in S => q[e].state = "done"
    /\ e \notin S => q[e] = r[e]
    /\ e \in S /\ e \in Notify => q[e].pending

\* Rows that are there end: they stay rows, in their turn.
LEMMA EndedRows ==
  ASSUME NEW r, Rows(r), NEW S, \A e \in S : e \in Execution /\ r[e].state # "absent",
         NEW end \in Ends
  PROVE  /\ Rows(Ended(r, S, end))
         /\ EndsOf(r, Ended(r, S, end), S)
<1> DEFINE q == Ended(r, S, end)
<1>1. ASSUME NEW e \in Execution
      PROVE  /\ q[e] \in Row
             /\ q[e].turn = r[e].turn /\ q[e].parent = r[e].parent
             /\ e \in S => q[e].state = "done"
             /\ e \notin S => q[e] = r[e]
             /\ e \in S => (q[e].pending <=> e \in Notify)
  <2>1. r[e] \in Row
    BY DEF Rows
  <2>2. CASE e \in S
    <3> DEFINE u == e \in Notify
    <3>1. q[e] = EndedTo(r[e], end, u)
      BY <2>2, Zenon DEF Ended, EndedTo
    <3>2. u \in BOOLEAN
      OBVIOUS
    <3>3. u <=> e \in Notify
      BY Zenon
    <3> HIDE DEF u, q
    <3>4. /\ EndedTo(r[e], end, u) \in Row
          /\ EndedTo(r[e], end, u).state = "done"
          /\ EndedTo(r[e], end, u).turn = r[e].turn
          /\ EndedTo(r[e], end, u).parent = r[e].parent
          /\ EndedTo(r[e], end, u).pending = u
      BY <2>1, <3>2, EndedRow, Zenon
    <3> QED
      BY <2>2, <3>1, <3>3, <3>4, Zenon
  <2>3. CASE e \notin S
    <3>1. q[e] = r[e]
      BY <2>3, Zenon DEF Ended
    <3> QED
      BY <2>1, <2>3, <3>1, Zenon
  <2> QED
    BY <2>2, <2>3, Zenon
<1>2. q \in [Execution -> Row]
  <2>1. q = [e \in Execution |-> q[e]]
    BY DEF Ended
  <2> HIDE DEF q
  <2> QED
    BY <2>1, <1>1, Zenon
<1>3. RowInv(q)
  <2> SUFFICES ASSUME NEW e \in Execution
               PROVE  /\ q[e].state = "absent" <=> q[e].turn = 0
                      /\ q[e].pending => q[e].state = "done" /\ e \in Notify
    BY Zenon DEF RowInv
  <2>1. /\ r[e].state = "absent" <=> r[e].turn = 0
        /\ r[e].pending => r[e].state = "done" /\ e \in Notify
    BY Zenon DEF Rows, RowInv
  <2> HIDE DEF q
  <2>2. CASE e \in S
    BY <1>1, <2>1, <2>2, Zenon
  <2>3. CASE e \notin S
    BY <1>1, <2>1, <2>3, Zenon
  <2> QED
    BY <2>2, <2>3, Zenon
<1> HIDE DEF q
<1>4. Rows(q)
  BY <1>2, <1>3, Zenon DEF Rows
<1> QED
  BY <1>1, <1>4, Zenon DEF q, EndsOf

\* The port of rows some of which end.
LEMMA EndedPort ==
  ASSUME NEW r, Rows(r), NEW S, \A e \in S : e \in Execution /\ r[e].state # "absent",
         NEW end \in Ends, NEW w, NEW s, NEW t, PortInv(r, w, s, t)
  PROVE  PortInv(Ended(r, S, end), w, s, t)
<1> DEFINE q == Ended(r, S, end)
<1>1. \A e \in Execution : /\ q[e].turn = r[e].turn
                           /\ e \in S => q[e].state = "done"
                           /\ e \notin S => q[e] = r[e]
  <2>1. EndsOf(r, Ended(r, S, end), S)
    BY EndedRows
  <2> QED
    BY <2>1, Zenon DEF EndsOf
<1> HIDE DEF q
<1>2. ASSUME NEW n \in w \cup s
      PROVE  OverIn(q, n) /\ t[n] = 0
  <2>1. OverIn(r, n) /\ t[n] = 0 /\ n \in Notice
    BY Zenon DEF PortInv
  <2>2. n[1] \in Execution
    BY <2>1 DEF Notice
  <2>3. /\ q[n[1]].turn = r[n[1]].turn
        /\ r[n[1]].state = "done" => q[n[1]].state = "done"
    BY <1>1, <2>2, Zenon
  <2> QED
    BY <2>1, <2>3, Zenon DEF OverIn
<1> QED
  BY <1>2, Zenon DEF PortInv, q

\* The rows q are in the states and turns of r.
SameTurns(r, q) ==
  \A e \in Execution :
    q[e].state = r[e].state /\ q[e].turn = r[e].turn /\ q[e].parent = r[e].parent

\* A row whose notice is settled.
LEMMA SettledRow ==
  ASSUME NEW x \in Row
  PROVE  /\ [x EXCEPT !.pending = FALSE] \in Row
         /\ [x EXCEPT !.pending = FALSE].state = x.state
         /\ [x EXCEPT !.pending = FALSE].turn = x.turn
         /\ [x EXCEPT !.pending = FALSE].parent = x.parent
         /\ ~[x EXCEPT !.pending = FALSE].pending
<1>1. [x EXCEPT !.pending = FALSE] \in Row
  BY DEF Row
<1>2. /\ [x EXCEPT !.pending = FALSE].state = x.state
      /\ [x EXCEPT !.pending = FALSE].turn = x.turn
      /\ [x EXCEPT !.pending = FALSE].parent = x.parent
  BY DEF Row
<1>3. ~[x EXCEPT !.pending = FALSE].pending
  BY DEF Row
<1> QED
  BY <1>1, <1>2, <1>3, Zenon

\* The rows q are r with the notices of the executions of D settled.
SettledIn(r, q, D) ==
  q = [e \in Execution |-> IF e \in D THEN [r[e] EXCEPT !.pending = FALSE] ELSE r[e]]

\* Settling a notice leaves rows in their turns.
LEMMA SettledRows ==
  ASSUME NEW r, Rows(r), NEW D, NEW q, SettledIn(r, q, D)
  PROVE  /\ Rows(q) /\ SameTurns(r, q)
         /\ \A e \in Execution : e \notin D => q[e] = r[e]
<1>1. ASSUME NEW e \in Execution
      PROVE  /\ q[e] \in Row
             /\ q[e].state = r[e].state /\ q[e].turn = r[e].turn /\ q[e].parent = r[e].parent
             /\ q[e].pending => r[e].pending
             /\ e \notin D => q[e] = r[e]
  <2>1. r[e] \in Row
    BY DEF Rows
  <2>2. CASE e \in D
    <3>1. q[e] = [r[e] EXCEPT !.pending = FALSE]
      BY <2>2, Zenon DEF SettledIn
    <3> QED
      BY <2>1, <2>2, <3>1, SettledRow, Zenon
  <2>3. CASE e \notin D
    <3>1. q[e] = r[e]
      BY <2>3, Zenon DEF SettledIn
    <3> QED
      BY <2>1, <3>1, Zenon
  <2> QED
    BY <2>2, <2>3, Zenon
<1>2. q \in [Execution -> Row]
  <2>1. q = [e \in Execution |-> q[e]]
    BY DEF SettledIn
  <2> QED
    BY <2>1, <1>1, Zenon
<1>3. RowInv(q)
  <2> SUFFICES ASSUME NEW e \in Execution
               PROVE  /\ q[e].state = "absent" <=> q[e].turn = 0
                      /\ q[e].pending => q[e].state = "done" /\ e \in Notify
    BY Zenon DEF RowInv
  <2>1. /\ r[e].state = "absent" <=> r[e].turn = 0
        /\ r[e].pending => r[e].state = "done" /\ e \in Notify
    BY Zenon DEF Rows, RowInv
  <2> QED
    BY <1>1, <2>1, Zenon
<1> QED
  BY <1>1, <1>2, <1>3, Zenon DEF Rows, SameTurns

\* What is on its way to a transcript depends on states and turns only.
LEMMA SentKept ==
  ASSUME NEW r, NEW q, SameTurns(r, q), NEW n \in Notice, OverIn(r, n)
  PROVE  OverIn(q, n)
<1>1. n[1] \in Execution
  BY DEF Notice
<1>2. q[n[1]].turn = r[n[1]].turn /\ q[n[1]].state = r[n[1]].state
  BY <1>1, Zenon DEF SameTurns
<1> QED
  BY <1>2, Zenon DEF OverIn

\* A row whose end is owed has a turn to be told of.
LEMMA NoticeTyped ==
  ASSUME NEW r, Rows(r), NEW e \in Execution, r[e].pending
  PROVE  NoticeOf(r, e) \in Notice /\ NoticeOf(r, e)[1] = e /\ r[e].state = "done"
<1>1. r[e].state = "done" /\ ~(r[e].turn = 0)
  <2>1. /\ r[e].state = "absent" <=> r[e].turn = 0
        /\ r[e].pending => r[e].state = "done" /\ e \in Notify
    BY Zenon DEF Rows, RowInv
  <2>2. ~("done" = "absent")
    OBVIOUS
  <2> QED
    BY <2>1, <2>2, Zenon
<1>2. r[e].turn \in 0 .. MaxTurns
  BY DEF Rows, Row
<1>3. r[e].turn \in Turn
  BY <1>1, <1>2, ExecutionsAssumption DEF Turn
<1>4. NoticeOf(r, e) = <<e, r[e].turn>>
  BY Zenon DEF NoticeOf
<1> HIDE DEF NoticeOf
<1>5. NoticeOf(r, e) \in Notice /\ NoticeOf(r, e)[1] = e
  BY <1>3, <1>4 DEF Notice
<1> QED
  BY <1>1, <1>5, Zenon

\* So does a row that is done.
LEMMA TurnTyped ==
  ASSUME NEW r, Rows(r), NEW e \in Execution, r[e].state = "done"
  PROVE  NoticeOf(r, e) \in Notice
<1>1. ~(r[e].turn = 0)
  <2>1. r[e].state = "absent" <=> r[e].turn = 0
    BY Zenon DEF Rows, RowInv
  <2> QED
    BY <2>1
<1>2. r[e].turn \in 0 .. MaxTurns
  BY DEF Rows, Row
<1>3. r[e].turn \in Turn
  BY <1>1, <1>2, ExecutionsAssumption DEF Turn
<1> QED
  BY <1>3 DEF Notice, NoticeOf

\* deliver leaves the rows in their turns and offers the port nothing it should
\* not hold.
LEMMA DeliverKeeps ==
  ASSUME NEW r, Rows(r), NEW S \in SUBSET Execution, PortInv(r, waiting, sent, told),
         retry \subseteq Execution, Deliver(r, S), UNCHANGED <<told, sent>>
  PROVE  /\ Rows(row') /\ SameTurns(r, row')
         /\ PortInv(row', waiting', sent', told')
         /\ retry' \subseteq Execution
<1> DEFINE due == IF host[Root] = "active"
                  THEN {e \in S : r[e].pending /\ r[e].parent \in resident} ELSE {}
           open == {e \in due : Dispatchable(r[e].parent)}
           done == {e \in open : Delivered(NoticeOf(r, e))}
           new == {NoticeOf(r, e) : e \in open \ done} \ sent
<1>1. /\ SettledIn(r, row', done)
      /\ waiting' = waiting \cup new
      /\ retry' = (retry \ S) \cup (due \ done)
  BY Zenon DEF Deliver, SettledIn
<1>2. due \subseteq S /\ \A e \in open : r[e].pending
  BY Zenon
<1>3. \A e \in open : (e \in done) <=> told[NoticeOf(r, e)] > 0
  BY DEF Delivered
<1>4. done \subseteq open /\ open \subseteq due
  BY Zenon
<1>5. \A n \in new : n \notin sent /\ \E e \in open : e \notin done /\ n = NoticeOf(r, e)
  BY Zenon
<1> HIDE DEF due, open, done, new
<1>6. /\ Rows(row') /\ SameTurns(r, row')
      /\ \A e \in Execution : e \notin done => row'[e] = r[e]
  <2>1. SettledIn(r, row', done) /\ Rows(r)
    BY <1>1, Zenon
  <2> QED
    BY <2>1, SettledRows
<1>7. /\ waiting \subseteq Notice /\ sent \subseteq Notice /\ told \in [Notice -> Nat]
      /\ waiting \cap sent = {}
  BY Zenon DEF PortInv
<1>8. ASSUME NEW n \in waiting'
      PROVE  n \in Notice /\ n \notin sent /\ OverIn(row', n) /\ told[n] = 0
  <2>1. CASE n \in waiting
    <3>1. OverIn(r, n) /\ told[n] = 0 /\ n \in Notice /\ n \notin sent
      BY <2>1, <1>7, Zenon DEF PortInv
    <3> QED
      BY <1>6, <3>1, SentKept, Zenon
  <2>2. CASE n \in new
    <3>1. PICK e \in open : e \notin done /\ n = NoticeOf(r, e)
      BY <2>2, <1>5, Zenon
    <3>2. e \in Execution /\ r[e].pending
      BY <1>2, <1>4, Zenon
    <3>3. n \in Notice /\ n[1] = e /\ r[e].state = "done"
      BY <3>1, <3>2, NoticeTyped, Zenon
    <3>4. told[n] \in Nat /\ ~(told[n] > 0)
      BY <3>1, <3>3, <1>3, <1>7
    <3>5. told[n] = 0
      BY <3>4
    <3>6. n[2] = r[n[1]].turn
      BY <3>1, <3>3 DEF NoticeOf
    <3>7. OverIn(r, n)
      BY <3>3, <3>6, Zenon DEF OverIn
    <3>8. OverIn(row', n)
      BY <1>6, <3>3, <3>7, SentKept, Zenon
    <3> QED
      BY <2>2, <1>5, <3>3, <3>5, <3>8, Zenon
  <2> QED
    BY <2>1, <2>2, <1>1, Zenon
<1>9. ASSUME NEW n \in sent
      PROVE  OverIn(row', n) /\ told[n] = 0
  <2>1. OverIn(r, n) /\ told[n] = 0 /\ n \in Notice
    BY <1>7, Zenon DEF PortInv
  <2> QED
    BY <2>1, <1>6, SentKept, Zenon
<1>10. waiting' \subseteq Notice /\ waiting' \cap sent = {}
  BY <1>8, Zenon
<1>11. PortInv(row', waiting', sent, told)
  <2>1. \A n \in waiting' \cup sent : OverIn(row', n) /\ told[n] = 0
    BY <1>8, <1>9, Zenon
  <2> QED
    BY <1>7, <1>10, <2>1, Zenon DEF PortInv
<1>12. sent' = sent /\ told' = told
  BY Zenon
<1>13. retry' \subseteq Execution
  BY <1>1, <1>2, Zenon
<1> QED
  BY <1>6, <1>11, <1>12, <1>13, Zenon

-----------------------------------------------------------------------------
(* What each step does to rows and port.                                   *)

\* Rows that are queued or run may end, nothing else happens to the turns.
EndsSome(r, q) ==
  \A e \in Execution :
    /\ q[e].turn = r[e].turn /\ q[e].parent = r[e].parent
    /\ q[e].state # r[e].state => r[e].state \in {"queued", "running"} /\ q[e].state = "done"

\* Rows in the same turns: none ended.
LEMMA SameEndsNone ==
  ASSUME NEW r, NEW q, SameTurns(r, q)
  PROVE  EndsSome(r, q)
  BY Zenon DEF SameTurns, EndsSome

\* Rows that end and are told of afterwards.
LEMMA EndsThenSame ==
  ASSUME NEW r, NEW q, NEW p, EndsSome(r, q), SameTurns(q, p)
  PROVE  EndsSome(r, p)
<1> SUFFICES ASSUME NEW e \in Execution
             PROVE  /\ p[e].turn = r[e].turn /\ p[e].parent = r[e].parent
                    /\ p[e].state # r[e].state =>
                         r[e].state \in {"queued", "running"} /\ p[e].state = "done"
  BY Zenon DEF EndsSome
<1>1. p[e].turn = q[e].turn /\ p[e].parent = q[e].parent /\ p[e].state = q[e].state
  BY Zenon DEF SameTurns
<1>2. /\ q[e].turn = r[e].turn /\ q[e].parent = r[e].parent
      /\ q[e].state # r[e].state => r[e].state \in {"queued", "running"} /\ q[e].state = "done"
  BY Zenon DEF EndsSome
<1> QED
  BY <1>1, <1>2, Zenon

\* Rows of S, unfinished or ended before, that end.
LEMMA EndedEndsSome ==
  ASSUME NEW r, Rows(r), NEW S, \A e \in S : e \in Execution /\ r[e].state # "absent",
         NEW end \in Ends
  PROVE  EndsSome(r, Ended(r, S, end))
<1> SUFFICES ASSUME NEW e \in Execution
             PROVE  /\ Ended(r, S, end)[e].turn = r[e].turn
                    /\ Ended(r, S, end)[e].parent = r[e].parent
                    /\ Ended(r, S, end)[e].state # r[e].state =>
                         /\ r[e].state \in {"queued", "running"}
                         /\ Ended(r, S, end)[e].state = "done"
  BY Zenon DEF EndsSome
<1>1. EndsOf(r, Ended(r, S, end), S)
  BY EndedRows
<1>2. /\ Ended(r, S, end)[e].turn = r[e].turn
      /\ Ended(r, S, end)[e].parent = r[e].parent
      /\ e \in S => Ended(r, S, end)[e].state = "done"
      /\ e \notin S => Ended(r, S, end)[e] = r[e]
  BY <1>1, Zenon DEF EndsOf
<1>3. r[e].state \in States
  BY DEF Rows, Row
<1>4. CASE e \in S
  <2>1. r[e].state # "absent"
    BY <1>4
  <2> QED
    BY <1>2, <1>3, <1>4, <2>1 DEF States
<1>5. CASE e \notin S
  BY <1>2, <1>5, Zenon
<1> QED
  BY <1>4, <1>5, Zenon

\* A port that loses notices holds nothing it should not.
LEMMA PortShrinks ==
  ASSUME NEW r, NEW w, NEW s, NEW t, PortInv(r, w, s, t),
         NEW v \in SUBSET w, NEW u \in SUBSET s
  PROVE  PortInv(r, v, u, t)
  BY Zenon DEF PortInv

\* The rows of a state with the invariant.
LEMMA RowsNow ==
  ASSUME TypeOK, RowInv(row)
  PROVE  Rows(row)
<1>1. row \in [Execution -> Row]
  BY Zenon DEF TypeOK, Row, States
<1> QED
  BY <1>1, Zenon DEF Rows

\* What a step leaves of rows and port.
StoreNext ==
  /\ Rows(row')
  /\ PortInv(row', waiting', sent', told')
  /\ retry' \subseteq Execution /\ silenced' \subseteq Notice

\* A spawned row: the first turn of an execution nobody was told of.
LEMMA SessionStartsStore ==
  ASSUME IInv, NEW e \in Execution, SessionStarts(e)
  PROVE  /\ StoreNext
         /\ row[e].state = "absent" /\ row'[e].state = "queued"
         /\ row[e].turn = 0 /\ row'[e].turn = 1
         /\ row'[e].parent = control.parent
         /\ \A d \in Execution \ {e} : row'[d] = row[d]
<1> DEFINE x == [NoRow EXCEPT !.state = "queued", !.parent = control.parent, !.turn = 1]
<1>1. /\ Rows(row) /\ PortInv(row, waiting, sent, told)
      /\ retry \subseteq Execution /\ silenced \subseteq Notice
  BY RowsNow, Zenon DEF IInv, TypeOK
<1>2. row[e].state = "absent"
  BY Zenon DEF IInv, ControlInv, SessionStarts
<1>3. row[e].turn = 0
  BY <1>1, <1>2, Zenon DEF Rows, RowInv
<1>4. control.parent \in Session
  BY DEF IInv, TypeOK, SessionStarts, Starting, Free
<1>5. x \in Row /\ x.state = "queued" /\ x.turn = 1 /\ x.parent = control.parent
  <2>1. 1 \in 0 .. MaxTurns
    BY ExecutionsAssumption
  <2> QED
    BY <1>4, <2>1 DEF NoRow, Row, States, Ends
<1>6. x.pending = FALSE
  BY DEF NoRow
<1>7. row' = [row EXCEPT ![e] = x]
  BY Zenon DEF SessionStarts
<1> HIDE DEF x
<1>8. /\ row' \in [Execution -> Row] /\ row'[e] = x
      /\ \A d \in Execution \ {e} : row'[d] = row[d]
  BY <1>1, <1>5, <1>7 DEF Rows
<1>9. RowInv(row')
  <2> SUFFICES ASSUME NEW d \in Execution
               PROVE  /\ row'[d].state = "absent" <=> row'[d].turn = 0
                      /\ row'[d].pending => row'[d].state = "done" /\ d \in Notify
    BY Zenon DEF RowInv
  <2>1. CASE d = e
    <3>1. ~(x.state = "absent") /\ ~(x.turn = 0) /\ ~x.pending
      BY <1>5, <1>6
    <3> QED
      BY <1>8, <2>1, <3>1, Zenon
  <2>2. CASE d # e
    BY <1>1, <1>8, <2>2, Zenon DEF Rows, RowInv
  <2> QED
    BY <2>1, <2>2, Zenon
<1>11. ASSUME NEW n \in waiting \cup sent
       PROVE  OverIn(row', n) /\ told[n] = 0
  <2>1. OverIn(row, n) /\ told[n] = 0 /\ n \in Notice
    BY <1>1, Zenon DEF PortInv
  <2>2. n[1] \in Execution /\ n[2] \in Turn
    BY <2>1 DEF Notice
  <2>3. n[1] # e
    <3>1. SUFFICES ASSUME n[1] = e PROVE FALSE
      BY Zenon
    <3>2. n[2] < 0 \/ row[e].state = "done"
      BY <1>3, <2>1, <3>1, Zenon DEF OverIn
    <3> QED
      BY <1>2, <2>2, <3>2 DEF Turn
  <2>4. row'[n[1]] = row[n[1]]
    BY <1>8, <2>2, <2>3, Zenon
  <2> QED
    BY <2>1, <2>4, Zenon DEF OverIn
<1>12. waiting' = waiting /\ sent' = sent /\ told' = told /\ retry' = retry /\ silenced' = silenced
  BY Zenon DEF SessionStarts, port
<1>13. PortInv(row', waiting, sent, told)
  BY <1>1, <1>11, Zenon DEF PortInv
<1>14. StoreNext
  BY <1>1, <1>8, <1>9, <1>12, <1>13, Zenon DEF StoreNext, Rows
<1> QED
  BY <1>2, <1>3, <1>5, <1>8, <1>14, Zenon

\* A spawn that is over: its row waits in the queue, or ends.
LEMMA SpawnEndsStore ==
  ASSUME IInv, NEW e \in Execution, SpawnEnds(e)
  PROVE  StoreNext /\ EndsSome(row, row')
<1>1. /\ Rows(row) /\ PortInv(row, waiting, sent, told)
      /\ retry \subseteq Execution /\ silenced \subseteq Notice
  BY RowsNow, Zenon DEF IInv, TypeOK
<1>2. row[e].state # "absent"
  BY Zenon DEF IInv, ControlInv, SpawnEnds
<1>3. /\ waiting' = waiting /\ sent' = sent /\ told' = told /\ retry' = retry
      /\ silenced' \subseteq silenced
  BY Zenon DEF SpawnEnds
<1>9. silenced' \subseteq Notice
  BY <1>1, <1>3, Zenon
<1>4. row' = Ended(row, {e}, "host_shutdown") \/ row' = row
  BY Zenon DEF SpawnEnds
<1>5. "host_shutdown" \in Ends
  BY DEF Ends
<1>6. \A d \in {e} : d \in Execution /\ row[d].state # "absent"
  BY <1>2, Zenon
<1>7. CASE row' = row
  <2>1. SameTurns(row, row')
    BY <1>7, Zenon DEF SameTurns
  <2> QED
    BY <1>1, <1>3, <1>7, <1>9, <2>1, SameEndsNone, Zenon DEF StoreNext
<1>8. CASE row' = Ended(row, {e}, "host_shutdown")
  <2>1. Rows(row')
    BY <1>1, <1>5, <1>6, <1>8, EndedRows
  <2>2. PortInv(row', waiting, sent, told)
    BY <1>1, <1>5, <1>6, <1>8, EndedPort
  <2>3. EndsSome(row, row')
    BY <1>1, <1>5, <1>6, <1>8, EndedEndsSome
  <2> QED
    BY <1>1, <1>3, <1>9, <2>1, <2>2, <2>3, Zenon DEF StoreNext
<1> QED
  BY <1>4, <1>7, <1>8, Zenon

\* A continuation: another turn, and nothing of the earlier ends is held back.
LEMMA SteerEndsStore ==
  ASSUME IInv, NEW e \in Execution, SteerEnds(e)
  PROVE  /\ StoreNext
         /\ row[e].state = "done" /\ row'[e].state = "queued"
         /\ row'[e].turn = row[e].turn + 1 /\ row'[e].parent = row[e].parent
         /\ \A d \in Execution \ {e} : row'[d] = row[d]
<1> DEFINE x == [row[e] EXCEPT !.state = "queued", !.end = "none", !.pending = FALSE,
                               !.turn = @ + 1]
<1>1. /\ Rows(row) /\ PortInv(row, waiting, sent, told)
      /\ retry \subseteq Execution /\ silenced \subseteq Notice
  BY RowsNow, Zenon DEF IInv, TypeOK
<1>2. row[e].state = "done" /\ row[e].turn < MaxTurns
  BY Zenon DEF IInv, ControlInv, SteerEnds
<1>3. row[e] \in Row
  BY <1>1, Zenon DEF Rows
<1>4. x \in Row /\ x.state = "queued" /\ x.turn = row[e].turn + 1 /\ x.parent = row[e].parent
  <2>1. row[e].turn + 1 \in 0 .. MaxTurns
    BY <1>2, <1>3, ExecutionsAssumption DEF Row
  <2> QED
    BY <1>3, <2>1 DEF Row, States, Ends
<1>5. x.pending = FALSE
  BY <1>3 DEF Row
<1>6. row' = [row EXCEPT ![e] = x]
  BY DEF SteerEnds
<1> HIDE DEF x
<1>7. /\ row' \in [Execution -> Row] /\ row'[e] = x
      /\ \A d \in Execution \ {e} : row'[d] = row[d]
  BY <1>1, <1>4, <1>6 DEF Rows
<1>8. RowInv(row')
  <2> SUFFICES ASSUME NEW d \in Execution
               PROVE  /\ row'[d].state = "absent" <=> row'[d].turn = 0
                      /\ row'[d].pending => row'[d].state = "done" /\ d \in Notify
    BY Zenon DEF RowInv
  <2>1. CASE d = e
    <3>1. row[e].turn \in Nat
      BY <1>3 DEF Row
    <3>2. ~(x.state = "absent") /\ ~(x.turn = 0) /\ ~x.pending
      BY <1>4, <1>5, <3>1
    <3> QED
      BY <1>7, <2>1, <3>2, Zenon
  <2>2. CASE d # e
    BY <1>1, <1>7, <2>2, Zenon DEF Rows, RowInv
  <2> QED
    BY <2>1, <2>2, Zenon
<1>10. ASSUME NEW n \in waiting \cup sent
       PROVE  OverIn(row', n) /\ told[n] = 0
  <2>1. OverIn(row, n) /\ told[n] = 0 /\ n \in Notice
    BY <1>1, Zenon DEF PortInv
  <2>2. n[1] \in Execution /\ n[2] \in Nat
    BY <2>1 DEF Notice, Turn
  <2>3. CASE n[1] = e
    <3>1. row[e].turn \in Nat
      BY <1>3 DEF Row
    <3>2. n[2] < row[e].turn \/ n[2] = row[e].turn
      BY <2>1, <2>3, Zenon DEF OverIn
    <3>3. n[2] < row[e].turn + 1
      BY <2>2, <3>1, <3>2
    <3>4. row'[n[1]].turn = row[e].turn + 1
      BY <1>4, <1>7, <2>3, Zenon
    <3>5. n[2] < row'[n[1]].turn
      BY <3>3, <3>4, Zenon
    <3> QED
      BY <2>1, <3>5, Zenon DEF OverIn
  <2>4. CASE n[1] # e
    <3>1. row'[n[1]] = row[n[1]]
      BY <1>7, <2>2, <2>4, Zenon
    <3> QED
      BY <2>1, <3>1, Zenon DEF OverIn
  <2> QED
    BY <2>3, <2>4, Zenon
<1>11. sent' = sent /\ told' = told
  BY Zenon DEF SteerEnds
<1>12. retry' \subseteq Execution
  <2>1. retry' = (retry \ {e}) \cup Attached(e)
    BY Zenon DEF SteerEnds
  <2> QED
    BY <1>1, <2>1 DEF Attached, ChildrenOf, Known
<1>13. waiting' \subseteq waiting
  BY Zenon DEF SteerEnds, Suppressed
<1>14. PortInv(row', waiting', sent, told)
  BY <1>1, <1>10, <1>13, Zenon DEF PortInv
<1>16. silenced' \subseteq Notice
  <2>1. NoticeOf(row, e) \in Notice
    BY <1>1, <1>2, TurnTyped
  <2>2. silenced' = Silenced(e)
    BY Zenon DEF SteerEnds
  <2> QED
    BY <1>1, <2>1, <2>2, Zenon DEF Silenced
<1>15. StoreNext
  BY <1>7, <1>8, <1>11, <1>12, <1>14, <1>16, Zenon DEF StoreNext, Rows
<1> QED
  BY <1>2, <1>4, <1>7, <1>15, Zenon

\* Rows that start: the same turn, nothing owed.
LEMMA ScanStore ==
  ASSUME IInv, Scan
  PROVE  /\ StoreNext
         /\ \E S \in SUBSET Eligible :
              /\ Starts(S)
              /\ \A e \in Execution : /\ row'[e].turn = row[e].turn
                                      /\ row'[e].parent = row[e].parent
                                      /\ e \in S => row'[e].state = "running"
                                      /\ e \notin S => row'[e] = row[e]
              /\ job' = [e \in Execution |-> IF e \in S THEN "scheduled" ELSE job[e]]
<1>1. /\ Rows(row) /\ PortInv(row, waiting, sent, told)
      /\ retry \subseteq Execution /\ silenced \subseteq Notice
  BY RowsNow, Zenon DEF IInv, TypeOK
<1>2. PICK S \in SUBSET Eligible :
        /\ Starts(S)
        /\ row' = [e \in Execution |-> IF e \in S THEN [row[e] EXCEPT !.state = "running"] ELSE row[e]]
        /\ job' = [e \in Execution |-> IF e \in S THEN "scheduled" ELSE job[e]]
  BY Zenon DEF Scan
<1>3. \A e \in S : e \in Execution /\ row[e].state = "queued"
  BY Zenon DEF Eligible, Queued
<1>4. ASSUME NEW e \in Execution
      PROVE  /\ row'[e] \in Row
             /\ row'[e].turn = row[e].turn /\ row'[e].parent = row[e].parent
             /\ e \in S => row'[e].state = "running"
             /\ row'[e].pending <=> row[e].pending
             /\ e \notin S => row'[e] = row[e]
  <2>1. row[e] \in Row
    BY <1>1, Zenon DEF Rows
  <2>2. CASE e \in S
    <3>1. row'[e] = [row[e] EXCEPT !.state = "running"]
      BY <1>2, <2>2, Zenon
    <3>2. [row[e] EXCEPT !.state = "running"] \in Row
      BY <2>1 DEF Row, States
    <3>3. /\ [row[e] EXCEPT !.state = "running"].state = "running"
          /\ [row[e] EXCEPT !.state = "running"].turn = row[e].turn
          /\ [row[e] EXCEPT !.state = "running"].parent = row[e].parent
      BY <2>1 DEF Row
    <3>4. [row[e] EXCEPT !.state = "running"].pending = row[e].pending
      BY <2>1 DEF Row
    <3> QED
      BY <2>2, <3>1, <3>2, <3>3, <3>4, Zenon
  <2>3. CASE e \notin S
    <3>1. row'[e] = row[e]
      BY <1>2, <2>3, Zenon
    <3> QED
      BY <2>1, <2>3, <3>1, Zenon
  <2> QED
    BY <2>2, <2>3, Zenon
<1>5. row' \in [Execution -> Row]
  <2>1. row' = [e \in Execution |-> row'[e]]
    BY <1>2
  <2> QED
    BY <1>4, <2>1, Zenon
<1>6. RowInv(row')
  <2> SUFFICES ASSUME NEW e \in Execution
               PROVE  /\ row'[e].state = "absent" <=> row'[e].turn = 0
                      /\ row'[e].pending => row'[e].state = "done" /\ e \in Notify
    BY Zenon DEF RowInv
  <2>1. /\ row[e].state = "absent" <=> row[e].turn = 0
        /\ row[e].pending => row[e].state = "done" /\ e \in Notify
    BY <1>1, Zenon DEF Rows, RowInv
  <2>2. CASE e \in S
    <3>1. /\ ~(row[e].state = "absent") /\ ~(row[e].state = "done")
          /\ ~(row'[e].state = "absent")
      BY <1>3, <1>4, <2>2
    <3> QED
      BY <1>4, <2>1, <3>1, Zenon
  <2>3. CASE e \notin S
    BY <1>4, <2>1, <2>3, Zenon
  <2> QED
    BY <2>2, <2>3, Zenon
<1>8. ASSUME NEW n \in waiting \cup sent
      PROVE  OverIn(row', n) /\ told[n] = 0
  <2>1. OverIn(row, n) /\ told[n] = 0 /\ n \in Notice
    BY <1>1, Zenon DEF PortInv
  <2>2. n[1] \in Execution
    BY <2>1 DEF Notice
  <2>3. row[n[1]].state = "done" => n[1] \notin S
    BY <1>3
  <2>4. /\ row'[n[1]].turn = row[n[1]].turn
        /\ row[n[1]].state = "done" => row'[n[1]].state = "done"
    BY <1>4, <2>2, <2>3, Zenon
  <2> QED
    BY <2>1, <2>4, Zenon DEF OverIn
<1>9. /\ waiting' = waiting /\ sent' = sent /\ told' = told /\ retry' = retry
      /\ silenced' = silenced
  BY Zenon DEF Scan, port
<1>10. PortInv(row', waiting, sent, told)
  BY <1>1, <1>8, Zenon DEF PortInv
<1>11. StoreNext
  BY <1>1, <1>5, <1>6, <1>9, <1>10, Zenon DEF StoreNext, Rows
<1> QED
  BY <1>2, <1>4, <1>11, Zenon

\* A turn that is over: its row ends, unless it has ended before.
LEMMA RunEndsStore ==
  ASSUME IInv, NEW e \in Execution, NEW end \in {"completed", "failed"}, RunEnds(e, end)
  PROVE  StoreNext /\ EndsSome(row, row') /\ row'[e].state # "running"
<1> DEFINE q == RunEnd(e, end)
<1>1. /\ Rows(row) /\ PortInv(row, waiting, sent, told)
      /\ retry \subseteq Execution /\ silenced \subseteq Notice
  BY RowsNow, Zenon DEF IInv, TypeOK
<1>2. end \in Ends
  BY DEF Ends
<1>3. /\ Rows(q) /\ PortInv(q, waiting, sent, told) /\ EndsSome(row, q)
      /\ q[e].state # "running"
  <2>1. CASE e \in Unfinished
    <3>1. q = Ended(row, {e}, end)
      BY <2>1, Zenon DEF RunEnd
    <3>2. \A d \in {e} : d \in Execution /\ row[d].state # "absent"
      BY <2>1 DEF Unfinished
    <3> HIDE DEF q
    <3>3. Rows(q) /\ EndsOf(row, q, {e})
      BY <1>1, <1>2, <3>1, <3>2, EndedRows
    <3>4. PortInv(q, waiting, sent, told)
      BY <1>1, <1>2, <3>1, <3>2, EndedPort
    <3>5. EndsSome(row, q)
      BY <1>1, <1>2, <3>1, <3>2, EndedEndsSome
    <3>6. q[e].state = "done"
      BY <3>3, Zenon DEF EndsOf
    <3>7. q[e].state # "running"
      BY <3>6
    <3> QED
      BY <3>3, <3>4, <3>5, <3>7, Zenon
  <2>2. CASE e \notin Unfinished
    <3>1. q = row
      BY <2>2, Zenon DEF RunEnd
    <3> HIDE DEF q
    <3>2. SameTurns(row, q)
      BY <3>1, Zenon DEF SameTurns
    <3>3. q[e].state # "running"
      BY <2>2, <3>1 DEF Unfinished
    <3> QED
      BY <1>1, <3>1, <3>2, <3>3, SameEndsNone, Zenon
  <2> QED
    BY <2>1, <2>2, Zenon
<1>4. Deliver(q, {e}) /\ UNCHANGED <<told, sent>> /\ silenced' = silenced
  BY Zenon DEF RunEnds
<1> HIDE DEF q
<1>5. {e} \in SUBSET Execution
  OBVIOUS
<1>6. /\ Rows(row') /\ SameTurns(q, row')
      /\ PortInv(row', waiting', sent', told')
      /\ retry' \subseteq Execution
  BY <1>1, <1>3, <1>4, <1>5, DeliverKeeps
<1>7. row'[e].state = q[e].state
  BY <1>6, Zenon DEF SameTurns
<1> QED
  BY <1>1, <1>3, <1>4, <1>6, <1>7, EndsThenSame, Zenon DEF StoreNext

\* A tree that is cancelled: what is unfinished in it ends.
LEMMA CancellingStore ==
  ASSUME IInv, NEW s, NEW end \in Ends, Cancelling(s, end), UNCHANGED <<told, sent, silenced>>
  PROVE  /\ StoreNext /\ EndsSome(row, row')
         /\ \A e \in Below(s) \cap Unfinished : row'[e].state = "done"
<1> DEFINE S == Below(s) \cap Unfinished
           q == Ended(row, S, end)
<1>1. /\ Rows(row) /\ PortInv(row, waiting, sent, told)
      /\ retry \subseteq Execution /\ silenced \subseteq Notice
  BY RowsNow, Zenon DEF IInv, TypeOK
<1>2. \A e \in S : e \in Execution /\ row[e].state # "absent"
  BY DEF Unfinished
<1>3. Deliver(q, S \ Jobs) /\ UNCHANGED <<told, sent>> /\ silenced' = silenced
  BY Zenon DEF Cancelling
<1>4. S \ Jobs \in SUBSET Execution
  BY DEF Unfinished
<1> HIDE DEF S
<1>5. Rows(q) /\ EndsOf(row, q, S)
  BY <1>1, <1>2, EndedRows
<1>6. PortInv(q, waiting, sent, told)
  BY <1>1, <1>2, EndedPort
<1>7. EndsSome(row, q)
  BY <1>1, <1>2, EndedEndsSome
<1> HIDE DEF q
<1>8. /\ Rows(row') /\ SameTurns(q, row')
      /\ PortInv(row', waiting', sent', told')
      /\ retry' \subseteq Execution
  BY <1>1, <1>3, <1>4, <1>5, <1>6, DeliverKeeps
<1>9. \A e \in S : row'[e].state = "done"
  BY <1>2, <1>5, <1>8, Zenon DEF EndsOf, SameTurns
<1>10. \A e \in Below(s) \cap Unfinished : row'[e].state = "done"
  BY <1>9, Zenon DEF S
<1> QED
  BY <1>1, <1>3, <1>7, <1>8, <1>10, EndsThenSame, Zenon DEF StoreNext

\* A retry: rows stay in their turns.
LEMMA RetryStore ==
  ASSUME IInv, NEW e \in Execution, RetryFires(e)
  PROVE  StoreNext /\ EndsSome(row, row')
<1>1. /\ Rows(row) /\ PortInv(row, waiting, sent, told)
      /\ retry \subseteq Execution /\ silenced \subseteq Notice
  BY RowsNow, Zenon DEF IInv, TypeOK
<1>2. Deliver(row, {e}) /\ UNCHANGED <<told, sent>> /\ silenced' = silenced
  BY Zenon DEF RetryFires
<1>3. {e} \in SUBSET Execution
  OBVIOUS
<1>4. /\ Rows(row') /\ SameTurns(row, row')
      /\ PortInv(row', waiting', sent', told')
      /\ retry' \subseteq Execution
  BY <1>1, <1>2, <1>3, DeliverKeeps
<1> QED
  BY <1>1, <1>2, <1>4, SameEndsNone, Zenon DEF StoreNext

\* A result that was read: its notice is settled and leaves the port.
LEMMA AcknowledgeStore ==
  ASSUME IInv, NEW e \in Execution, Acknowledge(e)
  PROVE  StoreNext /\ EndsSome(row, row')
<1>1. /\ Rows(row) /\ PortInv(row, waiting, sent, told)
      /\ retry \subseteq Execution /\ silenced \subseteq Notice
  BY RowsNow, Zenon DEF IInv, TypeOK
<1>2. row' = [row EXCEPT ![e].pending = FALSE]
  BY Zenon DEF Acknowledge
<1>3. SettledIn(row, row', {e})
  BY <1>1, <1>2 DEF SettledIn, Rows
<1>4. /\ Rows(row') /\ SameTurns(row, row')
      /\ \A d \in Execution : d \notin {e} => row'[d] = row[d]
  BY <1>1, <1>3, SettledRows
<1>6. ASSUME NEW n \in waiting \cup sent
      PROVE  OverIn(row', n) /\ told[n] = 0
  <2>1. OverIn(row, n) /\ told[n] = 0 /\ n \in Notice
    BY <1>1, Zenon DEF PortInv
  <2> QED
    BY <1>4, <2>1, SentKept, Zenon
<1>7. sent' = sent /\ told' = told /\ retry' = retry
  BY Zenon DEF Acknowledge
<1>8. waiting' \subseteq waiting
  BY Zenon DEF Acknowledge, Suppressed
<1>9. PortInv(row', waiting', sent, told)
  BY <1>1, <1>6, <1>8, Zenon DEF PortInv
<1>10. silenced' \subseteq Notice
  <2>1. NoticeOf(row, e) \in Notice
    BY <1>1, NoticeTyped, Zenon DEF Acknowledge
  <2>2. silenced' = Silenced(e)
    BY Zenon DEF Acknowledge
  <2> QED
    BY <1>1, <2>1, <2>2, Zenon DEF Silenced
<1> QED
  BY <1>1, <1>4, <1>7, <1>9, <1>10, SameEndsNone, Zenon DEF StoreNext

\* Recovery ends what was unfinished; no port is left.
LEMMA CrashStore ==
  ASSUME IInv, Crash
  PROVE  /\ StoreNext /\ EndsSome(row, row')
         /\ \A e \in Execution : row'[e].state # "running"
<1>1. Rows(row) /\ PortInv(row, waiting, sent, told) /\ silenced \subseteq Notice
  BY RowsNow, Zenon DEF IInv, TypeOK
<1>2. row' = Ended(row, Unfinished, "host_shutdown")
  BY Zenon DEF Crash, RecoveredEnd
<1>3. \A e \in Unfinished : e \in Execution /\ row[e].state # "absent"
  BY DEF Unfinished
<1>4. "host_shutdown" \in Ends
  BY DEF Ends
<1>5. Rows(row') /\ EndsOf(row, row', Unfinished)
  BY <1>1, <1>2, <1>3, <1>4, EndedRows
<1>6. PortInv(row', waiting, sent, told)
  BY <1>1, <1>2, <1>3, <1>4, EndedPort
<1>7. EndsSome(row, row')
  BY <1>1, <1>2, <1>3, <1>4, EndedEndsSome
<1>8. ASSUME NEW e \in Execution
      PROVE  row'[e].state # "running"
  <2>1. CASE e \in Unfinished
    <3>1. row'[e].state = "done"
      BY <1>5, <2>1, Zenon DEF EndsOf
    <3> QED
      BY <3>1
  <2>2. CASE e \notin Unfinished
    <3>1. row'[e] = row[e]
      BY <1>5, <2>2, Zenon DEF EndsOf
    <3> QED
      BY <2>2, <3>1 DEF Unfinished
  <2> QED
    BY <2>1, <2>2, Zenon
<1>9. /\ waiting' = {} /\ sent' = {} /\ told' = told /\ retry' = {}
      /\ silenced' = silenced
  BY Zenon DEF Crash
<1>10. PortInv(row', {}, {}, told)
  BY <1>6, Zenon DEF PortInv
<1>11. PortInv(row', waiting', sent', told')
  BY <1>9, <1>10, Zenon
<1> QED
  BY <1>1, <1>5, <1>7, <1>8, <1>9, <1>11 DEF StoreNext

\* Steps that leave rows and port alone.
LEMMA StillStore ==
  ASSUME IInv, UNCHANGED <<row, told, waiting, sent, silenced>>, retry' \subseteq Execution
  PROVE  StoreNext /\ EndsSome(row, row')
<1>1. Rows(row) /\ PortInv(row, waiting, sent, told) /\ silenced' \subseteq Notice
  BY RowsNow, Zenon DEF IInv, TypeOK
<1>2. row' = row /\ told' = told /\ waiting' = waiting /\ sent' = sent
  BY Zenon
<1>3. SameTurns(row, row')
  BY <1>2, Zenon DEF SameTurns
<1> QED
  BY <1>1, <1>2, <1>3, SameEndsNone, Zenon DEF StoreNext

\* Steps that only take notices from the port.
LEMMA LessStore ==
  ASSUME IInv, UNCHANGED <<row, told, silenced>>, retry' \subseteq Execution,
         waiting' \subseteq waiting, sent' \subseteq sent
  PROVE  StoreNext /\ EndsSome(row, row')
<1>1. Rows(row) /\ PortInv(row, waiting, sent, told) /\ silenced' \subseteq Notice
  BY RowsNow, Zenon DEF IInv, TypeOK
<1>2. row' = row /\ told' = told
  BY Zenon
<1>3. PortInv(row, waiting', sent', told)
  BY <1>1, PortShrinks, Zenon
<1>4. SameTurns(row, row')
  BY <1>2, Zenon DEF SameTurns
<1> QED
  BY <1>1, <1>2, <1>3, <1>4, SameEndsNone, Zenon DEF StoreNext

\* A notice that leaves the port for the parent's session is of an end.
LEMMA SendStore ==
  ASSUME IInv, NEW n \in Notice, Send(n)
  PROVE  StoreNext /\ EndsSome(row, row')
<1>1. /\ Rows(row) /\ PortInv(row, waiting, sent, told)
      /\ retry \subseteq Execution /\ silenced \subseteq Notice
  BY RowsNow, Zenon DEF IInv, TypeOK
<1>2. /\ n \in waiting /\ waiting' = waiting \ {n} /\ sent' = sent \cup {n}
      /\ row' = row /\ told' = told /\ retry' = retry /\ silenced' = silenced
  BY Zenon DEF Send, store
<1>3. waiting' \cup sent' = waiting \cup sent
  BY <1>2, Zenon
<1>4. waiting' \subseteq Notice /\ sent' \subseteq Notice /\ waiting' \cap sent' = {}
  BY <1>1, <1>2 DEF PortInv
<1>5. \A m \in waiting' \cup sent' : OverIn(row, m) /\ told[m] = 0
  BY <1>1, <1>3, Zenon DEF PortInv
<1>6. PortInv(row, waiting', sent', told)
  BY <1>1, <1>4, <1>5, Zenon DEF PortInv
<1>7. SameTurns(row, row')
  BY <1>2, Zenon DEF SameTurns
<1> QED
  BY <1>1, <1>2, <1>6, <1>7, SameEndsNone, Zenon DEF StoreNext

\* A send that failed: the notice is pending again.
LEMMA SendFailsStore ==
  ASSUME IInv, NEW n \in Notice, SendFails(n)
  PROVE  StoreNext /\ EndsSome(row, row') /\ row' = row /\ told' = told
<1>1. /\ Rows(row) /\ PortInv(row, waiting, sent, told)
      /\ retry \subseteq Execution /\ silenced \subseteq Notice
  BY RowsNow, Zenon DEF IInv, TypeOK
<1>2. /\ n \in sent /\ sent' = sent \ {n} /\ waiting' = waiting \cup {n}
      /\ row' = row /\ told' = told /\ retry' = retry /\ silenced' = silenced
  BY Zenon DEF SendFails, store
<1>3. waiting' \cup sent' = waiting \cup sent
  BY <1>2, Zenon
<1>4. waiting' \subseteq Notice /\ sent' \subseteq Notice /\ waiting' \cap sent' = {}
  BY <1>1, <1>2 DEF PortInv
<1>5. \A m \in waiting' \cup sent' : OverIn(row, m) /\ told[m] = 0
  BY <1>1, <1>3, Zenon DEF PortInv
<1>6. PortInv(row, waiting', sent', told)
  BY <1>1, <1>4, <1>5, Zenon DEF PortInv
<1>7. SameTurns(row, row')
  BY <1>2, Zenon DEF SameTurns
<1> QED
  BY <1>1, <1>2, <1>6, <1>7, SameEndsNone, Zenon DEF StoreNext

\* A notice that reaches the transcript was not told before.
LEMMA PersistStore ==
  ASSUME IInv, NEW n \in Notice, Persist(n)
  PROVE  /\ StoreNext /\ EndsSome(row, row')
         /\ OverIn(row, n) /\ told[n] = 0
         /\ told' = [told EXCEPT ![n] = 1] /\ row' = row
<1>1. /\ Rows(row) /\ PortInv(row, waiting, sent, told)
      /\ retry \subseteq Execution /\ silenced \subseteq Notice
  BY RowsNow, Zenon DEF IInv, TypeOK
<1>2. /\ n \in sent /\ sent' = sent \ {n} /\ told' = [told EXCEPT ![n] = @ + 1]
      /\ row' = row /\ waiting' = waiting /\ retry' = retry /\ silenced' = silenced
  BY Zenon DEF Persist
<1>3. OverIn(row, n) /\ told[n] = 0
  BY <1>1, <1>2, Zenon DEF PortInv
<1>4. told' = [told EXCEPT ![n] = 1]
  BY <1>2, <1>3
<1>5. told \in [Notice -> Nat] /\ waiting \cap sent = {}
  BY <1>1, Zenon DEF PortInv
<1>6. told' \in [Notice -> Nat] /\ \A m \in Notice : m # n => told'[m] = told[m]
  BY <1>4, <1>5
<1>7. \A m \in waiting : m \in Notice /\ m # n
  BY <1>1, <1>2, <1>5, Zenon DEF PortInv
<1>8. \A m \in sent' : m \in sent /\ m \in Notice /\ m # n
  BY <1>1, <1>2 DEF PortInv
<1>9. PortInv(row, waiting, sent', told')
  <2>1. \A m \in waiting \cup sent' : OverIn(row, m) /\ told'[m] = 0
    BY <1>1, <1>6, <1>7, <1>8, Zenon DEF PortInv
  <2>3. waiting \subseteq Notice /\ sent' \subseteq Notice /\ waiting \cap sent' = {}
    BY <1>1, <1>5, <1>8, Zenon DEF PortInv
  <2> QED
    BY <1>6, <2>1, <2>3, Zenon DEF PortInv
<1>10. SameTurns(row, row')
  BY <1>2, Zenon DEF SameTurns
<1> QED
  BY <1>1, <1>2, <1>3, <1>4, <1>9, <1>10, SameEndsNone, Zenon DEF StoreNext

\* What a session has to tell when it is opened.
LEMMA AttachedTyped ==
  ASSUME NEW s
  PROVE  Attached(s) \subseteq Execution
  BY DEF Attached, ChildrenOf, Known

\* The steps that touch no row: openings, failures, holds, closes.
Quiet ==
  \/ \E e \in Execution : \/ \E p \in Session : SpawnBegins(p, e)
                          \/ SpawnFails(e) \/ SteerBegins(e) \/ SteerFails(e) \/ RunStarts(e)
                          \/ JobLeaves(e)
  \/ \E n \in Notice : DropSent(n) \/ SendFails(n)
  \/ \E s \in Session : \/ BeginClose(s) \/ Evict(s) \/ Restore(s)
                        \/ Shutdown(s) \/ HostShut(s) \/ CloseChildren(s) \/ Dispose(s)
  \/ \E k \in Holds : HoldBegins(k) \/ HoldEnds(k)
  \/ ReloadFails

\* They leave the rows alone, and the port gets nothing new.
LEMMA QuietStore ==
  ASSUME IInv, Quiet
  PROVE  StoreNext /\ EndsSome(row, row') /\ row' = row /\ told' = told
<1>1. retry \subseteq Execution
  BY Zenon DEF IInv, TypeOK
<1>2. ASSUME UNCHANGED <<store, port, retry>>
      PROVE  StoreNext /\ EndsSome(row, row') /\ row' = row /\ told' = told
  <2>1. UNCHANGED <<row, told, waiting, sent, silenced>> /\ retry' = retry
    BY <1>2, Zenon DEF store, port
  <2> QED
    BY <1>1, <2>1, StillStore, Zenon
<1>3. ASSUME NEW e \in Execution, NEW p \in Session, SpawnBegins(p, e)
      PROVE  UNCHANGED <<store, port, retry>>
  BY <1>3, Zenon DEF SpawnBegins
<1>4. ASSUME NEW e \in Execution, SpawnFails(e)
      PROVE  UNCHANGED <<store, port, retry>>
  BY <1>4, Zenon DEF SpawnFails
<1>5. ASSUME NEW e \in Execution, SteerBegins(e)
      PROVE  UNCHANGED <<store, port, retry>>
  BY <1>5, Zenon DEF SteerBegins
<1>6. ASSUME NEW e \in Execution, SteerFails(e)
      PROVE  UNCHANGED <<store, port, retry>>
  BY <1>6, Zenon DEF SteerFails
<1>7. ASSUME NEW e \in Execution, RunStarts(e)
      PROVE  UNCHANGED <<store, port, retry>>
  BY <1>7, Zenon DEF RunStarts
<1>17. ASSUME NEW e \in Execution, JobLeaves(e)
       PROVE  UNCHANGED <<store, port, retry>>
  BY <1>17, Zenon DEF JobLeaves
<1>18. ASSUME NEW n \in Notice, SendFails(n)
       PROVE  StoreNext /\ EndsSome(row, row') /\ row' = row /\ told' = told
  BY <1>18, SendFailsStore, Zenon
<1>19. ASSUME ReloadFails
       PROVE  UNCHANGED <<store, port, retry>>
  BY <1>19, Zenon DEF ReloadFails
<1>8. ASSUME NEW n \in Notice, DropSent(n)
      PROVE  StoreNext /\ EndsSome(row, row') /\ row' = row /\ told' = told
  <2>1. /\ UNCHANGED <<row, told, silenced>> /\ retry' = retry
        /\ waiting' = waiting /\ sent' = sent \ {n}
    BY <1>8, Zenon DEF DropSent, store
  <2> QED
    BY <1>1, <2>1, LessStore
<1>9. ASSUME NEW s \in Session, BeginClose(s)
      PROVE  UNCHANGED <<store, port, retry>>
  BY <1>9, Zenon DEF BeginClose
<1>10. ASSUME NEW s \in Session, Evict(s) \/ Shutdown(s)
       PROVE  StoreNext /\ EndsSome(row, row') /\ row' = row /\ told' = told
  <2>1. UNCHANGED <<row, told, waiting, sent, silenced>> /\ retry' = retry \ Below(s)
    BY <1>10, Zenon DEF Evict, Shutdown, ShutsDown, store, port
  <2> QED
    BY <1>1, <2>1, StillStore, Zenon
<1>11. ASSUME NEW s \in Session, Restore(s)
       PROVE  StoreNext /\ EndsSome(row, row') /\ row' = row /\ told' = told
  <2>1. UNCHANGED <<row, told, waiting, sent, silenced>> /\ retry' = retry \cup Attached(s)
    BY <1>11, Zenon DEF Restore, store, port
  <2>2. retry' \subseteq Execution
    BY <1>1, <2>1, AttachedTyped, Zenon
  <2> QED
    BY <2>1, <2>2, StillStore, Zenon
<1>12. ASSUME NEW s \in Session, HostShut(s)
       PROVE  UNCHANGED <<store, port, retry>>
  BY <1>12, Zenon DEF HostShut
<1>13. ASSUME NEW s \in Session, CloseChildren(s)
       PROVE  UNCHANGED <<store, port, retry>>
  BY <1>13, Zenon DEF CloseChildren
<1>14. ASSUME NEW s \in Session, Dispose(s)
       PROVE  StoreNext /\ EndsSome(row, row') /\ row' = row /\ told' = told
  <2>1. /\ UNCHANGED <<row, told, silenced>> /\ retry' = retry
        /\ waiting' = waiting \ NoticesTo(s) /\ sent' = sent \ NoticesTo(s)
    BY <1>14, Zenon DEF Dispose, store
  <2>2. waiting' \subseteq waiting /\ sent' \subseteq sent
    BY <2>1, Zenon
  <2> QED
    BY <1>1, <2>1, <2>2, LessStore, Zenon
<1>15. ASSUME NEW k \in Holds, HoldBegins(k)
       PROVE  StoreNext /\ EndsSome(row, row') /\ row' = row /\ told' = told
  <2>1. /\ UNCHANGED <<row, told, silenced>> /\ retry' \subseteq retry
        /\ waiting' \subseteq waiting /\ sent' \subseteq sent
    BY <1>15 DEF HoldBegins, store
  <2>2. retry' \subseteq Execution
    BY <1>1, <2>1, Zenon
  <2> QED
    BY <2>1, <2>2, LessStore, Zenon
<1>16. ASSUME NEW k \in Holds, HoldEnds(k)
       PROVE  StoreNext /\ EndsSome(row, row') /\ row' = row /\ told' = told
  <2>1. UNCHANGED <<row, told, waiting, sent, silenced>>
    BY <1>16, Zenon DEF HoldEnds, store, port
  <2>2. retry' = retry \cup Attached(Root) \/ retry' = retry
    BY <1>16, Zenon DEF HoldEnds
  <2>3. retry' \subseteq Execution
    BY <1>1, <2>2, AttachedTyped, Zenon
  <2> QED
    BY <2>1, <2>3, StillStore, Zenon
<1> QED
  BY <1>2, <1>3, <1>4, <1>5, <1>6, <1>7, <1>8, <1>9, <1>10, <1>11, <1>12, <1>13, <1>14,
     <1>15, <1>16, <1>17, <1>18, <1>19, Zenon DEF Quiet

-----------------------------------------------------------------------------
(* What holds `control` may go on.                                         *)

\* Rows that come or stay, ends that last: all that what holds `control` needs.
Lasting(r, q) ==
  \A e \in Execution :
    /\ q[e].state = "absent" <=> r[e].state = "absent"
    /\ r[e].state = "done" => q[e].state = "done"
    /\ q[e].turn = r[e].turn

\* Rows that end do not disturb what holds `control`.
LEMMA EndsLast ==
  ASSUME NEW r, NEW q, EndsSome(r, q)
  PROVE  Lasting(r, q)
<1> SUFFICES ASSUME NEW e \in Execution
             PROVE  /\ q[e].state = "absent" <=> r[e].state = "absent"
                    /\ r[e].state = "done" => q[e].state = "done"
                    /\ q[e].turn = r[e].turn
  BY Zenon DEF Lasting
<1>1. /\ q[e].turn = r[e].turn
      /\ q[e].state # r[e].state => r[e].state \in {"queued", "running"} /\ q[e].state = "done"
  BY Zenon DEF EndsSome
<1> QED
  BY <1>1

\* Nothing new holds `control`.
ControlSame ==
  \A e \in Execution : /\ Starting(e, "opening")' => Starting(e, "opening")
                       /\ Starting(e, "activating")' => Starting(e, "activating")
                       /\ Continuing(e)' => Continuing(e)

\* What holds `control` may go on after any step that leaves it there.
LEMMA ControlKept ==
  ASSUME ControlInv, Lasting(row, row'), ControlSame
  PROVE  ControlInv'
<1> SUFFICES ASSUME NEW e \in Execution
             PROVE  /\ Starting(e, "opening")' => row'[e].state = "absent"
                    /\ Starting(e, "activating")' => row'[e].state # "absent"
                    /\ Continuing(e)' => row'[e].state = "done" /\ row'[e].turn < MaxTurns
  BY Zenon DEF ControlInv
<1>1. /\ row'[e].state = "absent" <=> row[e].state = "absent"
      /\ row[e].state = "done" => row'[e].state = "done"
      /\ row'[e].turn = row[e].turn
  BY Zenon DEF Lasting
<1>2. /\ Starting(e, "opening") => row[e].state = "absent"
      /\ Starting(e, "activating") => row[e].state # "absent"
      /\ Continuing(e) => row[e].state = "done" /\ row[e].turn < MaxTurns
  BY Zenon DEF ControlInv
<1> QED
  BY <1>1, <1>2, Zenon DEF ControlSame

\* A step that leaves `control` alone.
LEMMA ControlStill ==
  ASSUME control' = control
  PROVE  ControlSame
  BY Zenon DEF ControlSame, Starting, Continuing

\* A step that gives `control` back.
LEMMA ControlFreed ==
  ASSUME control' = Free
  PROVE  ControlSame
  BY DEF ControlSame, Starting, Continuing, Free

\* A spawn that has failed goes on only to clean up.
LEMMA SpawnFailsControl ==
  ASSUME IInv, NEW e \in Execution, SpawnFails(e)
  PROVE  ControlSame
<1>1. CASE control' = Free
  BY <1>1, ControlFreed
<1>2. CASE control' # Free
  <2>1. Starting(e, "activating") /\ control' = [control EXCEPT !.step = "failing"]
    BY <1>2, Zenon DEF SpawnFails
  <2>2. control \in [op : {"spawn", "steer"}, child : Execution, parent : Session,
                     step : {"opening", "activating", "failing"}]
    BY <2>1 DEF IInv, TypeOK, Starting, Free
  <2>3. control'.op = "spawn" /\ control'.step = "failing"
    BY <2>1, <2>2 DEF Starting
  <2> QED
    BY <2>3 DEF ControlSame, Starting, Continuing
<1> QED
  BY <1>1, <1>2, Zenon

\* The two that take `control` find the row as they need it.
LEMMA TakesControl ==
  ASSUME IInv, NEW e \in Execution,
         SteerBegins(e) \/ \E p \in Session : SpawnBegins(p, e)
  PROVE  ControlInv'
<1>1. row' = row
  BY Zenon DEF SteerBegins, SpawnBegins, store
<1>2. CASE SteerBegins(e)
  <2>1. control' = [op |-> "steer", child |-> e, parent |-> row[e].parent, step |-> "opening"]
    BY <1>2, Zenon DEF SteerBegins
  <2>2. row[e].state = "done" /\ row[e].turn < MaxTurns
    BY <1>2, Zenon DEF SteerBegins, Steerable
  <2>3. control'.op = "steer" /\ control'.child = e
    BY <2>1
  <2>4. ~("spawn" = "steer")
    OBVIOUS
  <2> QED
    BY <1>1, <2>2, <2>3, <2>4, Zenon DEF ControlInv, Starting, Continuing
<1>3. ASSUME NEW p \in Session, SpawnBegins(p, e)
      PROVE  ControlInv'
  <2>1. control' = [op |-> "spawn", child |-> e, parent |-> p, step |-> "opening"]
    BY <1>3, Zenon DEF SpawnBegins
  <2>2. row[e].state = "absent"
    BY <1>3, Zenon DEF SpawnBegins
  <2>3. control'.op = "spawn" /\ control'.child = e /\ control'.step = "opening"
    BY <2>1
  <2>4. ~("spawn" = "steer") /\ ~("opening" = "activating")
    OBVIOUS
  <2> QED
    BY <1>1, <2>2, <2>3, <2>4, Zenon DEF ControlInv, Starting, Continuing
<1> QED
  BY <1>2, <1>3, Zenon

\* A session that has started activates, with a row.
LEMMA SessionStartsControl ==
  ASSUME IInv, NEW e \in Execution, SessionStarts(e)
  PROVE  ControlInv'
<1>1. row'[e].state = "queued"
  BY SessionStartsStore, Zenon
<1>2. Starting(e, "opening") /\ control' = [control EXCEPT !.step = "activating"]
  BY Zenon DEF SessionStarts
<1>3. control \in [op : {"spawn", "steer"}, child : Execution, parent : Session,
                   step : {"opening", "activating", "failing"}]
  BY <1>2 DEF IInv, TypeOK, Starting, Free
<1>4. control'.op = "spawn" /\ control'.child = e /\ control'.step = "activating"
  BY <1>2, <1>3 DEF Starting
<1>5. ~("spawn" = "steer") /\ ~("opening" = "activating") /\ ~("queued" = "absent")
  OBVIOUS
<1> QED
  BY <1>1, <1>4, <1>5, Zenon DEF ControlInv, Starting, Continuing

-----------------------------------------------------------------------------
(* The slots.                                                              *)

\* Sets of executions are finite.
LEMMA JobsFinite ==
  ASSUME NEW S \in SUBSET Execution
  PROVE  IsFiniteSet(S) /\ Cardinality(S) \in Nat
<1>1. IsFiniteSet(Execution)
  BY ExecutionsAssumption, Zenon
<1>2. IsFiniteSet(S)
  BY <1>1, FS_Subset, Zenon
<1> QED
  BY <1>2, FS_CardinalityType, Zenon

\* No row starts and no job begins.
LEMMA SlotsKept ==
  ASSUME IInv,
         \A e \in Execution : row'[e].state = "running" => row[e].state = "running",
         \A e \in Execution : job'[e] # "none" => job[e] # "none",
         \A e \in Execution : row'[e].state = "running" /\ Live(e) => Live(e)'
  PROVE  SlotsFit'
<1>1. \A e \in Execution : row'[e].state = "running" => Live(e)'
  BY Zenon DEF IInv, SlotsFit
<1>2. Jobs' \subseteq Jobs
  BY DEF Jobs
<1>3. Jobs \in SUBSET Execution /\ Jobs' \in SUBSET Execution
  BY DEF Jobs
<1>4. /\ IsFiniteSet(Jobs)
      /\ Cardinality(Jobs) \in Nat /\ Cardinality(Jobs') \in Nat
  BY <1>3, JobsFinite
<1>5. Cardinality(Jobs') <= Cardinality(Jobs)
  BY <1>2, <1>4, FS_Subset
<1>6. Cardinality(Jobs) <= Concurrency /\ Concurrency \in Nat
  BY ExecutionsAssumption DEF IInv, SlotsFit
<1>7. Cardinality(Jobs') <= Concurrency
  BY <1>4, <1>5, <1>6
<1> QED
  BY <1>1, <1>7, Zenon DEF SlotsFit

\* Rows end, no job changes.
LEMMA SlotsStill ==
  ASSUME IInv, EndsSome(row, row'), UNCHANGED <<job, aborted>>
  PROVE  SlotsFit'
<1>1. job' = job /\ aborted' = aborted
  BY Zenon
<1>2. \A e \in Execution : row'[e].state = "running" => row[e].state = "running"
  BY DEF EndsSome
<1>3. \A e \in Execution : Live(e) => Live(e)'
  BY <1>1, Zenon DEF Live
<1>4. \A e \in Execution : job'[e] # "none" => job[e] # "none"
  BY <1>1, Zenon
<1> QED
  BY <1>2, <1>3, <1>4, SlotsKept, Zenon

\* The rows a scan starts have slots.
LEMMA ScanSlots ==
  ASSUME IInv, Scan
  PROVE  /\ SlotsFit'
         /\ \A S \in SUBSET Eligible :
              Starts(S) => /\ S \in SUBSET Execution /\ S \cap Jobs = {}
                           /\ Cardinality(Jobs) + Cardinality(S) <= Concurrency
<1>1. ASSUME NEW S \in SUBSET Eligible, Starts(S)
      PROVE  /\ S \in SUBSET Execution /\ S \cap Jobs = {}
             /\ Cardinality(Jobs) + Cardinality(S) <= Concurrency
  <2>1. S \in SUBSET Execution /\ \A e \in S : job[e] = "none"
    BY Zenon DEF Eligible, Queued
  <2>2. S \cap Jobs = {}
    BY <2>1 DEF Jobs
  <2>3. Jobs \in SUBSET Execution
    BY DEF Jobs
  <2>4. Cardinality(Jobs) \in Nat /\ Cardinality(S) \in Nat
    BY <2>1, <2>3, JobsFinite
  <2>5. Cardinality(S) <= Concurrency - Cardinality(Jobs)
    BY <1>1, Zenon DEF Starts, Room
  <2>6. Cardinality(Jobs) + Cardinality(S) <= Concurrency
    BY <2>4, <2>5, ExecutionsAssumption
  <2> QED
    BY <2>1, <2>2, <2>6
<1>2. PICK S \in SUBSET Eligible :
        /\ Starts(S)
        /\ \A e \in Execution : /\ row'[e].turn = row[e].turn
                                /\ e \in S => row'[e].state = "running"
                                /\ e \notin S => row'[e] = row[e]
        /\ job' = [e \in Execution |-> IF e \in S THEN "scheduled" ELSE job[e]]
  BY ScanStore, Zenon
<1>3. /\ S \in SUBSET Execution /\ S \cap Jobs = {}
      /\ Cardinality(Jobs) + Cardinality(S) <= Concurrency
  BY <1>1, <1>2, Zenon
<1>4. Jobs' = Jobs \cup S
  BY <1>2, <1>3 DEF Jobs
<1>5. Jobs \in SUBSET Execution
  BY DEF Jobs
<1>6. /\ IsFiniteSet(Jobs) /\ IsFiniteSet(S)
      /\ Cardinality(Jobs) \in Nat /\ Cardinality(S) \in Nat
  BY <1>3, <1>5, JobsFinite
<1>7. Jobs \cap S = {}
  BY <1>3
<1>8. Cardinality(Jobs \cup S) = Cardinality(Jobs) + Cardinality(S)
  <2>1. Cardinality(Jobs \cup S) = Cardinality(Jobs) + Cardinality(S) - Cardinality(Jobs \cap S)
    BY <1>6, FS_Union, Zenon
  <2>2. Cardinality(Jobs \cap S) = 0
    BY <1>7, FS_EmptySet, Zenon
  <2> QED
    BY <1>6, <2>1, <2>2
<1>9. Cardinality(Jobs') <= Concurrency
  BY <1>3, <1>4, <1>8
<1>10. aborted' = aborted /\ aborted \subseteq Jobs
  BY Zenon DEF Scan, IInv, TypeOK, Jobs
<1>11. ASSUME NEW e \in Execution, row'[e].state = "running"
       PROVE  Live(e)'
  <2>1. CASE e \in S
    <3>1. job'[e] = "scheduled"
      BY <1>2, <2>1, Zenon
    <3>2. e \notin aborted'
      BY <1>3, <1>10, <2>1
    <3> QED
      BY <3>1, <3>2 DEF Live
  <2>2. CASE e \notin S
    <3>1. job'[e] = job[e] /\ row'[e] = row[e]
      BY <1>2, <2>2, Zenon
    <3> QED
      BY <1>10, <1>11, <3>1, Zenon DEF IInv, SlotsFit, Live
  <2> QED
    BY <2>1, <2>2, Zenon
<1> QED
  BY <1>1, <1>9, <1>11, Zenon DEF SlotsFit

\* A job whose row has ended keeps its slot while it leaves.
LEMMA RunEndsSlots ==
  ASSUME IInv, NEW e \in Execution, NEW end \in {"completed", "failed"}, RunEnds(e, end)
  PROVE  SlotsFit'
<1>1. EndsSome(row, row') /\ row'[e].state # "running"
  BY RunEndsStore, Zenon
<1>2. job' = [job EXCEPT ![e] = "leaving"] /\ aborted' = aborted /\ job[e] # "none"
  BY DEF RunEnds
<1>3. job \in [Execution -> {"none", "scheduled", "prompting", "leaving"}]
  BY Zenon DEF IInv, TypeOK
<1>4. \A d \in Execution : d # e => job'[d] = job[d]
  BY <1>2, <1>3
<1>5. \A d \in Execution : row'[d].state = "running" => row[d].state = "running"
  BY <1>1 DEF EndsSome
<1>6. \A d \in Execution : job'[d] # "none" => job[d] # "none"
  BY <1>2, <1>4, Zenon
<1>7. \A d \in Execution : row'[d].state = "running" /\ Live(d) => Live(d)'
  BY <1>1, <1>2, <1>4, Zenon DEF Live
<1> QED
  BY <1>5, <1>6, <1>7, SlotsKept, Zenon

\* The slot of a job that has left is free.
LEMMA JobLeavesSlots ==
  ASSUME IInv, NEW e \in Execution, JobLeaves(e)
  PROVE  SlotsFit'
<1>1. /\ row' = row /\ job[e] = "leaving"
      /\ job' = [job EXCEPT ![e] = "none"] /\ aborted' = aborted \ {e}
  BY Zenon DEF JobLeaves, store
<1>2. job \in [Execution -> {"none", "scheduled", "prompting", "leaving"}]
  BY Zenon DEF IInv, TypeOK
<1>3. job'[e] = "none" /\ \A d \in Execution : d # e => job'[d] = job[d]
  BY <1>1, <1>2
<1>4. \A d \in Execution : job'[d] # "none" => job[d] # "none"
  BY <1>3
<1>5. ~Live(e)
  BY <1>1 DEF Live
<1>6. \A d \in Execution : Live(d) => Live(d)'
  BY <1>1, <1>3, <1>5, Zenon DEF Live
<1> QED
  BY <1>1, <1>4, <1>6, SlotsKept, Zenon

\* The jobs a cancel aborts are those whose rows it has ended.
LEMMA CancellingSlots ==
  ASSUME IInv, NEW s, NEW end \in Ends, Cancelling(s, end), UNCHANGED <<told, sent, silenced>>, job' = job
  PROVE  SlotsFit'
<1>1. /\ EndsSome(row, row')
      /\ \A e \in Below(s) \cap Unfinished : row'[e].state = "done"
  BY CancellingStore, Zenon
<1>2. aborted' \subseteq aborted \cup (Below(s) \cap Unfinished)
  BY Zenon DEF Cancelling
<1>4. \A e \in Execution : row'[e].state = "running" => row[e].state = "running"
  BY <1>1 DEF EndsSome
<1>5. ASSUME NEW e \in Execution, row'[e].state = "running", e \notin aborted
      PROVE  e \notin aborted'
  <2>1. ~("running" = "done")
    OBVIOUS
  <2> QED
    BY <1>1, <1>2, <1>5, <2>1, Zenon
<1>6. \A e \in Execution : row'[e].state = "running" /\ Live(e) => Live(e)'
  BY <1>5, Zenon DEF Live
<1> QED
  BY <1>4, <1>6, SlotsKept, Zenon

\* A job that gets its prompt stays in its slot.
LEMMA RunStartsSlots ==
  ASSUME IInv, NEW e \in Execution, RunStarts(e)
  PROVE  SlotsFit'
<1>1. /\ row' = row /\ aborted' = aborted /\ job[e] = "scheduled"
      /\ job' = [job EXCEPT ![e] = "prompting"]
  BY Zenon DEF RunStarts, store
<1>2. job \in [Execution -> {"none", "scheduled", "prompting", "leaving"}]
  BY Zenon DEF IInv, TypeOK
<1>3. \A d \in Execution : job'[d] # "none" <=> job[d] # "none"
  BY <1>1, <1>2
<1>4. \A d \in Execution : Live(d) => Live(d)'
  BY <1>1, <1>2 DEF Live
<1> QED
  BY <1>1, <1>3, <1>4, SlotsKept, Zenon

\* A row that is queued, anew or for the first time, runs no more.
LEMMA QueuedSlots ==
  ASSUME IInv, NEW e \in Execution, SessionStarts(e) \/ SteerEnds(e)
  PROVE  SlotsFit'
<1>1. row'[e].state = "queued" /\ \A d \in Execution \ {e} : row'[d] = row[d]
  BY SessionStartsStore, SteerEndsStore, Zenon
<1>2. job' = job /\ aborted' = aborted
  BY Zenon DEF SessionStarts, SteerEnds, queue
<1>3. ASSUME NEW d \in Execution, row'[d].state = "running"
      PROVE  row[d].state = "running"
  <2>1. d # e
    BY <1>1, <1>3
  <2> QED
    BY <1>1, <1>3, <2>1, Zenon
<1>4. \A d \in Execution : Live(d) => Live(d)'
  BY <1>2, Zenon DEF Live
<1> QED
  BY <1>2, <1>3, <1>4, SlotsKept, Zenon

\* After a death there is neither a job nor a running row.
LEMMA CrashSlots ==
  ASSUME IInv, Crash
  PROVE  SlotsFit'
<1>1. \A e \in Execution : row'[e].state # "running"
  BY CrashStore, Zenon
<1>2. \A e \in Execution : job'[e] = "none"
  BY Zenon DEF Crash
<1> QED
  BY <1>1, <1>2, SlotsKept, Zenon

-----------------------------------------------------------------------------
(* Types.                                                                  *)

JobStates == {"none", "scheduled", "prompting", "leaving"}
HostStates == {"active", "shutting", "cancelling", "joining", "shut"}
Calling == [op : {"spawn", "steer"}, child : Execution, parent : Session,
            step : {"opening", "activating", "failing"}]

QueueType ==
  /\ job \in [Execution -> JobStates]
  /\ aborted \subseteq {e \in Execution : job[e] # "none"}
  /\ scan \in BOOLEAN /\ missed \in BOOLEAN /\ unheard \subseteq Execution
ControlType == control \in {Free} \cup Calling
TreeType ==
  /\ resident \subseteq Session
  /\ host \in [Session -> HostStates]
  /\ closing \subseteq Session /\ closed \subseteq Session
  /\ held \subseteq Holds
TroublesType == troubles \in 0 .. MaxTroubles

\* The types by the parts of the state.
LEMMA TypeParts ==
  ASSUME IInv
  PROVE  QueueType /\ ControlType /\ TreeType /\ TroublesType
  BY Zenon DEF IInv, TypeOK, QueueType, ControlType, TreeType, TroublesType,
               JobStates, HostStates, Calling

\* The types after a step, from its parts.
LEMMA TypesFrom ==
  ASSUME StoreNext, QueueType', ControlType', TreeType', TroublesType'
  PROVE  TypeOK'
<1>1. /\ row' \in [Execution -> [state : {"absent", "queued", "running", "done"},
                                 parent : Session, end : Ends, pending : BOOLEAN,
                                 turn : 0 .. MaxTurns]]
      /\ told' \in [Notice -> Nat] /\ retry' \subseteq Execution
      /\ waiting' \subseteq Notice /\ sent' \subseteq Notice /\ silenced' \subseteq Notice
  BY Zenon DEF StoreNext, Rows, PortInv, Row, States
<1>2. /\ job' \in [Execution -> {"none", "scheduled", "prompting", "leaving"}]
      /\ aborted' \subseteq {e \in Execution : job'[e] # "none"}
      /\ scan' \in BOOLEAN /\ missed' \in BOOLEAN /\ unheard' \subseteq Execution
      /\ troubles' \in 0 .. MaxTroubles
  BY Zenon DEF QueueType, TroublesType, JobStates
<1>3. /\ control' \in {Free} \cup
           [op : {"spawn", "steer"}, child : Execution, parent : Session,
            step : {"opening", "activating", "failing"}]
      /\ resident' \subseteq Session
      /\ host' \in [Session -> {"active", "shutting", "cancelling", "joining", "shut"}]
      /\ closing' \subseteq Session /\ closed' \subseteq Session
      /\ held' \subseteq Holds
  BY Zenon DEF ControlType, TreeType, Calling, HostStates
<1> QED
  BY <1>1, <1>2, <1>3, Zenon DEF TypeOK

\* A step of the queue that changes no job.
LEMMA RescanQueue ==
  ASSUME QueueType, UNCHANGED <<job, aborted, missed>>, unheard' \subseteq unheard, Rescan \/ scan' = scan
  PROVE  QueueType'
<1>1. scan \in BOOLEAN
  BY Zenon DEF QueueType
<1>2. scan' \in BOOLEAN
  <2>1. CASE Rescan
    <3> DEFINE u == scan \/ host[Root] = "active"
    <3>1. u \in BOOLEAN
      OBVIOUS
    <3>2. scan' = u
      BY <2>1, Zenon DEF Rescan
    <3> HIDE DEF u
    <3> QED
      BY <3>1, <3>2
  <2>2. CASE scan' = scan
    BY <1>1, <2>2
  <2> QED
    BY <2>1, <2>2, Zenon
<1>3. job' = job /\ aborted' = aborted /\ missed' = missed /\ unheard' \subseteq Execution
  BY Zenon DEF QueueType
<1> QED
  BY <1>2, <1>3, Zenon DEF QueueType

\* Whether a microtask is queued.
LEMMA RescanTyped ==
  ASSUME Rescan
  PROVE  scan' \in BOOLEAN
<1> DEFINE u == scan \/ host[Root] = "active"
<1>1. u \in BOOLEAN
  OBVIOUS
<1>2. scan' = u
  BY Zenon DEF Rescan
<1> HIDE DEF u
<1> QED
  BY <1>1, <1>2

\* Types of the queue after a scan.
LEMMA ScanQueue ==
  ASSUME IInv, Scan
  PROVE  QueueType'
<1>1. QueueType
  BY TypeParts, Zenon
<1>2. PICK S \in SUBSET Eligible :
        job' = [e \in Execution |-> IF e \in S THEN "scheduled" ELSE job[e]]
  BY Zenon DEF Scan
<1>3. job' \in [Execution -> JobStates] /\ \A e \in Execution : job[e] # "none" => job'[e] # "none"
  BY <1>1, <1>2 DEF QueueType, JobStates
<1>4. aborted' = aborted /\ scan' = FALSE /\ unheard' = unheard
  BY Zenon DEF Scan
<1>5. missed' \in BOOLEAN
  <2> DEFINE u == held \cap {"copy", "drain"} # {} \/ Root \notin resident
  <2>1. u \in BOOLEAN
    OBVIOUS
  <2>2. missed' = u
    BY Zenon DEF Scan
  <2> HIDE DEF u
  <2> QED
    BY <2>1, <2>2
<1>6. aborted' \subseteq {e \in Execution : job'[e] # "none"}
  BY <1>1, <1>3, <1>4 DEF QueueType
<1> QED
  BY <1>1, <1>3, <1>4, <1>5, <1>6, Zenon DEF QueueType

\* Types of the queue after a prompt.
LEMMA RunStartsQueue ==
  ASSUME IInv, NEW e \in Execution, RunStarts(e)
  PROVE  QueueType'
<1>1. QueueType
  BY TypeParts, Zenon
<1>2. /\ job' = [job EXCEPT ![e] = "prompting"]
      /\ aborted' = aborted /\ scan' = scan /\ missed' = missed /\ unheard' = unheard
  BY Zenon DEF RunStarts
<1>3. job' \in [Execution -> JobStates] /\ \A d \in Execution : job[d] # "none" => job'[d] # "none"
  BY <1>1, <1>2 DEF QueueType, JobStates
<1>4. aborted' \subseteq {d \in Execution : job'[d] # "none"}
  BY <1>1, <1>2, <1>3 DEF QueueType
<1>5. scan' \in BOOLEAN /\ missed' \in BOOLEAN /\ unheard' \subseteq Execution
  BY <1>1, <1>2, Zenon DEF QueueType
<1> QED
  BY <1>3, <1>4, <1>5, Zenon DEF QueueType

\* Types of the queue after a job; it takes its abort with it when it leaves.
LEMMA RunEndsQueue ==
  ASSUME IInv, NEW e \in Execution, JobLeaves(e) \/ \E end \in {"completed", "failed"} : RunEnds(e, end)
  PROVE  QueueType'
<1>1. QueueType
  BY TypeParts, Zenon
<1>2. PICK j \in JobStates : job' = [job EXCEPT ![e] = j] /\ (e \in aborted' => j # "none")
  <2>1. CASE JobLeaves(e)
    BY <2>1 DEF JobLeaves, JobStates
  <2>2. CASE \E end \in {"completed", "failed"} : RunEnds(e, end)
    BY <2>2 DEF RunEnds, JobStates
  <2> QED
    BY <2>1, <2>2, Zenon
<1>3. /\ aborted' \subseteq aborted /\ missed' = missed /\ unheard' = unheard
      /\ Rescan \/ scan' = scan
  BY DEF RunEnds, JobLeaves
<1>4. /\ job' \in [Execution -> JobStates] /\ job'[e] = j
      /\ \A d \in Execution : d # e => job'[d] = job[d]
  BY <1>1, <1>2 DEF QueueType
<1>5. aborted' \subseteq {d \in Execution : job'[d] # "none"}
  BY <1>1, <1>2, <1>3, <1>4, Zenon DEF QueueType
<1>6. scan' \in BOOLEAN /\ missed' \in BOOLEAN /\ unheard' \subseteq Execution
  BY <1>1, <1>3, RescanTyped, Zenon DEF QueueType
<1> QED
  BY <1>4, <1>5, <1>6, Zenon DEF QueueType

\* Types of the queue after a cancel; only jobs are aborted.
LEMMA CancellingQueue ==
  ASSUME IInv, NEW s, NEW end, Cancelling(s, end), UNCHANGED <<job, missed>>
  PROVE  QueueType'
<1>1. QueueType
  BY TypeParts, Zenon
<1>2. /\ job' = job /\ missed' = missed
      /\ aborted' = aborted \cup (Below(s) \cap Unfinished \cap Jobs) /\ Rescan
  BY Zenon DEF Cancelling
<1>3. aborted' \subseteq {d \in Execution : job'[d] # "none"}
  BY <1>1, <1>2 DEF QueueType, Jobs
<1>5. unheard' \subseteq Execution
  BY <1>1 DEF Cancelling, Unfinished, QueueType
<1>4. scan' \in BOOLEAN /\ missed' \in BOOLEAN
  BY <1>1, <1>2, RescanTyped, Zenon DEF QueueType
<1> QED
  BY <1>1, <1>2, <1>3, <1>4, <1>5, Zenon DEF QueueType

\* Types of the queue after a death.
LEMMA CrashQueue ==
  ASSUME Crash
  PROVE  QueueType'
  BY DEF Crash, QueueType, JobStates

\* The bound on disturbances.
LEMMA TroubleTyped ==
  ASSUME TroublesType, Trouble \/ UNCHANGED troubles
  PROVE  TroublesType'
  BY ExecutionsAssumption DEF TroublesType, Trouble

\* A failure counts at most one disturbance.
LEMMA FailureTyped ==
  ASSUME TroublesType, NEW c, Failure(c)
  PROVE  TroublesType'
<1>1. Trouble \/ UNCHANGED troubles
  BY Zenon DEF Failure
<1> QED
  BY <1>1, TroubleTyped

\* Hosts that are woken.
LEMMA WokenTyped ==
  ASSUME NEW h \in [Session -> HostStates]
  PROVE  Woken(h) \in [Session -> HostStates]
  BY DEF Woken, HostStates

\* Types of the tree during a spawn.
LEMMA SpawnTree ==
  ASSUME IInv, NEW e \in Execution, Spawn(e)
  PROVE  TreeType'
<1>1. TreeType /\ e \in Session
  BY TypeParts DEF Session
<1>2. Woken(host) \in [Session -> HostStates]
  BY <1>1, WokenTyped, Zenon DEF TreeType
<1>3. CASE SessionStarts(e)
  <2>1. /\ resident' = resident \cup {e} /\ host' = [host EXCEPT ![e] = "active"]
        /\ UNCHANGED <<closing, closed, held>>
    BY <1>3, Zenon DEF SessionStarts
  <2> QED
    BY <1>1, <2>1 DEF TreeType, HostStates
<1>4. CASE SpawnFails(e)
  <2>1. /\ UNCHANGED <<closed, held>>
        /\ resident' \subseteq resident /\ closing' \subseteq closing \cup {e}
        /\ host' = Woken(host) \/ host' = [host EXCEPT ![e] = "shutting"]
    BY <1>4 DEF SpawnFails
  <2>2. [host EXCEPT ![e] = "shutting"] \in [Session -> HostStates]
    BY <1>1 DEF TreeType, HostStates
  <2>3. host' \in [Session -> HostStates]
    BY <1>2, <2>1, <2>2, Zenon
  <2> QED
    BY <1>1, <2>1, <2>3 DEF TreeType
<1>5. CASE SpawnEnds(e)
  <2>1. host' = Woken(host) /\ UNCHANGED <<resident, closing, closed, held>>
    BY <1>5, Zenon DEF SpawnEnds
  <2> QED
    BY <1>1, <1>2, <2>1, Zenon DEF TreeType
<1> QED
  BY <1>3, <1>4, <1>5, Zenon DEF Spawn

\* Types of the tree after a continuation.
LEMMA SteerTree ==
  ASSUME IInv, NEW e \in Execution, Steer(e)
  PROVE  TreeType'
<1>1. TreeType /\ e \in Session
  BY TypeParts DEF Session
<1>2. Woken(host) \in [Session -> HostStates]
  BY <1>1, WokenTyped, Zenon DEF TreeType
<1>3. CASE SteerEnds(e)
  <2>1. /\ resident' = resident \cup {e} /\ host' = [Woken(host) EXCEPT ![e] = "active"]
        /\ UNCHANGED <<closing, held>> /\ closed' = closed \ {e}
    BY <1>3, Zenon DEF SteerEnds
  <2>2. host' \in [Session -> HostStates]
    BY <1>2, <2>1 DEF HostStates
  <2> QED
    BY <1>1, <2>1, <2>2 DEF TreeType
<1>4. CASE SteerFails(e)
  <2>1. host' = Woken(host) /\ UNCHANGED <<resident, closing, closed, held>>
    BY <1>4, Zenon DEF SteerFails
  <2> QED
    BY <1>1, <1>2, <2>1, Zenon DEF TreeType
<1> QED
  BY <1>3, <1>4, Zenon DEF Steer

\* Types of the tree while sessions are closed, evicted and restored.
LEMMA CloseTree ==
  ASSUME IInv, NEW s \in Session, BeginClose(s) \/ Evict(s) \/ Restore(s) \/ Closes(s)
  PROVE  TreeType'
<1>1. TreeType
  BY TypeParts
<1>2. ASSUME NEW h \in HostStates, host' = [host EXCEPT ![s] = h],
             UNCHANGED <<closing, held>>, resident' \subseteq resident \cup {s},
             closed' \subseteq closed
      PROVE  TreeType'
  <2>1. host' \in [Session -> HostStates]
    BY <1>1, <1>2 DEF TreeType
  <2>2. /\ resident' \subseteq Session /\ held' \subseteq Holds
        /\ closing' \subseteq Session /\ closed' \subseteq Session
    BY <1>1, <1>2 DEF TreeType
  <2> QED
    BY <2>1, <2>2, Zenon DEF TreeType
<1>3. CASE BeginClose(s)
  <2>1. closing' = closing \cup {s} /\ UNCHANGED <<resident, host, closed, held>>
    BY <1>3, Zenon DEF BeginClose
  <2>2. closing' \subseteq Session
    BY <1>1, <2>1 DEF TreeType
  <2> QED
    BY <1>1, <2>1, <2>2, Zenon DEF TreeType
<1>4. CASE Evict(s) \/ Shutdown(s)
  <2>1. /\ host' = [host EXCEPT ![s] = IF control = Free THEN "cancelling" ELSE "shutting"]
        /\ UNCHANGED <<closing, closed, held>> /\ resident' = resident
    BY <1>4, Zenon DEF Evict, Shutdown, ShutsDown
  <2>2. (IF control = Free THEN "cancelling" ELSE "shutting") \in HostStates
    BY DEF HostStates
  <2>3. resident' \subseteq resident \cup {s} /\ closed' \subseteq closed
    BY <2>1, Zenon
  <2> QED
    BY <1>2, <2>1, <2>2, <2>3, Zenon
<1>5. CASE CancelAll(s)
  <2>1. /\ host' = [host EXCEPT ![s] = "joining"]
        /\ UNCHANGED <<closing, closed, held>> /\ resident' = resident
    BY <1>5, Zenon DEF CancelAll
  <2>2. "joining" \in HostStates /\ resident' \subseteq resident \cup {s} /\ closed' \subseteq closed
    BY <2>1 DEF HostStates
  <2> QED
    BY <1>2, <2>1, <2>2, Zenon
<1>6. CASE HostShut(s)
  <2>1. /\ host' = [host EXCEPT ![s] = "shut"]
        /\ UNCHANGED <<closing, closed, held>> /\ resident' = resident
    BY <1>6, Zenon DEF HostShut
  <2>2. "shut" \in HostStates /\ resident' \subseteq resident \cup {s} /\ closed' \subseteq closed
    BY <2>1 DEF HostStates
  <2> QED
    BY <1>2, <2>1, <2>2, Zenon
<1>7. CASE CloseChildren(s)
  <2>1. /\ closing' = closing \cup OpenChildren(s)
        /\ UNCHANGED <<resident, host, closed, held>>
    BY <1>7, Zenon DEF CloseChildren
  <2>2. OpenChildren(s) \subseteq Session
    BY DEF OpenChildren, ChildrenOf, Known, Session
  <2>3. closing' \subseteq Session
    BY <1>1, <2>1, <2>2 DEF TreeType
  <2> QED
    BY <1>1, <2>1, <2>3, Zenon DEF TreeType
<1>8. CASE Dispose(s)
  <2>1. /\ resident' = resident \ {s} /\ closing' = closing \ {s}
        /\ UNCHANGED <<host, held>> /\ closed' \subseteq closed \cup {s}
    BY <1>8 DEF Dispose
  <2>2. resident' \subseteq Session /\ closing' \subseteq Session /\ closed' \subseteq Session
    BY <1>1, <2>1 DEF TreeType
  <2> QED
    BY <1>1, <2>1, <2>2, Zenon DEF TreeType
<1>9. CASE Restore(s)
  <2>1. /\ host' = [host EXCEPT ![s] = "active"]
        /\ UNCHANGED <<closing, held>> /\ resident' = resident \cup {s} /\ closed' = closed \ {s}
    BY <1>9, Zenon DEF Restore
  <2>2. "active" \in HostStates /\ resident' \subseteq resident \cup {s} /\ closed' \subseteq closed
    BY <2>1 DEF HostStates
  <2> QED
    BY <1>2, <2>1, <2>2, Zenon
<1> QED
  BY <1>3, <1>4, <1>5, <1>6, <1>7, <1>8, <1>9, Zenon DEF Closes

\* Types of the tree while an operation holds it.
LEMMA HoldTree ==
  ASSUME IInv, NEW k \in Holds, HoldBegins(k) \/ HoldEnds(k)
  PROVE  TreeType'
<1>1. TreeType
  BY TypeParts
<1>2. CASE HoldBegins(k)
  <2>1. /\ held' = held \cup {k} /\ resident' \subseteq resident /\ closing' = closing
        /\ closed' \subseteq closed \cup closing
        /\ \E gone : host' = [s \in Session |-> IF s \in gone THEN "shut" ELSE host[s]]
    BY <1>2 DEF HoldBegins
  <2>2. PICK gone : host' = [s \in Session |-> IF s \in gone THEN "shut" ELSE host[s]]
    BY <2>1, Zenon
  <2>3. host' \in [Session -> HostStates]
    BY <1>1, <2>2 DEF TreeType, HostStates
  <2>4. /\ held' \subseteq Holds /\ resident' \subseteq Session
        /\ closing' \subseteq Session /\ closed' \subseteq Session
    BY <1>1, <2>1 DEF TreeType
  <2> QED
    BY <2>3, <2>4, Zenon DEF TreeType
<1>3. CASE HoldEnds(k)
  <2>1. /\ held' = held \ {k} /\ UNCHANGED <<host, closing, closed>>
        /\ resident' = resident \cup {Root} \/ resident' = resident
    BY <1>3, Zenon DEF HoldEnds
  <2>2. resident' \subseteq Session /\ held' \subseteq Holds
    BY <1>1, <2>1 DEF TreeType, Session
  <2> QED
    BY <1>1, <2>1, <2>2, Zenon DEF TreeType
<1> QED
  BY <1>2, <1>3, Zenon

\* Types of the tree and `control` after a death.
LEMMA CrashTree ==
  ASSUME IInv, Crash
  PROVE  TreeType' /\ ControlType'
<1>1. TreeType
  BY TypeParts
<1> QED
  BY <1>1 DEF Crash, TreeType, HostStates, ControlType

\* What holds `control` is a spawn or a steer of an execution by a session.
LEMMA ControlTyped ==
  ASSUME IInv, NEW e \in Execution,
         \/ \E p \in Session : SpawnBegins(p, e)
         \/ SteerBegins(e) \/ Spawn(e) \/ Steer(e)
  PROVE  ControlType'
<1>1. ControlType
  BY TypeParts
<1>2. ASSUME NEW p \in Session, SpawnBegins(p, e)
      PROVE  ControlType'
  <2>1. control' = [op |-> "spawn", child |-> e, parent |-> p, step |-> "opening"]
    BY <1>2, Zenon DEF SpawnBegins
  <2> QED
    BY <2>1 DEF ControlType, Calling
<1>3. CASE SteerBegins(e)
  <2>1. control' = [op |-> "steer", child |-> e, parent |-> row[e].parent, step |-> "opening"]
    BY <1>3, Zenon DEF SteerBegins
  <2>2. row[e].parent \in Session
    <3>1. Rows(row)
      BY RowsNow, Zenon DEF IInv
    <3> QED
      BY <3>1 DEF Rows, Row
  <2> QED
    BY <2>1, <2>2 DEF ControlType, Calling
<1>4. CASE control' = Free
  BY <1>4 DEF ControlType
<1>5. ASSUME control.op = "spawn",
             NEW x \in {"activating", "failing"}, control' = [control EXCEPT !.step = x]
      PROVE  ControlType'
  <2>1. control \in Calling
    BY <1>1, <1>5 DEF ControlType, Free
  <2>2. [control EXCEPT !.step = x] \in Calling
    BY <2>1 DEF Calling
  <2> QED
    BY <1>5, <2>2, Zenon DEF ControlType
<1>6. CASE SessionStarts(e)
  <2>1. control.op = "spawn" /\ control' = [control EXCEPT !.step = "activating"]
    BY <1>6, Zenon DEF SessionStarts, Starting
  <2>2. "activating" \in {"activating", "failing"}
    OBVIOUS
  <2> QED
    BY <1>5, <2>1, <2>2, Zenon
<1>7. CASE SpawnFails(e)
  <2>1. control.op = "spawn"
    BY <1>7, Zenon DEF SpawnFails, Starting
  <2>2. control' = Free \/ control' = [control EXCEPT !.step = "failing"]
    BY <1>7, Zenon DEF SpawnFails
  <2>3. "failing" \in {"activating", "failing"}
    OBVIOUS
  <2> QED
    BY <1>4, <1>5, <2>1, <2>2, <2>3, Zenon
<1>8. CASE SpawnEnds(e) \/ Steer(e)
  <2>1. control' = Free
    BY <1>8, Zenon DEF SpawnEnds, Steer, SteerEnds, SteerFails
  <2> QED
    BY <1>4, <2>1, Zenon
<1> QED
  BY <1>2, <1>3, <1>6, <1>7, <1>8, Zenon DEF Spawn

-----------------------------------------------------------------------------
(* The invariant is inductive.                                             *)

\* The invariant after a step, from its parts.
LEMMA StepFrom ==
  ASSUME StoreNext, QueueType', ControlType', TreeType', TroublesType', ControlInv', SlotsFit'
  PROVE  IInv'
<1>1. TypeOK'
  BY TypesFrom
<1>2. RowInv(row') /\ PortInv(row', waiting', sent', told')
  BY Zenon DEF StoreNext, Rows
<1> QED
  BY <1>1, <1>2, Zenon DEF IInv

\* A step that leaves the queue alone keeps its types.
LEMMA QueueStill ==
  ASSUME QueueType, UNCHANGED queue
  PROVE  QueueType'
  BY Zenon DEF QueueType, queue

\* A step that leaves the tree alone keeps its types.
LEMMA TreeStill ==
  ASSUME TreeType, UNCHANGED tree
  PROVE  TreeType'
  BY Zenon DEF TreeType, tree

\* A step that leaves `control` alone keeps its type.
LEMMA ControlTypeStill ==
  ASSUME ControlType, UNCHANGED control
  PROVE  ControlType'
  BY Zenon DEF ControlType

\* Steps that leave `control` alone and start nothing.
LEMMA StepStill ==
  ASSUME IInv, StoreNext, Lasting(row, row'), UNCHANGED control,
         QueueType', TreeType', TroublesType', SlotsFit'
  PROVE  IInv'
<1>1. ControlInv /\ ControlType
  BY TypeParts, Zenon DEF IInv
<1>2. ControlInv'
  BY <1>1, ControlKept, ControlStill, Zenon
<1>3. ControlType'
  BY <1>1, ControlTypeStill, Zenon
<1> QED
  BY <1>2, <1>3, StepFrom

\* The two that take `control` keep the invariant.
LEMMA TakesStep ==
  ASSUME IInv, NEW e \in Execution,
         SteerBegins(e) \/ \E p \in Session : SpawnBegins(p, e)
  PROVE  IInv'
<1>1. StoreNext /\ EndsSome(row, row')
  BY QuietStore, Zenon DEF Quiet
<1>2. UNCHANGED queue /\ UNCHANGED tree /\ UNCHANGED troubles
  BY Zenon DEF SteerBegins, SpawnBegins
<1>3. QueueType /\ TreeType /\ TroublesType
  BY TypeParts, Zenon
<1>4. QueueType' /\ TreeType' /\ TroublesType'
  BY <1>2, <1>3, QueueStill, TreeStill, TroubleTyped
<1>5. UNCHANGED <<job, aborted>>
  BY <1>2, Zenon DEF queue
<1>6. SlotsFit'
  BY <1>1, <1>5, SlotsStill
<1>7. ControlInv' /\ ControlType'
  BY TakesControl, ControlTyped
<1> QED
  BY <1>1, <1>4, <1>6, <1>7, StepFrom

\* A spawn, step by step.
LEMMA SpawnStep ==
  ASSUME IInv, NEW e \in Execution, Spawn(e)
  PROVE  IInv'
<1>1. TreeType' /\ ControlType'
  BY SpawnTree, ControlTyped
<1>2. QueueType /\ TroublesType /\ ControlInv
  BY TypeParts, Zenon DEF IInv
<1>3. CASE SessionStarts(e)
  <2>1. StoreNext
    BY <1>3, SessionStartsStore, Zenon
  <2>2. UNCHANGED queue /\ UNCHANGED troubles
    BY <1>3, Zenon DEF SessionStarts
  <2>3. QueueType' /\ TroublesType'
    BY <1>2, <2>2, QueueStill, TroubleTyped
  <2>4. ControlInv' /\ SlotsFit'
    BY <1>3, SessionStartsControl, QueuedSlots
  <2> QED
    BY <1>1, <2>1, <2>3, <2>4, StepFrom
<1>4. CASE SpawnFails(e)
  <2>1. StoreNext /\ EndsSome(row, row')
    BY <1>4, QuietStore, Zenon DEF Quiet
  <2>2. UNCHANGED queue /\ UNCHANGED <<job, aborted>>
    BY <1>4, Zenon DEF SpawnFails, queue
  <2>3. QueueType' /\ SlotsFit'
    BY <1>2, <2>1, <2>2, QueueStill, SlotsStill
  <2>4. TroublesType'
    BY <1>2, <1>4, FailureTyped, Zenon DEF SpawnFails
  <2>5. ControlInv'
    BY <1>2, <1>4, <2>1, SpawnFailsControl, ControlKept, EndsLast
  <2> QED
    BY <1>1, <2>1, <2>3, <2>4, <2>5, StepFrom
<1>5. CASE SpawnEnds(e)
  <2>1. StoreNext /\ EndsSome(row, row')
    BY <1>5, SpawnEndsStore, Zenon
  <2>2. /\ UNCHANGED <<job, aborted, missed>> /\ unheard' \subseteq unheard /\ UNCHANGED troubles
        /\ Rescan \/ scan' = scan
        /\ control' = Free
    BY <1>5, Zenon DEF SpawnEnds
  <2>3. QueueType' /\ TroublesType'
    BY <1>2, <2>2, RescanQueue, TroubleTyped
  <2>4. UNCHANGED <<job, aborted>>
    BY <2>2, Zenon
  <2>5. SlotsFit'
    BY <2>1, <2>4, SlotsStill
  <2>6. ControlInv'
    BY <1>2, <2>1, <2>2, ControlFreed, ControlKept, EndsLast
  <2> QED
    BY <1>1, <2>1, <2>3, <2>5, <2>6, StepFrom
<1> QED
  BY <1>3, <1>4, <1>5, Zenon DEF Spawn

\* A continuation.
LEMMA SteerStep ==
  ASSUME IInv, NEW e \in Execution, Steer(e)
  PROVE  IInv'
<1>1. TreeType' /\ ControlType'
  BY SteerTree, ControlTyped
<1>2. QueueType /\ TroublesType /\ ControlInv
  BY TypeParts, Zenon DEF IInv
<1>3. CASE SteerEnds(e)
  <2>1. StoreNext
    BY <1>3, SteerEndsStore, Zenon
  <2>2. /\ UNCHANGED <<job, aborted, missed>> /\ unheard' \subseteq unheard /\ UNCHANGED troubles
        /\ Rescan /\ control' = Free
    BY <1>3, Zenon DEF SteerEnds
  <2>3. QueueType' /\ TroublesType'
    BY <1>2, <2>2, RescanQueue, TroubleTyped
  <2>4. SlotsFit'
    BY <1>3, QueuedSlots
  <2>5. ControlInv'
    BY <2>2 DEF ControlInv, Starting, Continuing, Free
  <2> QED
    BY <1>1, <2>1, <2>3, <2>4, <2>5, StepFrom
<1>4. CASE SteerFails(e)
  <2>1. StoreNext /\ EndsSome(row, row')
    BY <1>4, QuietStore, Zenon DEF Quiet
  <2>2. UNCHANGED queue /\ UNCHANGED <<job, aborted>> /\ control' = Free
    BY <1>4, Zenon DEF SteerFails, queue
  <2>3. QueueType' /\ SlotsFit'
    BY <1>2, <2>1, <2>2, QueueStill, SlotsStill
  <2>4. TroublesType'
    BY <1>2, <1>4, FailureTyped, Zenon DEF SteerFails
  <2>5. ControlInv'
    BY <1>2, <2>1, <2>2, ControlFreed, ControlKept, EndsLast
  <2> QED
    BY <1>1, <2>1, <2>3, <2>4, <2>5, StepFrom
<1> QED
  BY <1>3, <1>4, Zenon DEF Steer

\* A cancelled tree.
LEMMA CancellingStep ==
  ASSUME IInv, NEW s, NEW end \in Ends, Cancelling(s, end),
         UNCHANGED <<told, job, missed, control, sent, silenced, troubles>>, TreeType'
  PROVE  IInv'
<1>1. UNCHANGED <<told, sent, silenced>> /\ job' = job /\ UNCHANGED <<job, missed>>
      /\ UNCHANGED control /\ UNCHANGED troubles
  BY Zenon
<1>2. StoreNext /\ EndsSome(row, row')
  BY <1>1, CancellingStore
<1>3. SlotsFit' /\ QueueType'
  BY <1>1, CancellingSlots, CancellingQueue
<1>4. TroublesType'
  BY <1>1, TypeParts, TroubleTyped
<1> QED
  BY <1>1, <1>2, <1>3, <1>4, EndsLast, StepStill

\* A cancel by the parent.
LEMMA CancelStep ==
  ASSUME IInv, NEW e \in Execution, Cancel(e)
  PROVE  IInv'
<1>1. /\ Cancelling(e, "cancelled") /\ UNCHANGED tree
      /\ UNCHANGED <<told, job, missed, control, sent, silenced, troubles>>
  BY Zenon DEF Cancel
<1>2. "cancelled" \in Ends
  BY DEF Ends
<1>3. TreeType'
  BY <1>1, TypeParts, TreeStill
<1> QED
  BY <1>1, <1>2, <1>3, CancellingStep

\* The cancel of a shutdown.
LEMMA CancelAllStep ==
  ASSUME IInv, NEW s \in Session, CancelAll(s)
  PROVE  IInv'
<1>1. /\ Cancelling(s, "host_shutdown")
      /\ UNCHANGED <<told, job, missed, control, sent, silenced, troubles>>
  BY Zenon DEF CancelAll
<1>2. "host_shutdown" \in Ends
  BY DEF Ends
<1>3. TreeType'
  BY CloseTree DEF Closes
<1> QED
  BY <1>1, <1>2, <1>3, CancellingStep

\* A job.
LEMMA RunStep ==
  ASSUME IInv, NEW e \in Execution, Run(e)
  PROVE  IInv'
<1>1. CASE RunStarts(e)
  <2>1. StoreNext /\ EndsSome(row, row')
    BY <1>1, QuietStore, Zenon DEF Quiet
  <2>2. UNCHANGED control /\ UNCHANGED tree /\ UNCHANGED troubles
    BY <1>1, Zenon DEF RunStarts
  <2>3. TreeType' /\ TroublesType'
    BY <2>2, TypeParts, TreeStill, TroubleTyped
  <2>4. QueueType' /\ SlotsFit'
    BY <1>1, RunStartsQueue, RunStartsSlots
  <2> QED
    BY <2>1, <2>2, <2>3, <2>4, EndsLast, StepStill
<1>2. ASSUME NEW end \in {"completed", "failed"}, RunEnds(e, end)
      PROVE  IInv'
  <2>1. StoreNext /\ EndsSome(row, row')
    BY <1>2, RunEndsStore, Zenon
  <2>2. UNCHANGED control /\ UNCHANGED tree /\ UNCHANGED troubles
    BY <1>2, Zenon DEF RunEnds
  <2>3. TreeType' /\ TroublesType'
    BY <2>2, TypeParts, TreeStill, TroubleTyped
  <2>4. QueueType' /\ SlotsFit'
    BY <1>2, RunEndsQueue, RunEndsSlots
  <2> QED
    BY <2>1, <2>2, <2>3, <2>4, EndsLast, StepStill
<1>3. CASE JobLeaves(e)
  <2>1. StoreNext /\ EndsSome(row, row')
    BY <1>3, QuietStore, Zenon DEF Quiet
  <2>2. UNCHANGED control /\ UNCHANGED tree /\ UNCHANGED troubles
    BY <1>3, Zenon DEF JobLeaves
  <2>3. TreeType' /\ TroublesType'
    BY <2>2, TypeParts, TreeStill, TroubleTyped
  <2>4. QueueType' /\ SlotsFit'
    BY <1>3, RunEndsQueue, JobLeavesSlots
  <2> QED
    BY <2>1, <2>2, <2>3, <2>4, EndsLast, StepStill
<1> QED
  BY <1>1, <1>2, <1>3, Zenon DEF Run

\* A scan of the queue.
LEMMA ScanStep ==
  ASSUME IInv, Scan
  PROVE  IInv'
<1>1. StoreNext
  BY ScanStore, Zenon
<1>2. UNCHANGED control /\ UNCHANGED tree /\ UNCHANGED troubles
  BY Zenon DEF Scan
<1>3. TreeType' /\ TroublesType'
  BY <1>2, TypeParts, TreeStill, TroubleTyped
<1>4. QueueType' /\ SlotsFit'
  BY ScanQueue, ScanSlots
<1>5. Lasting(row, row')
  <2>1. PICK S \in SUBSET Eligible :
          \A e \in Execution : /\ row'[e].turn = row[e].turn
                               /\ e \in S => row'[e].state = "running"
                               /\ e \notin S => row'[e] = row[e]
    BY ScanStore, Zenon
  <2>2. \A e \in S : row[e].state = "queued"
    BY Zenon DEF Eligible, Queued
  <2> SUFFICES ASSUME NEW e \in Execution
               PROVE  /\ row'[e].state = "absent" <=> row[e].state = "absent"
                      /\ row[e].state = "done" => row'[e].state = "done"
                      /\ row'[e].turn = row[e].turn
    BY Zenon DEF Lasting
  <2>3. CASE e \in S
    <3>1. row[e].state = "queued" /\ row'[e].state = "running" /\ row'[e].turn = row[e].turn
      BY <2>1, <2>2, <2>3, Zenon
    <3> QED
      BY <3>1
  <2>4. CASE e \notin S
    BY <2>1, <2>4, Zenon
  <2> QED
    BY <2>3, <2>4, Zenon
<1> QED
  BY <1>1, <1>2, <1>3, <1>4, <1>5, StepStill

\* Steps that leave the queue alone, and the control.
LEMMA ApartStep ==
  ASSUME IInv, StoreNext, EndsSome(row, row'), UNCHANGED queue, UNCHANGED control,
         TreeType', Trouble \/ UNCHANGED troubles
  PROVE  IInv'
<1>1. QueueType /\ TroublesType
  BY TypeParts, Zenon
<1>2. QueueType' /\ TroublesType'
  BY <1>1, QueueStill, TroubleTyped
<1>3. UNCHANGED <<job, aborted>>
  BY Zenon DEF queue
<1>4. SlotsFit'
  BY <1>3, SlotsStill
<1> QED
  BY <1>2, <1>4, EndsLast, StepStill

\* What is told, sent, settled or lost.
LEMMA TellStep ==
  ASSUME IInv,
         \/ \E e \in Execution : RetryFires(e) \/ Acknowledge(e)
         \/ \E n \in Notice : Tell(n) \/ DropSent(n) \/ SendFails(n)
  PROVE  IInv'
<1>1. ASSUME StoreNext, EndsSome(row, row'), UNCHANGED queue, UNCHANGED control,
             UNCHANGED tree, Trouble \/ UNCHANGED troubles
      PROVE  IInv'
  <2>1. TreeType'
    BY <1>1, TypeParts, TreeStill
  <2> QED
    BY <1>1, <2>1, ApartStep
<1>2. ASSUME NEW e \in Execution, RetryFires(e) PROVE IInv'
  <2>1. UNCHANGED queue /\ UNCHANGED control /\ UNCHANGED tree /\ UNCHANGED troubles
    BY <1>2, Zenon DEF RetryFires
  <2> QED
    BY <1>1, <1>2, <2>1, RetryStore, Zenon
<1>3. ASSUME NEW e \in Execution, Acknowledge(e) PROVE IInv'
  <2>1. UNCHANGED queue /\ UNCHANGED control /\ UNCHANGED tree /\ UNCHANGED troubles
    BY <1>3, Zenon DEF Acknowledge
  <2> QED
    BY <1>1, <1>3, <2>1, AcknowledgeStore, Zenon
<1>4. ASSUME NEW n \in Notice, Send(n) PROVE IInv'
  <2>1. UNCHANGED queue /\ UNCHANGED control /\ UNCHANGED tree /\ UNCHANGED troubles
    BY <1>4, Zenon DEF Send
  <2> QED
    BY <1>1, <1>4, <2>1, SendStore, Zenon
<1>5. ASSUME NEW n \in Notice, Persist(n) PROVE IInv'
  <2>1. UNCHANGED queue /\ UNCHANGED control /\ UNCHANGED tree /\ UNCHANGED troubles
    BY <1>5, Zenon DEF Persist
  <2> QED
    BY <1>1, <1>5, <2>1, PersistStore, Zenon
<1>6. ASSUME NEW n \in Notice, DropSent(n) \/ SendFails(n) PROVE IInv'
  <2>1. UNCHANGED queue /\ UNCHANGED control /\ UNCHANGED tree /\ Trouble
    BY <1>6, Zenon DEF DropSent, SendFails
  <2>2. StoreNext /\ EndsSome(row, row')
    BY <1>6, QuietStore, Zenon DEF Quiet
  <2> QED
    BY <1>1, <2>1, <2>2, Zenon
<1> QED
  BY <1>2, <1>3, <1>4, <1>5, <1>6, Zenon DEF Tell

\* Sessions that are closed, evicted and restored.
LEMMA CloseStep ==
  ASSUME IInv, NEW s \in Session,
         BeginClose(s) \/ Evict(s) \/ Restore(s) \/ Closes(s), ~CancelAll(s)
  PROVE  IInv'
<1>1. \/ BeginClose(s) \/ Evict(s) \/ Restore(s)
      \/ Shutdown(s) \/ HostShut(s) \/ CloseChildren(s) \/ Dispose(s)
  BY Zenon DEF Closes
<1>2. StoreNext /\ EndsSome(row, row')
  BY <1>1, QuietStore, Zenon DEF Quiet
<1>3. UNCHANGED queue /\ UNCHANGED control /\ (Trouble \/ UNCHANGED troubles)
  BY <1>1, Zenon DEF BeginClose, Evict, Restore, Shutdown, HostShut, CloseChildren, Dispose
<1>4. TreeType'
  BY CloseTree
<1> QED
  BY <1>2, <1>3, <1>4, ApartStep

\* Operations that hold the tree.
LEMMA HoldStep ==
  ASSUME IInv, NEW k \in Holds, HoldBegins(k) \/ HoldEnds(k)
  PROVE  IInv'
<1>1. StoreNext /\ EndsSome(row, row')
  BY QuietStore, Zenon DEF Quiet
<1>2. TreeType'
  BY HoldTree
<1>3. CASE HoldBegins(k)
  <2>1. UNCHANGED queue /\ UNCHANGED control /\ Trouble
    BY <1>3 DEF HoldBegins
  <2> QED
    BY <1>1, <1>2, <2>1, ApartStep
<1>4. CASE HoldEnds(k)
  <2>1. /\ UNCHANGED <<job, aborted, missed>> /\ unheard' \subseteq unheard /\ UNCHANGED control /\ UNCHANGED troubles
        /\ Rescan \/ scan' = scan
    BY <1>4, Zenon DEF HoldEnds
  <2>2. QueueType /\ TroublesType
    BY TypeParts, Zenon
  <2>3. QueueType' /\ TroublesType'
    BY <2>1, <2>2, RescanQueue, TroubleTyped
  <2>4. UNCHANGED <<job, aborted>>
    BY <2>1, Zenon
  <2>5. SlotsFit'
    BY <1>1, <2>4, SlotsStill
  <2> QED
    BY <1>1, <1>2, <2>1, <2>3, <2>5, EndsLast, StepStill
<1> QED
  BY <1>3, <1>4, Zenon

\* A reload that fails.
LEMMA ReloadFailsStep ==
  ASSUME IInv, ReloadFails
  PROVE  IInv'
<1>1. StoreNext /\ EndsSome(row, row')
  BY QuietStore, Zenon DEF Quiet
<1>2. /\ UNCHANGED <<job, aborted>> /\ UNCHANGED control /\ UNCHANGED troubles
      /\ UNCHANGED <<scan, unheard, resident, host, closing, closed>>
      /\ missed' = TRUE /\ held' \subseteq held
  BY Zenon DEF ReloadFails
<1>3. QueueType /\ TreeType /\ TroublesType
  BY TypeParts, Zenon
<1>4. QueueType'
  BY <1>2, <1>3 DEF QueueType
<1>5. TreeType' /\ TroublesType'
  BY <1>2, <1>3 DEF TreeType, TroublesType
<1>6. SlotsFit'
  BY <1>1, <1>2, SlotsStill
<1> QED
  BY <1>1, <1>2, <1>4, <1>5, <1>6, EndsLast, StepStill

\* A death and the recovery of the rows.
LEMMA CrashStep ==
  ASSUME IInv, Crash
  PROVE  IInv'
<1>1. StoreNext /\ EndsSome(row, row')
  BY CrashStore, Zenon
<1>2. TreeType' /\ ControlType' /\ QueueType' /\ SlotsFit'
  BY CrashTree, CrashQueue, CrashSlots
<1>3. TroublesType'
  <2>1. Trouble
    BY Zenon DEF Crash
  <2> QED
    BY <2>1, TypeParts, TroubleTyped
<1>4. ControlInv'
  <2>1. control' = Free
    BY Zenon DEF Crash
  <2>2. ControlInv
    BY Zenon DEF IInv
  <2> QED
    BY <1>1, <2>1, <2>2, ControlFreed, ControlKept, EndsLast
<1> QED
  BY <1>1, <1>2, <1>3, <1>4, StepFrom

\* Every step keeps the invariant.
LEMMA Inductive ==
  ASSUME IInv, [Next]_vars
  PROVE  IInv'
<1>1. ASSUME NEW e \in Execution,
             \/ \E p \in Session : SpawnBegins(p, e)
             \/ Spawn(e) \/ SteerBegins(e) \/ Steer(e) \/ Cancel(e)
             \/ Run(e) \/ RetryFires(e) \/ Acknowledge(e)
      PROVE  IInv'
  BY <1>1, TakesStep, SpawnStep, SteerStep, CancelStep, RunStep, TellStep, Zenon
<1>2. ASSUME NEW n \in Notice, Tell(n) \/ DropSent(n) \/ SendFails(n)
      PROVE  IInv'
  BY <1>2, TellStep, Zenon
<1>3. ASSUME NEW s \in Session, BeginClose(s) \/ Evict(s) \/ Restore(s) \/ Closes(s)
      PROVE  IInv'
  BY <1>3, CloseStep, CancelAllStep, Zenon
<1>4. ASSUME NEW k \in Holds, HoldBegins(k) \/ HoldEnds(k)
      PROVE  IInv'
  BY <1>4, HoldStep, Zenon
<1>5. CASE UNCHANGED vars
  <2>1. UNCHANGED <<row, told, waiting, sent, silenced>> /\ UNCHANGED queue /\ UNCHANGED control
        /\ UNCHANGED tree /\ UNCHANGED troubles /\ retry' = retry
    BY <1>5, Zenon DEF vars, store, port
  <2>2. retry' \subseteq Execution
    BY <2>1, Zenon DEF IInv, TypeOK
  <2>3. StoreNext /\ EndsSome(row, row')
    BY <2>1, <2>2, StillStore
  <2>4. TreeType'
    BY <2>1, TypeParts, TreeStill
  <2> QED
    BY <2>1, <2>3, <2>4, ApartStep
<1> QED
  BY <1>1, <1>2, <1>3, <1>4, <1>5, ScanStep, CrashStep, ReloadFailsStep, Zenon DEF Next

\* The invariant holds at first.
LEMMA Initially ==
  ASSUME Init
  PROVE  IInv
<1>1. Root \in Session /\ NoRow \in Row
  BY ExecutionsAssumption DEF Session, NoRow, Row, States, Ends
<1>2. row \in [Execution -> Row] /\ \A e \in Execution : row[e] = NoRow
  BY <1>1 DEF Init
<1>3. NoRow.state = "absent" /\ NoRow.turn = 0 /\ ~NoRow.pending
  BY DEF NoRow
<1>4. ASSUME NEW e \in Execution
      PROVE  /\ row[e].state = "absent" /\ row[e].turn = 0 /\ ~row[e].pending
             /\ row[e].state # "running"
  <2>1. ~("running" = "absent")
    OBVIOUS
  <2> QED
    BY <1>2, <1>3, <2>1, Zenon
<1>5. RowInv(row)
  BY <1>4, Zenon DEF RowInv
<1>6. TypeOK
  <2>1. /\ told \in [Notice -> Nat]
        /\ job \in [Execution -> {"none", "scheduled", "prompting", "leaving"}]
        /\ aborted = {} /\ scan \in BOOLEAN /\ missed \in BOOLEAN /\ unheard = {}
        /\ troubles \in 0 .. MaxTroubles
    <3>1. told \in [Notice -> Nat] /\ job \in [Execution -> {"none", "scheduled", "prompting", "leaving"}]
      BY DEF Init
    <3>2. aborted = {} /\ scan = FALSE /\ missed = FALSE /\ unheard = {} /\ troubles = 0
      BY Zenon DEF Init
    <3>3. troubles \in 0 .. MaxTroubles
      BY <3>2, ExecutionsAssumption
    <3>4. scan \in BOOLEAN /\ missed \in BOOLEAN
      BY <3>2
    <3> QED
      BY <3>1, <3>2, <3>3, <3>4, Zenon
  <2>2. /\ control \in {Free} /\ retry = {} /\ resident \subseteq Session
        /\ host \in [Session -> {"active", "shutting", "cancelling", "joining", "shut"}]
        /\ closing = {} /\ closed = {} /\ held = {} /\ waiting = {} /\ sent = {}
        /\ silenced = {}
    BY <1>1 DEF Init
  <2> QED
    BY <1>2, <2>1, <2>2 DEF TypeOK, Row, States
<1>7. PortInv(row, waiting, sent, told)
  BY DEF Init, PortInv
<1>8. ControlInv
  BY DEF Init, ControlInv, Starting, Continuing, Free
<1>9. SlotsFit
  <2>1. Jobs = {}
    BY DEF Init, Jobs
  <2>2. Cardinality(Jobs) = 0
    BY <2>1, FS_EmptySet, Zenon
  <2>3. Cardinality(Jobs) <= Concurrency
    BY <2>2, ExecutionsAssumption
  <2> QED
    BY <1>4, <2>3, Zenon DEF SlotsFit
<1> QED
  BY <1>5, <1>6, <1>7, <1>8, <1>9, Zenon DEF IInv

-----------------------------------------------------------------------------
(* The refinement of Tasks.                                                *)

PhaseOf(r) == [e \in Execution |-> r[e].state]
TurnOf(r) == [e \in Execution |-> r[e].turn]

\* Rows that end are tasks that end; none may.
LEMMA EndsRefine ==
  ASSUME IInv, EndsSome(row, row'), told' = told
  PROVE  Promise!Next
<1>1. \A e \in Execution :
        /\ row'[e].turn = row[e].turn
        /\ row'[e].state # row[e].state =>
             row[e].state \in {"queued", "running"} /\ row'[e].state = "done"
  BY Zenon DEF EndsSome
<1>2. PICK S \in SUBSET Execution : \A e \in Execution : e \in S <=> row'[e].state # row[e].state
  <2>1. {e \in Execution : row'[e].state # row[e].state} \in SUBSET Execution
    OBVIOUS
  <2> QED
    BY <2>1
<1>3. S \subseteq Promise!In("queued") \cup Promise!In("running")
  BY <1>1, <1>2 DEF Promise!In
<1>4. PhaseOf(row') = Promise!Moved(S, "done")
  BY <1>1, <1>2 DEF PhaseOf, Promise!Moved
<1>5. TurnOf(row') = TurnOf(row)
  BY <1>1 DEF TurnOf
<1>6. Promise!End(S)
  BY <1>3, <1>4, <1>5 DEF Promise!End, PhaseOf, TurnOf
<1> QED
  BY <1>6 DEF Promise!Next

\* A row that is queued is a turn that begins.
LEMMA QueuedRefines ==
  ASSUME IInv, NEW e \in Execution, told' = told,
         row[e].state \in {"absent", "done"}, row'[e].state = "queued",
         row'[e].turn = row[e].turn + 1,
         \A d \in Execution \ {e} : row'[d] = row[d]
  PROVE  Promise!Next
<1>1. PhaseOf(row') = Promise!Moved({e}, "queued")
  BY DEF PhaseOf, Promise!Moved
<1>2. TurnOf(row') = [TurnOf(row) EXCEPT ![e] = @ + 1]
  BY DEF TurnOf
<1>3. PhaseOf(row)[e] \in {"absent", "done"}
  BY DEF PhaseOf
<1>4. Promise!Begin(e)
  BY <1>1, <1>2, <1>3 DEF Promise!Begin, PhaseOf, TurnOf
<1> QED
  BY <1>4 DEF Promise!Next

\* Tasks counts as this module does.
LEMMA SameCardinality ==
  ASSUME NEW S
  PROVE  Promise!Cardinality(S) = Cardinality(S)
  BY Zenon DEF Promise!Cardinality, Cardinality

\* A scan is a start of the rows it finds slots for.
LEMMA ScanRefines ==
  ASSUME IInv, Scan
  PROVE  Promise!Next
<1>1. PICK S \in SUBSET Eligible :
        /\ Starts(S)
        /\ \A e \in Execution : /\ row'[e].turn = row[e].turn
                                /\ e \in S => row'[e].state = "running"
                                /\ e \notin S => row'[e] = row[e]
  BY ScanStore, Zenon
<1>2. /\ S \in SUBSET Execution /\ S \cap Jobs = {}
      /\ Cardinality(Jobs) + Cardinality(S) <= Concurrency
  BY <1>1, ScanSlots, Zenon
<1>3. \A e \in S : row[e].state = "queued"
  BY Zenon DEF Eligible, Queued
<1>4. S \subseteq Promise!In("queued")
  BY <1>2, <1>3 DEF Promise!In
<1>5. Promise!In("running") \subseteq Jobs
  BY DEF Promise!In, Jobs, IInv, SlotsFit, Live
<1>6. Jobs \in SUBSET Execution
  BY DEF Jobs
<1>7. /\ IsFiniteSet(Jobs) /\ Cardinality(Jobs) \in Nat /\ Cardinality(S) \in Nat
  BY <1>2, <1>6, JobsFinite
<1>8. Promise!In("running") \in SUBSET Execution
  BY <1>5, <1>6
<1>9. Cardinality(Promise!In("running")) \in Nat
  BY <1>8, JobsFinite
<1>10. Cardinality(Promise!In("running")) <= Cardinality(Jobs)
  BY <1>5, <1>7, FS_Subset
<1>11. Cardinality(Promise!In("running")) + Cardinality(S) <= Concurrency
  BY <1>2, <1>7, <1>9, <1>10, ExecutionsAssumption
<1>12. PhaseOf(row') = Promise!Moved(S, "running")
  BY <1>1 DEF PhaseOf, Promise!Moved
<1>13. TurnOf(row') = TurnOf(row)
  BY <1>1 DEF TurnOf
<1>14. told' = told
  BY Zenon DEF Scan
<1>15. Promise!Start(S)
  BY <1>4, <1>11, SameCardinality, <1>12, <1>13, <1>14 DEF Promise!Start, PhaseOf, TurnOf
<1> QED
  BY <1>2, <1>15 DEF Promise!Next

\* A notice in the transcript is an end that was not told before.
LEMMA PersistRefines ==
  ASSUME IInv, NEW n \in Notice, Persist(n)
  PROVE  Promise!Next
<1>1. /\ OverIn(row, n) /\ told[n] = 0
      /\ told' = [told EXCEPT ![n] = 1] /\ row' = row
  BY PersistStore, Zenon
<1>2. PICK e \in Execution, k \in Turn : n = <<e, k>>
  BY DEF Notice
<1>3. n[1] = e /\ n[2] = k
  BY <1>2
<1>4. k < row[e].turn \/ (k = row[e].turn /\ row[e].state = "done")
  BY <1>1, <1>3, Zenon DEF OverIn
<1>5. k < TurnOf(row)[e] \/ (k = TurnOf(row)[e] /\ PhaseOf(row)[e] = "done")
  BY <1>4 DEF TurnOf, PhaseOf
<1>6. PhaseOf(row') = PhaseOf(row) /\ TurnOf(row') = TurnOf(row)
  BY <1>1 DEF TurnOf, PhaseOf
<1>7. Promise!Tell(e, k)
  BY <1>1, <1>2, <1>5, <1>6 DEF Promise!Tell, PhaseOf, TurnOf
<1> QED
  BY <1>7 DEF Promise!Next

\* Every step is a step of Tasks or leaves the promised alone.
LEMMA Refines ==
  ASSUME IInv, [Next]_vars
  PROVE  Promise!Next \/ UNCHANGED <<PhaseOf(row), TurnOf(row), told>>
<1>1. ASSUME EndsSome(row, row'), told' = told
      PROVE  Promise!Next
  BY <1>1, EndsRefine
<1>2. ASSUME NEW e \in Execution, Spawn(e)
      PROVE  Promise!Next
  <2>1. CASE SessionStarts(e)
    <3>1. /\ row[e].state = "absent" /\ row'[e].state = "queued"
          /\ row[e].turn = 0 /\ row'[e].turn = 1
          /\ \A d \in Execution \ {e} : row'[d] = row[d]
      BY <2>1, SessionStartsStore, Zenon
    <3>2. told' = told
      BY <2>1, Zenon DEF SessionStarts
    <3>3. row[e].state \in {"absent", "done"} /\ row'[e].turn = row[e].turn + 1
      BY <3>1
    <3> QED
      BY <3>1, <3>2, <3>3, QueuedRefines
  <2>2. CASE SpawnFails(e)
    BY <1>1, <2>2, QuietStore, Zenon DEF Quiet
  <2>3. CASE SpawnEnds(e)
    <3>1. told' = told
      BY <2>3, Zenon DEF SpawnEnds
    <3> QED
      BY <1>1, <2>3, <3>1, SpawnEndsStore, Zenon
  <2> QED
    BY <1>2, <2>1, <2>2, <2>3, Zenon DEF Spawn
<1>3. ASSUME NEW e \in Execution, Steer(e)
      PROVE  Promise!Next
  <2>1. CASE SteerEnds(e)
    <3>1. /\ row[e].state = "done" /\ row'[e].state = "queued"
          /\ row'[e].turn = row[e].turn + 1
          /\ \A d \in Execution \ {e} : row'[d] = row[d]
      BY <2>1, SteerEndsStore, Zenon
    <3>2. told' = told
      BY <2>1, Zenon DEF SteerEnds
    <3>3. row[e].state \in {"absent", "done"}
      BY <3>1
    <3> QED
      BY <3>1, <3>2, <3>3, QueuedRefines
  <2>2. CASE SteerFails(e)
    BY <1>1, <2>2, QuietStore, Zenon DEF Quiet
  <2> QED
    BY <1>3, <2>1, <2>2, Zenon DEF Steer
<1>4. ASSUME NEW e \in Execution, RetryFires(e) \/ Acknowledge(e)
      PROVE  Promise!Next
  <2>1. told' = told
    BY <1>4, Zenon DEF RetryFires, Acknowledge
  <2> QED
    BY <1>1, <1>4, <2>1, RetryStore, AcknowledgeStore, Zenon
<1>5. ASSUME NEW e \in Execution, Run(e)
      PROVE  Promise!Next
  <2>1. CASE RunStarts(e) \/ JobLeaves(e)
    BY <1>1, <2>1, QuietStore, Zenon DEF Quiet
  <2>2. ASSUME NEW end \in {"completed", "failed"}, RunEnds(e, end)
        PROVE  Promise!Next
    <3>1. told' = told
      BY <2>2, Zenon DEF RunEnds
    <3> QED
      BY <1>1, <2>2, <3>1, RunEndsStore, Zenon
  <2> QED
    BY <1>5, <2>1, <2>2, Zenon DEF Run
<1>6. ASSUME NEW s, NEW end \in Ends, Cancelling(s, end), UNCHANGED <<told, sent, silenced>>
      PROVE  Promise!Next
  <2>1. EndsSome(row, row') /\ told' = told
    BY <1>6, CancellingStore, Zenon
  <2> QED
    BY <1>1, <2>1, Zenon
<1>7. ASSUME NEW e \in Execution, Cancel(e)
      PROVE  Promise!Next
  <2>1. Cancelling(e, "cancelled") /\ UNCHANGED <<told, sent, silenced>>
    BY <1>7, Zenon DEF Cancel
  <2>2. "cancelled" \in Ends
    BY DEF Ends
  <2> QED
    BY <1>6, <2>1, <2>2, Zenon
<1>8. ASSUME NEW e \in Execution,
             SteerBegins(e) \/ \E p \in Session : SpawnBegins(p, e)
      PROVE  Promise!Next
  BY <1>1, <1>8, QuietStore, Zenon DEF Quiet
<1>9. ASSUME NEW n \in Notice, Tell(n) \/ DropSent(n) \/ SendFails(n)
      PROVE  Promise!Next
  <2>1. CASE Send(n)
    <3>1. told' = told
      BY <2>1, Zenon DEF Send, store
    <3> QED
      BY <1>1, <2>1, <3>1, SendStore, Zenon
  <2>2. CASE Persist(n)
    BY <2>2, PersistRefines
  <2>3. CASE DropSent(n) \/ SendFails(n)
    BY <1>1, <2>3, QuietStore, Zenon DEF Quiet
  <2> QED
    BY <1>9, <2>1, <2>2, <2>3, Zenon DEF Tell
<1>10. ASSUME NEW s \in Session, BeginClose(s) \/ Evict(s) \/ Restore(s) \/ Closes(s)
       PROVE  Promise!Next
  <2>1. CASE CancelAll(s)
    <3>1. Cancelling(s, "host_shutdown") /\ UNCHANGED <<told, sent, silenced>>
      BY <2>1, Zenon DEF CancelAll
    <3>2. "host_shutdown" \in Ends
      BY DEF Ends
    <3> QED
      BY <1>6, <3>1, <3>2, Zenon
  <2>2. CASE ~CancelAll(s)
    BY <1>1, <1>10, <2>2, QuietStore, Zenon DEF Quiet, Closes
  <2> QED
    BY <2>1, <2>2, Zenon
<1>11. ASSUME NEW k \in Holds, HoldBegins(k) \/ HoldEnds(k)
       PROVE  Promise!Next
  BY <1>1, <1>11, QuietStore, Zenon DEF Quiet
<1>12. CASE Crash
  <2>1. told' = told
    BY <1>12, Zenon DEF Crash
  <2> QED
    BY <1>1, <1>12, <2>1, CrashStore, Zenon
<1>14. CASE ReloadFails
  BY <1>1, <1>14, QuietStore, Zenon DEF Quiet
<1>13. CASE UNCHANGED vars
  <2>1. row' = row /\ told' = told
    BY <1>13, Zenon DEF vars, store
  <2> QED
    BY <2>1, Zenon
<1> QED
  BY <1>2, <1>3, <1>4, <1>5, <1>7, <1>8, <1>9, <1>10, <1>11, <1>12, <1>13, <1>14, ScanRefines,
     Zenon DEF Next

\* At first no task is there and nothing is told.
LEMMA RefinesInitially ==
  ASSUME Init
  PROVE  Promise!Init
<1>1. \A e \in Execution : row[e] = NoRow
  BY Zenon DEF Init
<1>2. NoRow.state = "absent" /\ NoRow.turn = 0
  BY DEF NoRow
<1>3. /\ PhaseOf(row) = [e \in Execution |-> "absent"]
      /\ TurnOf(row) = [e \in Execution |-> 0]
  BY <1>1, <1>2 DEF PhaseOf, TurnOf
<1>4. told = [n \in Execution \X Turn |-> 0]
  BY DEF Init, Notice
<1> QED
  BY <1>3, <1>4 DEF Promise!Init, PhaseOf, TurnOf
-----------------------------------------------------------------------------
(* What a close leaves behind.                                             *)

\* Neither does the row of e wait or run, nor has it a job.
AtRest(e) == e \notin Unfinished \cup Jobs

\* Jobs, and sessions that are or were closed, have rows; the rows are a tree.
KnownInv ==
  /\ Jobs \subseteq Known
  /\ closing \cup closed \subseteq Known \cup {Root}
  /\ \A e \in Known : row[e].parent \in Known \cup {Root}
  /\ Known \subseteq Below(Root)

\* The tree is no deeper than it may be.
DepthInv == \A e \in Known : Depth(e) <= MaxDepth

\* What has no runtime is at rest, and so is what a shutdown has joined.
OwnInv ==
  \A e \in Execution :
    /\ e \notin resident => AtRest(e)
    /\ host[e] = "joining" => e \notin Unfinished
    /\ host[e] = "shut" => AtRest(e)

\* p spawns, and the session of the child is not there yet.
OpensFrom(p) == control.op = "spawn" /\ control.step = "opening" /\ control.parent = p

\* Until the child of a spawn is there its parent is neither shut down nor closed.
CallInv ==
  /\ control.op = "spawn" => ChildrenOf(control.child) = {}
  /\ control.op = "steer" => control.child \in Known /\ row[control.child].parent = control.parent
  /\ \A p \in Session :
       OpensFrom(p) =>
         /\ p \in Known \cup {Root} /\ Depth(p) < MaxDepth
         /\ p \in resident => host[p] = "active"
         /\ p \in closed => p \in closing

\* A root that reloads is not closed.
ReloadInv == "reload" \in held => host[Root] = "active" /\ Root \notin closing \cup closed

\* What the shutdown of the root has cancelled and joined stays so.
RootInv ==
  /\ host[Root] \in {"joining", "shut"} => control = Free /\ Unfinished = {}
  /\ host[Root] = "shut" => Jobs = {}

\* A closed session has no runtime, and what is directly below it is at rest.
ClosedInv ==
  /\ closed \cap resident = {}
  /\ \A c \in closed : \A e \in ChildrenOf(c) : AtRest(e)

CloseInv ==
  KnownInv /\ DepthInv /\ OwnInv /\ CallInv /\ ReloadInv /\ RootInv /\ ClosedInv

\* The tree of the rows stays as it is.
SameTree ==
  \A e \in Execution : /\ row'[e].state = "absent" <=> row[e].state = "absent"
                       /\ row'[e].parent = row[e].parent

\* So does what is known of it.
LEMMA TreeKept ==
  ASSUME SameTree
  PROVE  /\ Known' = Known
         /\ \A s : /\ ChildrenOf(s)' = ChildrenOf(s) /\ Below(s)' = Below(s)
                   /\ Depth(s)' = Depth(s)
<1>1. Known' = Known
  BY DEF SameTree, Known
<1>2. \A e \in Known : e \in Execution /\ row'[e].parent = row[e].parent
  BY DEF SameTree, Known
<1>3. ASSUME NEW s
      PROVE  ChildrenOf(s)' = ChildrenOf(s)
  <2>1. {e \in Known' : row'[e].parent = s} = {e \in Known : row[e].parent = s}
    BY <1>1, <1>2
  <2> QED
    BY <2>1, Zenon DEF ChildrenOf
<1>4. ASSUME NEW s
      PROVE  Below(s)' = Below(s)
  <2>1. ASSUME NEW S
        PROVE  (\A e \in Known' : row'[e].parent \in S => e \in S)
                 <=> (\A e \in Known : row[e].parent \in S => e \in S)
    BY <1>1, <1>2, Zenon
  <2>2. {d \in Session : \A S \in SUBSET Session :
           s \in S /\ (\A e \in Known' : row'[e].parent \in S => e \in S) => d \in S}
        = {d \in Session : \A S \in SUBSET Session :
             s \in S /\ (\A e \in Known : row[e].parent \in S => e \in S) => d \in S}
    BY <2>1, Zenon
  <2> QED
    BY <2>2, Zenon DEF Below
<1>5. ASSUME NEW s
      PROVE  Depth(s)' = Depth(s)
  <2>1. {a \in Session : s \in Below(a)'} = {a \in Session : s \in Below(a)}
    BY <1>4, Zenon
  <2> QED
    BY <2>1, Zenon DEF Depth
<1> QED
  BY <1>1, <1>3, <1>4, <1>5, Zenon

\* A session is below itself, its children with it; and nothing else has to be.
LEMMA BelowClosed ==
  ASSUME NEW s \in Session
  PROVE  /\ s \in Below(s) /\ Below(s) \subseteq Session
         /\ \A e \in Known : row[e].parent \in Below(s) => e \in Below(s)
<1>1. Known \subseteq Session
  BY DEF Known, Session
<1> QED
  BY <1>1 DEF Below

LEMMA BelowLeast ==
  ASSUME NEW s, NEW S \in SUBSET Session, s \in S,
         \A e \in Known : row[e].parent \in S => e \in S
  PROVE  Below(s) \subseteq S
  BY DEF Below

\* What is below what is below s is below s.
LEMMA BelowBelow ==
  ASSUME NEW s \in Session, NEW d \in Below(s)
  PROVE  Below(d) \subseteq Below(s)
  BY BelowClosed, BelowLeast

\* A child e of p that was not there: it is below what p is below, and no more.
Sprouts(p, e) ==
  /\ p \in Known \cup {Root} /\ e \notin Known
  /\ Known' = Known \cup {e} /\ row'[e].parent = p
  /\ \A x \in Known : row'[x].parent = row[x].parent

LEMMA SproutBelow ==
  ASSUME KnownInv, NEW p \in Session, NEW e \in Execution, Sprouts(p, e)
  PROVE  \A a \in Session :
           /\ Below(a) \subseteq Below(a)'
           /\ \A d \in Below(a)' : d \in Below(a) \/ (d = e /\ p \in Below(a))
<1>0. /\ p # e /\ e \in Session /\ e \notin Known
      /\ \A x \in Known : row[x].parent # e
  BY ExecutionsAssumption DEF KnownInv, Sprouts, Session, Known
<1>1. ASSUME NEW a \in Session
      PROVE  Below(a) \subseteq Below(a)'
  BY DEF Below, Sprouts
<1>2. ASSUME NEW a \in Session, NEW d \in Below(a)'
      PROVE  d \in Below(a) \/ (d = e /\ p \in Below(a))
  <2> DEFINE T == Below(a) \cup {x \in {e} : p \in Below(a)}
  <2>1. a \in T /\ T \in SUBSET Session
    BY <1>0, BelowClosed
  <2>2. \A x \in Known' : row'[x].parent \in T => x \in T
    <3> SUFFICES ASSUME NEW x \in Known', row'[x].parent \in T
                 PROVE  x \in T
      OBVIOUS
    <3>1. CASE x = e
      BY <1>0, <3>1, BelowClosed DEF Sprouts
    <3>2. CASE x # e
      <4>1. x \in Known /\ row'[x].parent = row[x].parent
        BY <3>2 DEF Sprouts
      <4>2. row[x].parent \in Below(a)
        BY <1>0, <4>1
      <4> QED
        BY <4>1, <4>2, BelowClosed
    <3> QED
      BY <3>1, <3>2
  <2> HIDE DEF T
  <2>3. d \in T
    BY <1>2, <2>1, <2>2 DEF Below
  <2> QED
    BY <2>3 DEF T
<1> QED
  BY <1>1, <1>2

\* What is above a session is finite.
LEMMA AboveFinite ==
  ASSUME NEW A \in SUBSET Session
  PROVE  IsFiniteSet(A) /\ Cardinality(A) \in Nat
<1>1. IsFiniteSet(Execution)
  BY ExecutionsAssumption
<1>2. IsFiniteSet(Session)
  BY <1>1, FS_AddElement DEF Session
<1>3. IsFiniteSet(A)
  BY <1>2, FS_Subset
<1> QED
  BY <1>3, FS_CardinalityType

\* Depths when a child is added: it is one deeper than its parent.
LEMMA SproutDepth ==
  ASSUME KnownInv, NEW p \in Session, NEW e \in Execution, Sprouts(p, e)
  PROVE  /\ Depth(p) \in Int /\ Depth(e)' \in Int
         /\ Depth(e)' <= Depth(p) + 1
         /\ \A d \in Session : d # e => /\ Depth(d) \in Int /\ Depth(d)' \in Int
                                        /\ Depth(d)' <= Depth(d)
<1> DEFINE A(d) == {a \in Session : d \in Below(a)}
           B(d) == {a \in Session : d \in Below(a)'}
<1>1. \A d : /\ IsFiniteSet(A(d)) /\ Cardinality(A(d)) \in Nat
             /\ IsFiniteSet(B(d)) /\ Cardinality(B(d)) \in Nat
  BY AboveFinite
<1>2. \A d : Depth(d) = Cardinality(A(d)) - 1 /\ Depth(d)' = Cardinality(B(d)) - 1
  BY DEF Depth
<1>3. ASSUME NEW d \in Session, d # e
      PROVE  Cardinality(B(d)) <= Cardinality(A(d))
  <2>1. B(d) \subseteq A(d)
    BY <1>3, SproutBelow
  <2> QED
    BY <1>1, <2>1, FS_Subset
<1>4. Cardinality(B(e)) <= Cardinality(A(p)) + 1
  <2>0. e \notin Known /\ e # Root /\ Known \subseteq Session
    BY ExecutionsAssumption DEF Sprouts, Known, Session
  <2>1. B(e) \subseteq A(p) \cup {e}
    <3> SUFFICES ASSUME NEW a \in Session, e \in Below(a)', a # e
                 PROVE  p \in Below(a)
      OBVIOUS
    <3>1. e \in Below(a) \/ p \in Below(a)
      BY SproutBelow
    <3>2. e \notin Below(a)
      <4> DEFINE T == Session \ {e}
      <4>1. a \in T /\ T \in SUBSET Session
        OBVIOUS
      <4>2. \A x \in Known : row[x].parent \in T => x \in T
        BY <2>0
      <4> HIDE DEF T
      <4>3. Below(a) \subseteq T
        BY <4>1, <4>2, BelowLeast
      <4> QED
        BY <4>3 DEF T
    <3> QED
      BY <3>1, <3>2
  <2>2. IsFiniteSet(A(p) \cup {e}) /\ Cardinality(A(p) \cup {e}) \in Nat
        /\ Cardinality(A(p) \cup {e}) <= Cardinality(A(p)) + 1
    <3> HIDE DEF A
    <3>1. /\ IsFiniteSet(A(p)) /\ Cardinality(A(p)) \in Nat
      BY <1>1
    <3>2. /\ IsFiniteSet(A(p) \cup {e})
          /\ Cardinality(A(p) \cup {e}) = IF e \in A(p) THEN Cardinality(A(p)) ELSE Cardinality(A(p)) + 1
      BY <3>1, FS_AddElement
    <3> QED
      BY <3>1, <3>2
  <2>3. Cardinality(B(e)) <= Cardinality(A(p) \cup {e})
    BY <1>1, <2>1, <2>2, FS_Subset
  <2>4. Cardinality(B(e)) \in Nat /\ Cardinality(A(p)) \in Nat
    BY <1>1
  <2> HIDE DEF A, B
  <2> QED
    BY <2>2, <2>3, <2>4
<1> HIDE DEF A, B
<1> QED
  BY <1>1, <1>2, <1>3, <1>4

\* A step that starts no turn: nothing at rest is disturbed.
Calm ==
  /\ SameTree
  /\ Unfinished' \subseteq Unfinished
  /\ Jobs' \subseteq Jobs \cup Unfinished

LEMMA EndsCalm ==
  ASSUME EndsSome(row, row'), \A e \in Execution : job'[e] # "none" => job[e] # "none"
  PROVE  Calm
<1>1. SameTree
  BY DEF EndsSome, SameTree
<1>2. Unfinished' \subseteq Unfinished
  BY DEF EndsSome, Unfinished
<1>3. Jobs' \subseteq Jobs
  BY DEF Jobs
<1> QED
  BY <1>1, <1>2, <1>3 DEF Calm

\* What is at rest stays so in a calm step.
LEMMA CalmRest ==
  ASSUME Calm
  PROVE  \A e \in Execution : AtRest(e) => AtRest(e)'
  BY DEF Calm, AtRest

\* The parts of the invariant after a step that starts no turn, or no more than one.
LEMMA KnownKept ==
  ASSUME KnownInv, DepthInv, SameTree, Jobs' \subseteq Jobs \cup Unfinished, closing' \cup closed' \subseteq Known \cup {Root}
  PROVE  KnownInv' /\ DepthInv'
<1>1. /\ Known' = Known
      /\ \A s : Below(s)' = Below(s) /\ Depth(s)' = Depth(s)
  BY TreeKept
<1>2. \A e \in Known : row'[e].parent = row[e].parent
  BY DEF SameTree, Known
<1>3. Unfinished \subseteq Known
  BY DEF Unfinished, Known
<1>4. Jobs' \subseteq Known'
  BY <1>1, <1>3 DEF KnownInv
<1>5. \A e \in Known' : row'[e].parent \in Known' \cup {Root}
  BY <1>1, <1>2 DEF KnownInv
<1>6. Known' \subseteq Below(Root)'
  BY <1>1 DEF KnownInv
<1>7. DepthInv'
  BY <1>1 DEF DepthInv
<1> QED
  BY <1>1, <1>4, <1>5, <1>6, <1>7 DEF KnownInv

LEMMA OwnKept ==
  ASSUME OwnInv, Calm,
         \A e \in Execution :
           /\ e \notin resident' => e \notin resident \/ AtRest(e)
           /\ host'[e] = "joining" => host[e] = "joining" \/ e \notin Unfinished'
           /\ host'[e] = "shut" => host[e] = "shut" \/ AtRest(e)
  PROVE  OwnInv'
<1> SUFFICES ASSUME NEW e \in Execution
             PROVE  /\ e \notin resident' => AtRest(e)'
                    /\ host'[e] = "joining" => e \notin Unfinished'
                    /\ host'[e] = "shut" => AtRest(e)'
  BY DEF OwnInv
<1>1. /\ e \notin resident => AtRest(e)
      /\ host[e] = "joining" => e \notin Unfinished
      /\ host[e] = "shut" => AtRest(e)
  BY DEF OwnInv
<1>2. AtRest(e) => AtRest(e)'
  BY CalmRest
<1>3. e \notin Unfinished => e \notin Unfinished'
  BY DEF Calm
<1> QED
  BY <1>1, <1>2, <1>3, Zenon

LEMMA ClosedKept ==
  ASSUME ClosedInv, Calm, closed' \cap resident' = {},
         \A c \in closed' : c \in closed \/ \A e \in ChildrenOf(c) : AtRest(e)
  PROVE  ClosedInv'
<1> SUFFICES ASSUME NEW c \in closed', NEW e \in ChildrenOf(c)'
             PROVE  AtRest(e)'
  BY DEF ClosedInv
<1>1. e \in ChildrenOf(c) /\ e \in Execution
  BY TreeKept DEF Calm, ChildrenOf, Known
<1>2. AtRest(e)
  BY <1>1 DEF ClosedInv
<1> QED
  BY <1>1, <1>2, CalmRest

LEMMA CallKept ==
  ASSUME CallInv, Calm, control' = control,
         \A p \in Session : OpensFrom(p) /\ p \in Known \cup {Root} =>
           /\ p \in resident' /\ (p \in resident => host[p] = "active") => host'[p] = "active"
           /\ p \in closed' /\ (p \in closed => p \in closing) => p \in closing'
  PROVE  CallInv'
<1>1. /\ Known' = Known
      /\ \A s : ChildrenOf(s)' = ChildrenOf(s) /\ Depth(s)' = Depth(s)
  BY TreeKept DEF Calm
<1>2. PICK c : c = control.child
  OBVIOUS
<1>3. control.op = "spawn" => ChildrenOf(c)' = {}
  BY <1>1, <1>2 DEF CallInv
<1>4. c = control'.child
  BY <1>2
<1>5. control.op = "spawn" => ChildrenOf(control.child)' = {}
  <2>1. ChildrenOf(control.child)' = ChildrenOf(c)'
    BY <1>4 DEF ChildrenOf
  <2> QED
    BY <1>3, <2>1, Zenon
<1>6. control.op = "steer" => control.child \in Known' /\ row'[control.child].parent = control.parent
  BY <1>1 DEF CallInv, Calm, SameTree, Known
<1>7. ASSUME NEW p \in Session, OpensFrom(p)'
      PROVE  /\ p \in Known' \cup {Root} /\ Depth(p)' < MaxDepth
             /\ p \in resident' => host'[p] = "active"
             /\ p \in closed' => p \in closing'
  <2>1. OpensFrom(p)
    BY <1>7 DEF OpensFrom
  <2>2. /\ p \in Known \cup {Root} /\ Depth(p) < MaxDepth
        /\ p \in resident => host[p] = "active"
        /\ p \in closed => p \in closing
    BY <2>1 DEF CallInv
  <2> QED
    BY <1>1, <2>1, <2>2
<1> QED
  BY <1>5, <1>6, <1>7 DEF CallInv

\* A spawn or a steer that is over leaves nothing to keep.
LEMMA CallFreed ==
  ASSUME control' = Free
  PROVE  CallInv'
  BY DEF CallInv, OpensFrom, Free

LEMMA RootKept ==
  ASSUME RootInv, Calm,
         host'[Root] \in {"joining", "shut"} =>
           \/ host[Root] \in {"joining", "shut"} /\ (control = Free => control' = Free)
           \/ control' = Free /\ Unfinished' = {},
         host'[Root] = "shut" => host[Root] = "shut" \/ (Jobs = {} /\ Unfinished = {})
  PROVE  RootInv'
<1>1. ASSUME host'[Root] \in {"joining", "shut"}
      PROVE  control' = Free /\ Unfinished' = {}
  BY <1>1 DEF RootInv, Calm
<1>2. ASSUME host'[Root] = "shut"
      PROVE  Jobs' = {}
  BY <1>2 DEF RootInv, Calm
<1> QED
  BY <1>1, <1>2 DEF RootInv

\* Steps that leave the sessions and `control` alone.
LEMMA ApartClose ==
  ASSUME CloseInv, Calm, control' = control, UNCHANGED tree
  PROVE  CloseInv'
<1>1. resident' = resident /\ host' = host /\ closing' = closing /\ closed' = closed /\ held' = held
  BY DEF tree
<1>2. KnownInv' /\ DepthInv'
  BY <1>1, KnownKept DEF CloseInv, Calm, KnownInv
<1>3. OwnInv'
  BY <1>1, OwnKept DEF CloseInv
<1>4. CallInv'
  BY <1>1, CallKept DEF CloseInv
<1>5. ReloadInv'
  BY <1>1 DEF CloseInv, ReloadInv
<1>6. RootInv'
  BY <1>1, RootKept DEF CloseInv
<1>7. ClosedInv'
  <2>1. closed \cap resident = {}
    BY DEF CloseInv, ClosedInv
  <2> QED
    BY <1>1, <2>1, ClosedKept DEF CloseInv
<1> QED
  BY <1>2, <1>3, <1>4, <1>5, <1>6, <1>7 DEF CloseInv

\* A session that may work is neither closed nor shut down, nor is its root.
LEMMA Working ==
  ASSUME CloseInv, NEW p \in Session, MayWork(p)
  PROVE  /\ p \notin closed /\ p \notin closing /\ host[p] = "active"
         /\ host[Root] = "active"
  BY DEF MayWork, Dispatchable, CloseInv, ClosedInv

\* A spawn begins.
LEMMA SpawnBeginsClose ==
  ASSUME IInv, CloseInv, NEW p \in Session, NEW e \in Execution, SpawnBegins(p, e)
  PROVE  CloseInv'
<1>1. /\ row' = row /\ job' = job
      /\ resident' = resident /\ host' = host /\ closing' = closing /\ closed' = closed /\ held' = held
      /\ control' = [op |-> "spawn", child |-> e, parent |-> p, step |-> "opening"]
  BY DEF SpawnBegins, store, queue, tree
<1>2. Calm
  BY <1>1 DEF Calm, SameTree, Unfinished, Jobs
<1>3. /\ control'.op = "spawn" /\ control'.child = e /\ control'.parent = p
  BY <1>1
<1>4. /\ p \in resident /\ p \notin closed /\ host[p] = "active" /\ host[Root] = "active"
  BY Working DEF SpawnBegins
<1>5. KnownInv' /\ DepthInv'
  BY <1>1, <1>2, KnownKept DEF CloseInv, Calm, KnownInv
<1>6. OwnInv'
  BY <1>1, <1>2, OwnKept DEF CloseInv
<1>7. ReloadInv'
  BY <1>1 DEF CloseInv, ReloadInv
<1>8. RootInv'
  BY <1>1, <1>4 DEF RootInv
<1>9. ClosedInv'
  <2>1. closed \cap resident = {}
    BY DEF CloseInv, ClosedInv
  <2> QED
    BY <1>1, <1>2, <2>1, ClosedKept DEF CloseInv
<1>10. CallInv'
  <2>1. /\ Known' = Known
        /\ \A s : ChildrenOf(s)' = ChildrenOf(s) /\ Depth(s)' = Depth(s)
    BY <1>2, TreeKept DEF Calm
  <2>2. ChildrenOf(e) = {}
    BY ExecutionsAssumption DEF SpawnBegins, CloseInv, KnownInv, ChildrenOf, Known
  <2>3. ChildrenOf(control.child)' = {}
    <3>1. ChildrenOf(control.child)' = ChildrenOf(e)'
      BY <1>3 DEF ChildrenOf
    <3> QED
      BY <2>1, <2>2, <3>1
  <2>4. p \in Known \cup {Root}
    BY DEF SpawnBegins, Unfinished, Known
  <2>5. Depth(p) < MaxDepth
    BY DEF SpawnBegins
  <2>6. \A q \in Session : OpensFrom(q)' => q = p
    BY <1>3 DEF OpensFrom
  <2>7. ~("spawn" = "steer")
    OBVIOUS
  <2> QED
    BY <1>1, <1>3, <1>4, <2>1, <2>3, <2>4, <2>5, <2>6, <2>7 DEF CallInv
<1> QED
  BY <1>5, <1>6, <1>7, <1>8, <1>9, <1>10 DEF CloseInv

\* A continuation begins.
LEMMA SteerBeginsClose ==
  ASSUME IInv, CloseInv, NEW e \in Execution, SteerBegins(e)
  PROVE  CloseInv'
<1>1. /\ row' = row /\ job' = job
      /\ resident' = resident /\ host' = host /\ closing' = closing /\ closed' = closed /\ held' = held
      /\ control' = [op |-> "steer", child |-> e, parent |-> row[e].parent, step |-> "opening"]
  BY DEF SteerBegins, store, queue, tree
<1>2. Calm
  BY <1>1 DEF Calm, SameTree, Unfinished, Jobs
<1>3. /\ control'.op = "steer" /\ control'.child = e /\ control'.parent = row[e].parent
  BY <1>1
<1>4. host[Root] = "active"
  BY DEF SteerBegins, MayWork
<1>5. KnownInv' /\ DepthInv'
  BY <1>1, <1>2, KnownKept DEF CloseInv, Calm, KnownInv
<1>6. OwnInv'
  BY <1>1, <1>2, OwnKept DEF CloseInv
<1>7. ReloadInv'
  BY <1>1 DEF CloseInv, ReloadInv
<1>8. RootInv'
  BY <1>1, <1>4 DEF RootInv
<1>9. ClosedInv'
  <2>1. closed \cap resident = {}
    BY DEF CloseInv, ClosedInv
  <2> QED
    BY <1>1, <1>2, <2>1, ClosedKept DEF CloseInv
<1>10. CallInv'
  <2>1. e \in Known
    BY DEF SteerBegins, Steerable, Known
  <2>2. Known' = Known
    BY <1>2, TreeKept DEF Calm
  <2>3. ~("spawn" = "steer")
    OBVIOUS
  <2> QED
    BY <1>1, <1>3, <2>1, <2>2, <2>3 DEF CallInv, OpensFrom
<1> QED
  BY <1>5, <1>6, <1>7, <1>8, <1>9, <1>10 DEF CloseInv

\* Hosts that were woken are as they were, or go on.
LEMMA WokenHosts ==
  ASSUME IInv, host' = Woken(host)
  PROVE  \A s \in Session :
           /\ host[s] = "active" => host'[s] = "active"
           /\ host'[s] \in {"joining", "shut"} => host'[s] = host[s]
  BY DEF Woken

\* A spawn or a continuation is over, and its row starts nothing.
LEMMA OverClose ==
  ASSUME IInv, CloseInv, Calm, control' = Free, host' = Woken(host),
         UNCHANGED <<resident, closing, closed, held>>
  PROVE  CloseInv'
<1>1. \A s \in Session :
        /\ host[s] = "active" => host'[s] = "active"
        /\ host'[s] \in {"joining", "shut"} => host'[s] = host[s]
  BY WokenHosts
<1>2. Root \in Session /\ Execution \subseteq Session
  BY DEF Session
<1>3. KnownInv' /\ DepthInv'
  BY KnownKept DEF CloseInv, Calm, KnownInv
<1>4. OwnInv'
  BY <1>1, <1>2, OwnKept DEF CloseInv
<1>5. CallInv'
  BY CallFreed
<1>6. ReloadInv'
  BY <1>1, <1>2 DEF CloseInv, ReloadInv
<1>7. RootInv'
  BY <1>1, <1>2, RootKept DEF CloseInv
<1>8. ClosedInv'
  <2>1. closed \cap resident = {}
    BY DEF CloseInv, ClosedInv
  <2> QED
    BY <2>1, ClosedKept DEF CloseInv
<1> QED
  BY <1>3, <1>4, <1>5, <1>6, <1>7, <1>8 DEF CloseInv

\* `control` is held by a spawn of e.
LEMMA StartingTyped ==
  ASSUME IInv, NEW e \in Execution, NEW step, Starting(e, step)
  PROVE  /\ control \in Calling
         /\ control.op = "spawn" /\ control.child = e /\ control.step = step
         /\ control # Free /\ control.parent \in Session
<1>1. control.op = "spawn" /\ control.child = e /\ control.step = step
  BY DEF Starting
<1>2. control # Free
  BY <1>1 DEF Free
<1>3. control \in Calling
  BY <1>2 DEF IInv, TypeOK, Calling
<1> QED
  BY <1>1, <1>2, <1>3 DEF Calling

\* An opening that fails: what is cleaned up is at rest.
LEMMA SpawnFailsClose ==
  ASSUME IInv, CloseInv, NEW e \in Execution, SpawnFails(e)
  PROVE  CloseInv'
<1> DEFINE cleaned == Starting(e, "opening") \/ (Starting(e, "failing") /\ host[e] = "shut")
<1>1. /\ row' = row /\ job' = job /\ closed' = closed /\ held' = held
      /\ cleaned \/ Starting(e, "activating")
      /\ cleaned => /\ control' = Free /\ host' = Woken(host)
                    /\ resident' = resident \ {e} /\ closing' = closing \ {e}
      /\ ~cleaned => /\ control' = [control EXCEPT !.step = "failing"]
                     /\ host' = [host EXCEPT ![e] = "shutting"]
                     /\ resident' = resident /\ closing' = closing \cup {e}
  BY DEF SpawnFails, store, queue
<1> HIDE DEF cleaned
<1>2. Calm
  BY <1>1 DEF Calm, SameTree, Unfinished, Jobs
<1>3. Root \in Session /\ e \in Session /\ e # Root /\ Execution \subseteq Session
  BY ExecutionsAssumption DEF Session
<1>4. host \in [Session -> HostStates]
  BY DEF IInv, TypeOK, HostStates
<1>5. CASE cleaned
  <2>1. AtRest(e)
    <3>1. CASE Starting(e, "opening")
      <4>1. row[e].state = "absent"
        BY <3>1 DEF IInv, ControlInv
      <4> QED
        BY <4>1 DEF AtRest, Unfinished, CloseInv, KnownInv, Known
    <3>2. CASE host[e] = "shut"
      BY <3>2 DEF CloseInv, OwnInv
    <3> QED
      BY <1>5, <3>1, <3>2 DEF cleaned
  <2>2. \A s \in Session :
          /\ host[s] = "active" => host'[s] = "active"
          /\ host'[s] \in {"joining", "shut"} => host'[s] = host[s]
    BY <1>1, <1>5, WokenHosts
  <2>3. KnownInv' /\ DepthInv'
    BY <1>1, <1>2, <1>5, KnownKept DEF CloseInv, Calm, KnownInv
  <2>4. OwnInv'
    BY <1>1, <1>2, <1>3, <1>5, <2>1, <2>2, OwnKept DEF CloseInv
  <2>5. CallInv'
    BY <1>1, <1>5, CallFreed
  <2>6. ReloadInv'
    BY <1>1, <1>3, <1>5, <2>2 DEF CloseInv, ReloadInv
  <2>7. RootInv'
    BY <1>1, <1>2, <1>3, <1>5, <2>2, RootKept DEF CloseInv
  <2>8. ClosedInv'
    <3>1. closed \cap resident = {}
      BY DEF CloseInv, ClosedInv
    <3> QED
      BY <1>1, <1>2, <1>5, <3>1, ClosedKept DEF CloseInv
  <2> QED
    BY <2>3, <2>4, <2>5, <2>6, <2>7, <2>8 DEF CloseInv
<1>6. CASE ~cleaned
  <2>1. Starting(e, "activating")
    BY <1>1, <1>6
  <2>2. /\ control \in Calling /\ control.op = "spawn" /\ control.child = e /\ control # Free
    BY <2>1, StartingTyped
  <2>3. /\ control'.op = "spawn" /\ control'.child = e /\ control'.step = "failing"
    BY <1>1, <1>6, <2>2 DEF Calling
  <2>4. e \in Known
    BY <2>1 DEF IInv, ControlInv, Known
  <2>5. host'[Root] = host[Root] /\ \A x \in Execution : host'[x] \in {"joining", "shut"} => host'[x] = host[x]
    BY <1>1, <1>3, <1>4, <1>6
  <2>6. KnownInv' /\ DepthInv'
    BY <1>1, <1>2, <1>6, <2>4, KnownKept DEF CloseInv, Calm, KnownInv
  <2>7. OwnInv'
    BY <1>1, <1>2, <1>3, <1>6, <2>5, OwnKept DEF CloseInv
  <2>8. CallInv'
    <3>1. ChildrenOf(e)' = ChildrenOf(e)
      BY <1>2, TreeKept DEF Calm
    <3>2. ChildrenOf(e) = {}
      BY <2>2 DEF CloseInv, CallInv
    <3>3. ChildrenOf(control.child)' = ChildrenOf(e)'
      BY <2>3 DEF ChildrenOf
    <3>4. ~("spawn" = "steer") /\ ~("failing" = "opening")
      OBVIOUS
    <3> QED
      BY <2>3, <3>1, <3>2, <3>3, <3>4 DEF CallInv, OpensFrom
  <2>9. ReloadInv'
    BY <1>1, <1>3, <1>6, <2>5 DEF CloseInv, ReloadInv
  <2>10. RootInv'
    BY <2>2, <2>5 DEF CloseInv, RootInv
  <2>11. ClosedInv'
    <3>1. closed \cap resident = {}
      BY DEF CloseInv, ClosedInv
    <3> QED
      BY <1>1, <1>2, <1>6, <3>1, ClosedKept DEF CloseInv
  <2> QED
    BY <2>6, <2>7, <2>8, <2>9, <2>10, <2>11 DEF CloseInv
<1> QED
  BY <1>5, <1>6

\* The session of a spawn starts: its parent is not closed, and no deeper than may be.
LEMMA SessionStartsClose ==
  ASSUME IInv, CloseInv, NEW e \in Execution, SessionStarts(e)
  PROVE  CloseInv'
<1>1. Starting(e, "opening")
  BY DEF SessionStarts
<1>2. /\ control \in Calling /\ control.op = "spawn" /\ control.child = e /\ control.step = "opening"
      /\ control # Free /\ control.parent \in Session
  BY <1>1, StartingTyped
<1> DEFINE step == [control EXCEPT !.step = "activating"]
<1>3. PICK p \in Session : p = control.parent
  BY <1>2
<1>4. /\ p \in Known \cup {Root} /\ Depth(p) < MaxDepth
      /\ p \in closed => p \in closing
  BY <1>2, <1>3 DEF CloseInv, CallInv, OpensFrom
<1>5. /\ p \notin closing /\ p \notin closed
      /\ job' = job /\ closing' = closing /\ closed' = closed /\ held' = held
      /\ resident' = resident \cup {e} /\ host' = [host EXCEPT ![e] = "active"]
      /\ control' = step
  BY <1>3, <1>4 DEF SessionStarts, queue
<1>6. /\ row[e].state = "absent" /\ row'[e].state = "queued"
      /\ row'[e].parent = p
      /\ \A d \in Execution \ {e} : row'[d] = row[d]
  BY <1>3, SessionStartsStore
<1>7. control'.op = "spawn" /\ control'.child = e /\ control'.step = "activating"
  BY <1>2, <1>5 DEF Calling
<1> HIDE DEF step
<1>8. /\ e \notin Known /\ e # Root /\ e \in Session /\ Root \in Session /\ Execution \subseteq Session
      /\ \A x \in Known : row[x].parent # e
      /\ Known \subseteq Execution
  BY <1>6, ExecutionsAssumption DEF CloseInv, KnownInv, Known, Session
<1>9. /\ Known' = Known \cup {e} /\ Unfinished' = Unfinished \cup {e} /\ Jobs' = Jobs
      /\ \A x \in Known : row'[x].parent = row[x].parent
  <2>1. Known' = Known \cup {e}
    BY <1>6 DEF Known
  <2>2. Unfinished' = Unfinished \cup {e}
    BY <1>6 DEF Unfinished
  <2>3. Jobs' = Jobs
    BY <1>5 DEF Jobs
  <2>4. \A x \in Known : row'[x].parent = row[x].parent
    BY <1>6, <1>8
  <2> QED
    BY <2>1, <2>2, <2>3, <2>4
<1>10. Sprouts(p, e)
  BY <1>4, <1>6, <1>8, <1>9 DEF Sprouts
<1>11. KnownInv
  BY DEF CloseInv
<1>12. KnownInv'
  <2>1. /\ Below(Root) \subseteq Below(Root)'
    BY <1>8, <1>10, <1>11, SproutBelow
  <2>2. p \in Below(Root)
    BY <1>4, <1>8, <1>11, BelowClosed DEF KnownInv
  <2>3. e \in Below(Root)'
    BY <1>6, <1>8, <1>9, <2>1, <2>2 DEF Below
  <2>4. Known' \subseteq Below(Root)'
    BY <1>9, <1>11, <2>1, <2>3 DEF KnownInv
  <2>5. \A x \in Known' : row'[x].parent \in Known' \cup {Root}
    BY <1>4, <1>6, <1>9, <1>11 DEF KnownInv
  <2> QED
    BY <1>5, <1>9, <1>11, <2>4, <2>5 DEF KnownInv
<1>13. DepthInv'
  <2>1. /\ Depth(p) \in Int /\ Depth(e)' \in Int /\ Depth(e)' <= Depth(p) + 1
        /\ \A d \in Session : d # e => /\ Depth(d) \in Int /\ Depth(d)' \in Int
                                       /\ Depth(d)' <= Depth(d)
    BY <1>10, <1>11, SproutDepth
  <2>2. MaxDepth \in Nat
    BY ExecutionsAssumption
  <2>3. Depth(e)' <= MaxDepth
    BY <1>4, <2>1, <2>2
  <2>4. ASSUME NEW x \in Known, x # e
        PROVE  Depth(x)' <= MaxDepth
    <3>1. x \in Session /\ Depth(x) <= MaxDepth
      BY <1>8, <2>4 DEF CloseInv, DepthInv
    <3> QED
      BY <2>1, <2>2, <2>4, <3>1
  <2> QED
    BY <1>8, <1>9, <2>3, <2>4 DEF DepthInv
<1>14. host \in [Session -> HostStates]
  BY DEF IInv, TypeOK, HostStates
<1>15. \A x \in Session \ {e} : host'[x] = host[x]
  BY <1>5, <1>14
<1>16. host'[e] = "active"
  BY <1>5, <1>8, <1>14
<1>17. OwnInv'
  <2> SUFFICES ASSUME NEW x \in Execution
               PROVE  /\ x \notin resident' => AtRest(x)'
                      /\ host'[x] = "joining" => x \notin Unfinished'
                      /\ host'[x] = "shut" => AtRest(x)'
    BY DEF OwnInv
  <2>1. CASE x = e
    BY <1>5, <1>16, <2>1
  <2>2. CASE x # e
    <3>1. /\ x \notin resident => AtRest(x)
          /\ host[x] = "joining" => x \notin Unfinished
          /\ host[x] = "shut" => AtRest(x)
      BY DEF CloseInv, OwnInv
    <3>2. host'[x] = host[x]
      BY <1>8, <1>15, <2>2
    <3>3. x \notin Unfinished => x \notin Unfinished'
      BY <1>9, <2>2
    <3>4. AtRest(x) => AtRest(x)'
      BY <1>9, <2>2 DEF AtRest
    <3>5. x \notin resident' => x \notin resident
      BY <1>5
    <3> QED
      BY <3>1, <3>2, <3>3, <3>4, <3>5
  <2> QED
    BY <2>1, <2>2
<1>18. CallInv'
  <2>1. ChildrenOf(e)' = {}
    BY <1>6, <1>8, <1>9, <1>4 DEF ChildrenOf
  <2>2. ChildrenOf(control.child)' = ChildrenOf(e)'
    BY <1>7 DEF ChildrenOf
  <2>3. ~("spawn" = "steer") /\ ~("activating" = "opening")
    OBVIOUS
  <2> QED
    BY <1>7, <2>1, <2>2, <2>3 DEF CallInv, OpensFrom
<1>19. ReloadInv'
  BY <1>5, <1>8, <1>15 DEF CloseInv, ReloadInv
<1>20. RootInv'
  BY <1>2, <1>8, <1>15 DEF CloseInv, RootInv
<1>21. ClosedInv'
  <2>1. closed \cap resident = {} /\ e \notin closed
    BY <1>8, <1>11 DEF CloseInv, ClosedInv, KnownInv
  <2>2. ASSUME NEW c \in closed', NEW x \in ChildrenOf(c)'
        PROVE  AtRest(x)'
    <3>1. x \in Known' /\ row'[x].parent = c /\ c \in closed
      BY <1>5, <2>2 DEF ChildrenOf
    <3>2. x # e
      BY <1>5, <1>6, <3>1
    <3>3. x \in ChildrenOf(c)
      BY <1>9, <3>1, <3>2 DEF ChildrenOf
    <3>4. AtRest(x)
      BY <3>1, <3>3 DEF CloseInv, ClosedInv
    <3> QED
      BY <1>9, <3>2, <3>4 DEF AtRest
  <2> QED
    BY <1>5, <2>1, <2>2 DEF ClosedInv
<1> QED
  BY <1>12, <1>13, <1>17, <1>18, <1>19, <1>20, <1>21 DEF CloseInv

\* A continuation: the parent is there, so it is not closed.
LEMMA SteerEndsClose ==
  ASSUME IInv, CloseInv, NEW e \in Execution, SteerEnds(e)
  PROVE  CloseInv'
<1>1. /\ job' = job /\ closing' = closing /\ closed' = closed \ {e} /\ held' = held
      /\ resident' = resident \cup {e} /\ host' = [Woken(host) EXCEPT ![e] = "active"]
      /\ control' = Free /\ Continuing(e) /\ MayWork(control.parent)
  BY DEF SteerEnds, Continuable
<1>2. /\ row[e].state = "done" /\ row'[e].state = "queued" /\ row'[e].parent = row[e].parent
      /\ \A d \in Execution \ {e} : row'[d] = row[d]
  BY SteerEndsStore
<1>3. e \in Known /\ row[e].parent = control.parent /\ control.parent \in Session
  <2>1. row[e].parent \in Session
    BY DEF IInv, TypeOK
  <2> QED
    BY <1>1, <2>1 DEF CloseInv, CallInv, Continuing
<1>4. row[e].parent \notin closed /\ host[Root] = "active"
  BY <1>1, <1>3, Working
<1>5. SameTree /\ Jobs' = Jobs /\ Unfinished' = Unfinished \cup {e}
  <2>1. SameTree
    BY <1>2 DEF SameTree
  <2>2. Jobs' = Jobs
    BY <1>1 DEF Jobs
  <2>3. Unfinished' = Unfinished \cup {e}
    BY <1>2 DEF Unfinished
  <2> QED
    BY <2>1, <2>2, <2>3
<1>6. KnownInv' /\ DepthInv'
  BY <1>1, <1>5, KnownKept DEF CloseInv, KnownInv
<1>7. /\ host \in [Session -> HostStates] /\ Root \in Session /\ e \in Session /\ e # Root
      /\ Execution \subseteq Session
  BY ExecutionsAssumption DEF IInv, TypeOK, HostStates, Session
<1>8. /\ host'[e] = "active" /\ host'[Root] = "active"
      /\ \A x \in Session \ {e} : host'[x] \in {"joining", "shut"} => host'[x] = host[x]
  BY <1>1, <1>4, <1>7 DEF Woken
<1>9. OwnInv'
  <2> SUFFICES ASSUME NEW x \in Execution
               PROVE  /\ x \notin resident' => AtRest(x)'
                      /\ host'[x] = "joining" => x \notin Unfinished'
                      /\ host'[x] = "shut" => AtRest(x)'
    BY DEF OwnInv
  <2>1. CASE x = e
    BY <1>1, <1>8, <2>1
  <2>2. CASE x # e
    <3>1. /\ x \notin resident => AtRest(x)
          /\ host[x] = "joining" => x \notin Unfinished
          /\ host[x] = "shut" => AtRest(x)
      BY DEF CloseInv, OwnInv
    <3>2. host'[x] \in {"joining", "shut"} => host'[x] = host[x]
      BY <1>7, <1>8, <2>2
    <3>3. x \notin Unfinished => x \notin Unfinished'
      BY <1>5, <2>2
    <3>4. AtRest(x) => AtRest(x)'
      BY <1>5, <2>2 DEF AtRest
    <3>5. x \notin resident' => x \notin resident
      BY <1>1
    <3> QED
      BY <3>1, <3>2, <3>3, <3>4, <3>5
  <2> QED
    BY <2>1, <2>2
<1>10. CallInv'
  BY <1>1, CallFreed
<1>11. ReloadInv'
  BY <1>1, <1>8 DEF CloseInv, ReloadInv
<1>12. RootInv'
  BY <1>8 DEF RootInv
<1>13. ClosedInv'
  <2>1. closed \cap resident = {}
    BY DEF CloseInv, ClosedInv
  <2>2. ASSUME NEW c \in closed', NEW x \in ChildrenOf(c)'
        PROVE  AtRest(x)'
    <3>1. c \in closed /\ x \in ChildrenOf(c)
      BY <1>1, <1>5, <2>2, TreeKept
    <3>2. x # e
      BY <1>4, <3>1 DEF ChildrenOf
    <3>3. AtRest(x)
      BY <3>1 DEF CloseInv, ClosedInv
    <3> QED
      BY <1>5, <3>2, <3>3 DEF AtRest
  <2> QED
    BY <1>1, <2>1, <2>2 DEF ClosedInv
<1> QED
  BY <1>6, <1>9, <1>10, <1>11, <1>12, <1>13 DEF CloseInv

\* Closes that begin, of the root only while it does not reload.
LEMMA ClosingGrows ==
  ASSUME IInv, CloseInv, NEW S \in SUBSET (Known \cup {Root}), closing' = closing \cup S,
         Root \in S => "reload" \notin held,
         UNCHANGED <<row, job, control, resident, host, closed, held>>
  PROVE  CloseInv'
<1>1. Calm
  BY DEF Calm, SameTree, Unfinished, Jobs
<1>2. KnownInv' /\ DepthInv'
  BY <1>1, KnownKept DEF CloseInv, Calm, KnownInv
<1>3. OwnInv'
  BY <1>1, OwnKept DEF CloseInv
<1>4. CallInv'
  BY <1>1, CallKept DEF CloseInv
<1>5. ReloadInv'
  BY DEF CloseInv, ReloadInv
<1>6. RootInv'
  BY <1>1, RootKept DEF CloseInv
<1>7. ClosedInv'
  <2>1. closed \cap resident = {}
    BY DEF CloseInv, ClosedInv
  <2> QED
    BY <1>1, <2>1, ClosedKept DEF CloseInv
<1> QED
  BY <1>2, <1>3, <1>4, <1>5, <1>6, <1>7 DEF CloseInv

LEMMA BeginCloseClose ==
  ASSUME IInv, CloseInv, NEW s \in Session, BeginClose(s) \/ CloseChildren(s)
  PROVE  CloseInv'
<1>1. CASE BeginClose(s)
  <2>1. /\ {s} \in SUBSET (Known \cup {Root}) /\ closing' = closing \cup {s}
        /\ "reload" \notin held
        /\ UNCHANGED <<row, job, control, resident, host, closed, held>>
    BY <1>1 DEF BeginClose, store, queue
  <2> QED
    BY <2>1, ClosingGrows
<1>2. CASE CloseChildren(s)
  <2>1. /\ OpenChildren(s) \in SUBSET (Known \cup {Root}) /\ Root \notin OpenChildren(s)
    BY ExecutionsAssumption DEF OpenChildren, ChildrenOf, Known
  <2>2. /\ closing' = closing \cup OpenChildren(s)
        /\ UNCHANGED <<row, job, control, resident, host, closed, held>>
    BY <1>2 DEF CloseChildren, store, queue
  <2> QED
    BY <2>1, <2>2, ClosingGrows
<1> QED
  BY <1>1, <1>2

\* The host of a session goes on with its shutdown.
LEMMA HostMoves ==
  ASSUME IInv, CloseInv, Calm, NEW s \in Session, NEW h \in HostStates,
         host' = [host EXCEPT ![s] = h],
         UNCHANGED <<control, resident, closing, closed, held>>,
         ~OpensFrom(s), s = Root => "reload" \notin held,
         h = "joining" => control = Free /\ s \notin Unfinished' /\ (s = Root => Unfinished' = {}),
         h = "shut" => /\ host[s] = "joining" /\ s \notin Jobs
                       /\ s = Root => Jobs = {},
         h # "active"
  PROVE  CloseInv'
<1>1. host \in [Session -> HostStates] /\ Root \in Session /\ Execution \subseteq Session
  BY DEF IInv, TypeOK, HostStates, Session
<1>2. host'[s] = h /\ \A x \in Session \ {s} : host'[x] = host[x]
  BY <1>1
<1>3. KnownInv' /\ DepthInv'
  BY KnownKept DEF CloseInv, Calm, KnownInv
<1>4. OwnInv'
  <2> SUFFICES ASSUME NEW e \in Execution
               PROVE  /\ e \notin resident' => e \notin resident \/ AtRest(e)
                      /\ host'[e] = "joining" => host[e] = "joining" \/ e \notin Unfinished'
                      /\ host'[e] = "shut" => host[e] = "shut" \/ AtRest(e)
    BY OwnKept DEF CloseInv
  <2>1. CASE e = s
    <3>1. host[e] = "joining" => e \notin Unfinished
      BY DEF CloseInv, OwnInv
    <3> QED
      BY <1>2, <2>1, <3>1 DEF AtRest
  <2>2. CASE e # s
    BY <1>1, <1>2, <2>2
  <2> QED
    BY <2>1, <2>2
<1>5. CallInv'
  <2> SUFFICES ASSUME NEW p \in Session, OpensFrom(p), host[p] = "active"
               PROVE  host'[p] = "active"
    BY CallKept DEF CloseInv
  <2> QED
    BY <1>2
<1>6. ReloadInv'
  BY <1>1, <1>2 DEF CloseInv, ReloadInv
<1>7. RootInv'
  <2>1. host[Root] \in {"joining", "shut"} => control = Free /\ Unfinished = {}
    BY DEF CloseInv, RootInv
  <2>2. CASE s = Root
    BY <1>2, <2>1, <2>2, RootKept DEF CloseInv
  <2>3. CASE s # Root
    BY <1>1, <1>2, <2>3, RootKept DEF CloseInv
  <2> QED
    BY <2>2, <2>3
<1>8. ClosedInv'
  <2>1. closed \cap resident = {}
    BY DEF CloseInv, ClosedInv
  <2> QED
    BY <2>1, ClosedKept DEF CloseInv
<1> QED
  BY <1>3, <1>4, <1>5, <1>6, <1>7, <1>8 DEF CloseInv

\* A shutdown begins: not while a child of the session is being opened.
LEMMA ShutdownClose ==
  ASSUME IInv, CloseInv, NEW s \in Session, Evict(s) \/ Shutdown(s)
  PROVE  CloseInv'
<1> DEFINE h == IF control = Free THEN "cancelling" ELSE "shutting"
<1>1. /\ row' = row /\ job' = job /\ host' = [host EXCEPT ![s] = h]
      /\ UNCHANGED <<control, resident, closing, closed, held>>
  BY DEF Evict, Shutdown, ShutsDown, store, queue
<1>2. h \in HostStates \ {"active", "joining", "shut"}
  BY DEF HostStates
<1> HIDE DEF h
<1>3. Calm
  BY <1>1 DEF Calm, SameTree, Unfinished, Jobs
<1>4. ~OpensFrom(s)
  <2>1. CASE Evict(s)
    <3>1. control = Free \/ control.parent \notin Below(s)
      BY <2>1 DEF Evict, Calls
    <3>2. s \in Below(s)
      BY BelowClosed
    <3>3. control = Free => control.op # "spawn"
      BY DEF Free
    <3> QED
      BY <3>1, <3>2, <3>3 DEF OpensFrom
  <2>2. CASE Shutdown(s)
    BY <2>2 DEF Shutdown, Opening, OpensFrom
  <2> QED
    BY <2>1, <2>2
<1>5. s = Root => "reload" \notin held
  BY DEF Evict, Shutdown, CloseInv, ReloadInv
<1> QED
  BY <1>1, <1>2, <1>3, <1>4, <1>5, HostMoves

\* A shutdown cancels: below the root nothing is left.
LEMMA CancelAllClose ==
  ASSUME IInv, CloseInv, NEW s \in Session, CancelAll(s)
  PROVE  CloseInv'
<1>1. /\ job' = job /\ host' = [host EXCEPT ![s] = "joining"]
      /\ control = Free /\ host[s] = "cancelling"
      /\ UNCHANGED <<control, resident, closing, closed, held>>
  BY DEF CancelAll
<1>2. /\ EndsSome(row, row')
      /\ \A e \in Below(s) \cap Unfinished : row'[e].state = "done"
  <2>1. Cancelling(s, "host_shutdown") /\ UNCHANGED <<told, sent, silenced>> /\ "host_shutdown" \in Ends
    BY DEF CancelAll, Ends
  <2> QED
    BY <2>1, CancellingStore
<1>3. Calm
  BY <1>1, <1>2, EndsCalm
<1>4. s \notin Unfinished'
  <2>1. s \in Below(s) /\ (s \in Unfinished' => s \in Unfinished)
    BY <1>3, BelowClosed DEF Calm
  <2> QED
    BY <1>2, <2>1 DEF Unfinished
<1>5. s = Root => Unfinished' = {}
  <2>1. Unfinished \subseteq Below(Root)
    BY DEF CloseInv, KnownInv, Unfinished, Known
  <2> QED
    BY <1>2, <1>3, <2>1 DEF Calm, Unfinished
<1>6. "joining" \in HostStates \ {"active", "shut"}
  BY DEF HostStates
<1>7. ~OpensFrom(s)
  BY <1>1 DEF OpensFrom, Free
<1>8. s = Root => "reload" \notin held
  BY <1>1 DEF CloseInv, ReloadInv
<1> QED
  BY <1>1, <1>3, <1>4, <1>5, <1>6, <1>7, <1>8, HostMoves

\* A shutdown has joined the jobs.
LEMMA HostShutClose ==
  ASSUME IInv, CloseInv, NEW s \in Session, HostShut(s)
  PROVE  CloseInv'
<1>1. /\ row' = row /\ job' = job /\ host' = [host EXCEPT ![s] = "shut"]
      /\ control = Free /\ host[s] = "joining" /\ Below(s) \cap Jobs = {}
      /\ UNCHANGED <<control, resident, closing, closed, held>>
  BY DEF HostShut, Joined, store, queue
<1>2. Calm
  BY <1>1 DEF Calm, SameTree, Unfinished, Jobs
<1>3. s \notin Jobs
  BY <1>1, BelowClosed
<1>4. s = Root => Jobs = {}
  BY <1>1 DEF CloseInv, KnownInv
<1>5. "shut" \in HostStates \ {"active", "joining"}
  BY DEF HostStates
<1>6. ~OpensFrom(s)
  BY <1>1 DEF OpensFrom, Free
<1>7. s = Root => "reload" \notin held
  BY <1>1 DEF CloseInv, ReloadInv
<1> QED
  BY <1>1, <1>2, <1>3, <1>4, <1>5, <1>6, <1>7, HostMoves

\* A runtime that is disposed is at rest, and after a close its children are.
LEMMA DisposeClose ==
  ASSUME IInv, CloseInv, NEW s \in Session, Dispose(s)
  PROVE  CloseInv'
<1>1. /\ row' = row /\ job' = job /\ UNCHANGED <<control, host, held>>
      /\ resident' = resident \ {s} /\ closing' = closing \ {s}
      /\ closed' = closed \cup ({s} \cap closing)
      /\ s \in resident => host[s] = "shut"
      /\ s \notin resident => ~Opening
      /\ s \in closing \ closed => OpenChildren(s) = {}
  BY DEF Dispose, Stopped, store, queue
<1>2. Calm
  BY <1>1 DEF Calm, SameTree, Unfinished, Jobs
<1>3. ~OpensFrom(s)
  BY <1>1 DEF OpensFrom, Opening, CloseInv, CallInv
<1>4. KnownInv' /\ DepthInv'
  BY <1>1, <1>2, KnownKept DEF CloseInv, Calm, KnownInv
<1>5. OwnInv'
  <2>1. s \in Execution /\ s \in resident => AtRest(s)
    BY <1>1 DEF CloseInv, OwnInv
  <2> QED
    BY <1>1, <1>2, <2>1, OwnKept DEF CloseInv
<1>6. CallInv'
  BY <1>1, <1>2, <1>3, CallKept DEF CloseInv
<1>7. ReloadInv'
  BY <1>1 DEF CloseInv, ReloadInv
<1>8. RootInv'
  BY <1>1, <1>2, RootKept DEF CloseInv
<1>9. ClosedInv'
  <2>1. closed \cap resident = {}
    BY DEF CloseInv, ClosedInv
  <2>2. closed' \cap resident' = {}
    BY <1>1, <2>1
  <2>3. ASSUME NEW c \in closed', c \notin closed, NEW e \in ChildrenOf(c)
        PROVE  AtRest(e)
    <3>1. c = s /\ OpenChildren(s) = {}
      BY <1>1, <2>3
    <3>2. e \in closed /\ e \in Execution
      BY <2>3, <3>1 DEF OpenChildren, ChildrenOf, Known
    <3>3. e \notin resident
      BY <2>1, <3>2
    <3> QED
      BY <3>2, <3>3 DEF CloseInv, OwnInv
  <2> QED
    BY <1>2, <2>2, <2>3, ClosedKept DEF CloseInv
<1> QED
  BY <1>4, <1>5, <1>6, <1>7, <1>8, <1>9 DEF CloseInv

\* A session is opened again.
LEMMA RestoreClose ==
  ASSUME IInv, CloseInv, NEW s \in Session, Restore(s)
  PROVE  CloseInv'
<1>1. /\ row' = row /\ job' = job /\ UNCHANGED <<control, closing, held>>
      /\ resident' = resident \cup {s} /\ host' = [host EXCEPT ![s] = "active"]
      /\ closed' = closed \ {s}
  BY DEF Restore, store, queue
<1>2. Calm
  BY <1>1 DEF Calm, SameTree, Unfinished, Jobs
<1>3. host \in [Session -> HostStates] /\ Root \in Session /\ Execution \subseteq Session
  BY DEF IInv, TypeOK, HostStates, Session
<1>4. host'[s] = "active" /\ \A x \in Session \ {s} : host'[x] = host[x]
  BY <1>1, <1>3
<1>5. KnownInv' /\ DepthInv'
  BY <1>1, <1>2, KnownKept DEF CloseInv, Calm, KnownInv
<1>6. OwnInv'
  BY <1>1, <1>2, <1>3, <1>4, OwnKept DEF CloseInv
<1>7. CallInv'
  BY <1>1, <1>2, <1>4, CallKept DEF CloseInv
<1>8. ReloadInv'
  BY <1>1, <1>3, <1>4 DEF CloseInv, ReloadInv
<1>9. RootInv'
  BY <1>1, <1>2, <1>3, <1>4, RootKept DEF CloseInv
<1>10. ClosedInv'
  <2>1. closed \cap resident = {}
    BY DEF CloseInv, ClosedInv
  <2> QED
    BY <1>1, <1>2, <2>1, ClosedKept DEF CloseInv
<1> QED
  BY <1>5, <1>6, <1>7, <1>8, <1>9, <1>10 DEF CloseInv

\* What a lifecycle operation disposes is at rest, with what is below it.
LEMMA HoldBeginsClose ==
  ASSUME IInv, CloseInv, NEW k \in Holds, HoldBegins(k)
  PROVE  CloseInv'
<1>1. PICK gone :
        /\ \A s \in gone : /\ s \in resident
                           /\ s # Root => s \in Execution /\ ~Busy(s)
        /\ gone # {} => k = "reload"
        /\ resident' = resident \ gone
        /\ host' = [s \in Session |-> IF s \in gone \ {Root} THEN "shut" ELSE host[s]]
        /\ closed' = closed \cup (gone \cap closing)
  <2> DEFINE idle == {e \in Execution \cap resident : ~Busy(e) /\ host[e] = "active" /\ ~Continuing(e)}
             gone == IF k = "reload" THEN idle \cup {Root} ELSE {}
  <2>1. k = "reload" => Root \in resident
    BY DEF HoldBegins, MayHold, Dispatchable
  <2>2. \A s \in gone : s \in resident /\ (s # Root => s \in Execution /\ ~Busy(s))
    BY <2>1
  <2>3. gone # {} => k = "reload"
    OBVIOUS
  <2>4. /\ resident' = resident \ gone
        /\ host' = [s \in Session |-> IF s \in gone \ {Root} THEN "shut" ELSE host[s]]
        /\ closed' = closed \cup (gone \cap closing)
    BY DEF HoldBegins
  <2> HIDE DEF gone
  <2> QED
    BY <2>2, <2>3, <2>4
<1>2. /\ row' = row /\ job' = job /\ control' = control /\ closing' = closing
      /\ held' = held \cup {k}
      /\ k = "reload" => host[Root] = "active" /\ Root \notin closing /\ Root \in resident
  BY DEF HoldBegins, store, queue, MayHold, Dispatchable
<1>3. Calm
  BY <1>2 DEF Calm, SameTree, Unfinished, Jobs
<1>4. /\ Root \in Session /\ Execution \subseteq Session
  BY DEF Session
<1>5. ASSUME NEW e \in gone, e # Root
      PROVE  AtRest(e) /\ \A x \in ChildrenOf(e) : AtRest(x)
  <2>1. Below(e) \cap (Unfinished \cup Jobs) = {} /\ e \in Session
    BY <1>1, <1>4, <1>5 DEF Busy
  <2>2. e \in Below(e) /\ \A x \in ChildrenOf(e) : x \in Below(e)
    BY <2>1, BelowClosed DEF ChildrenOf
  <2> QED
    BY <2>1, <2>2 DEF AtRest
<1>6. /\ host'[Root] = host[Root]
      /\ \A e \in Execution : /\ e \notin gone => host'[e] = host[e]
                              /\ e \in gone /\ e # Root => host'[e] = "shut"
  BY <1>1, <1>4
<1>7. \A c \in closed' : c \in closed \/ (c \in gone /\ c \in closing /\ c # Root)
  BY <1>1, <1>2
<1>8. KnownInv' /\ DepthInv'
  BY <1>1, <1>2, <1>3, KnownKept DEF CloseInv, Calm, KnownInv
<1>9. OwnInv'
  <2> SUFFICES ASSUME NEW e \in Execution
               PROVE  /\ e \notin resident' => e \notin resident \/ AtRest(e)
                      /\ host'[e] = "joining" => host[e] = "joining" \/ e \notin Unfinished'
                      /\ host'[e] = "shut" => host[e] = "shut" \/ AtRest(e)
    BY <1>3, OwnKept DEF CloseInv
  <2>1. e # Root
    BY ExecutionsAssumption
  <2> QED
    BY <1>1, <1>5, <1>6, <2>1
<1>10. CallInv'
  <2> SUFFICES ASSUME NEW p \in Session, OpensFrom(p)
               PROVE  /\ p \in resident' /\ (p \in resident => host[p] = "active") => host'[p] = "active"
                      /\ p \in closed' /\ (p \in closed => p \in closing) => p \in closing'
    BY <1>2, <1>3, CallKept DEF CloseInv
  <2>1. p \in resident' => p \in resident /\ host'[p] = host[p]
    BY <1>1
  <2> QED
    BY <1>2, <1>7, <2>1
<1>11. ReloadInv'
  <2>1. "reload" \in held' => host[Root] = "active" /\ Root \notin closing /\ Root \notin closed
    BY <1>2 DEF CloseInv, ReloadInv, ClosedInv
  <2> QED
    BY <1>2, <1>6, <1>7, <2>1 DEF ReloadInv
<1>12. RootInv'
  BY <1>2, <1>3, <1>6, RootKept DEF CloseInv
<1>13. ClosedInv'
  <2>1. closed \cap resident = {}
    BY DEF CloseInv, ClosedInv
  <2>2. closed' \cap resident' = {}
    BY <1>1, <2>1
  <2> QED
    BY <1>3, <1>5, <1>7, <2>2, ClosedKept DEF CloseInv
<1> QED
  BY <1>8, <1>9, <1>10, <1>11, <1>12, <1>13 DEF CloseInv

LEMMA HoldEndsClose ==
  ASSUME IInv, CloseInv, NEW k \in Holds, HoldEnds(k)
  PROVE  CloseInv'
<1>1. /\ row' = row /\ job' = job /\ UNCHANGED <<control, host, closing, closed>>
      /\ held' = held \ {k} /\ k \in held
      /\ resident' = resident \/ (k = "reload" /\ resident' = resident \cup {Root})
  BY DEF HoldEnds, store
<1>2. Calm
  BY <1>1 DEF Calm, SameTree, Unfinished, Jobs
<1>3. k = "reload" => host[Root] = "active" /\ Root \notin closed
  BY <1>1 DEF CloseInv, ReloadInv
<1>4. KnownInv' /\ DepthInv'
  BY <1>1, <1>2, KnownKept DEF CloseInv, Calm, KnownInv
<1>5. OwnInv'
  BY <1>1, <1>2, OwnKept DEF CloseInv
<1>6. CallInv'
  BY <1>1, <1>2, <1>3, CallKept DEF CloseInv
<1>7. ReloadInv'
  BY <1>1 DEF CloseInv, ReloadInv
<1>8. RootInv'
  BY <1>1, <1>2, RootKept DEF CloseInv
<1>9. ClosedInv'
  <2>1. closed \cap resident = {}
    BY DEF CloseInv, ClosedInv
  <2> QED
    BY <1>1, <1>2, <1>3, <2>1, ClosedKept DEF CloseInv
<1> QED
  BY <1>4, <1>5, <1>6, <1>7, <1>8, <1>9 DEF CloseInv

\* A death leaves everything at rest.
LEMMA CrashRests ==
  ASSUME IInv, Crash
  PROVE  Unfinished' = {} /\ Jobs' = {}
<1>1. Jobs' = {}
  BY DEF Crash, Jobs
<1>2. row' = Ended(row, Unfinished, "host_shutdown") /\ "host_shutdown" \in Ends
  BY DEF Crash, RecoveredEnd, Ends
<1>3. Rows(row)
  BY RowsNow DEF IInv
<1>4. \A e \in Unfinished : e \in Execution /\ row[e].state # "absent"
  BY DEF Unfinished
<1>5. EndsOf(row, row', Unfinished)
  BY <1>2, <1>3, <1>4, EndedRows
<1>6. \A e \in Execution : row'[e].state \notin {"queued", "running"}
  BY <1>5 DEF EndsOf, Unfinished
<1> QED
  BY <1>1, <1>6 DEF Unfinished

LEMMA CrashClose ==
  ASSUME IInv, CloseInv, Crash
  PROVE  CloseInv'
<1>1. /\ job' = [e \in Execution |-> "none"] /\ control' = Free /\ closed' = closed
      /\ resident' = {} /\ host' = [s \in Session |-> "active"] /\ closing' = {} /\ held' = {}
  BY DEF Crash
<1>2. EndsSome(row, row')
  BY CrashStore
<1>3. Calm
  BY <1>1, <1>2, EndsCalm
<1>4. Jobs' = {}
  BY CrashRests
<1>5. Unfinished' = {}
  BY CrashRests
<1>6. KnownInv' /\ DepthInv'
  BY <1>1, <1>3, KnownKept DEF CloseInv, Calm, KnownInv
<1>7. \A e \in Execution : AtRest(e)'
  BY <1>4, <1>5 DEF AtRest
<1>8. OwnInv'
  BY <1>5, <1>7 DEF OwnInv
<1>9. CallInv'
  BY <1>1, CallFreed
<1>10. ReloadInv' /\ RootInv'
  BY <1>1, <1>4, <1>5 DEF ReloadInv, RootInv
<1>11. ClosedInv'
  BY <1>1, <1>7 DEF ClosedInv, ChildrenOf, Known
<1> QED
  BY <1>6, <1>8, <1>9, <1>10, <1>11 DEF CloseInv

\* Turns that end or start, and what the parents are told.
LEMMA TurnClose ==
  ASSUME IInv, CloseInv,
         \/ \E e \in Execution : Cancel(e) \/ Run(e) \/ RetryFires(e) \/ Acknowledge(e)
         \/ \E n \in Notice : Tell(n) \/ DropSent(n) \/ SendFails(n)
         \/ Scan \/ UNCHANGED vars
  PROVE  CloseInv'
<1>1. ASSUME EndsSome(row, row'), control' = control, UNCHANGED tree,
             \A e \in Execution : job'[e] # "none" => job[e] # "none"
      PROVE  CloseInv'
  BY <1>1, EndsCalm, ApartClose
<1>2. ASSUME NEW e \in Execution, Cancel(e)
      PROVE  CloseInv'
  <2>1. /\ Cancelling(e, "cancelled") /\ UNCHANGED <<told, sent, silenced>> /\ "cancelled" \in Ends
        /\ job' = job /\ control' = control /\ UNCHANGED tree
    BY <1>2 DEF Cancel, Ends
  <2>2. EndsSome(row, row')
    BY <2>1, CancellingStore
  <2> QED
    BY <1>1, <2>1, <2>2
<1>3. ASSUME NEW e \in Execution, RunStarts(e)
      PROVE  CloseInv'
  <2>1. /\ EndsSome(row, row') /\ control' = control /\ UNCHANGED tree
    BY <1>3, QuietStore DEF RunStarts, Quiet
  <2>2. \A x \in Execution : job'[x] # "none" => job[x] # "none"
    BY <1>3 DEF RunStarts, IInv, TypeOK
  <2> QED
    BY <1>1, <2>1, <2>2
<1>4. ASSUME NEW e \in Execution, NEW end \in {"completed", "failed"}, RunEnds(e, end)
      PROVE  CloseInv'
  <2>1. /\ EndsSome(row, row')
    BY <1>4, RunEndsStore
  <2>2. control' = control /\ UNCHANGED tree /\ job' = [job EXCEPT ![e] = "leaving"]
    BY <1>4 DEF RunEnds
  <2>3. job[e] # "none" /\ job \in [Execution -> {"none", "scheduled", "prompting", "leaving"}]
    BY <1>4 DEF RunEnds, IInv, TypeOK
  <2>4. \A x \in Execution : job'[x] # "none" => job[x] # "none"
    BY <2>2, <2>3
  <2> QED
    BY <1>1, <2>1, <2>2, <2>4
<1>9. ASSUME NEW e \in Execution, JobLeaves(e)
      PROVE  CloseInv'
  <2>1. EndsSome(row, row') /\ control' = control /\ UNCHANGED tree
    BY <1>9, QuietStore DEF JobLeaves, Quiet, store, port
  <2>2. job' = [job EXCEPT ![e] = "none"]
        /\ job \in [Execution -> {"none", "scheduled", "prompting", "leaving"}]
    BY <1>9 DEF JobLeaves, IInv, TypeOK
  <2>3. \A x \in Execution : job'[x] # "none" => job[x] # "none"
    BY <2>2
  <2> QED
    BY <1>1, <2>1, <2>3
<1>5. ASSUME NEW e \in Execution, RetryFires(e) \/ Acknowledge(e)
      PROVE  CloseInv'
  <2>1. EndsSome(row, row')
    BY <1>5, RetryStore, AcknowledgeStore
  <2>2. job' = job /\ control' = control /\ UNCHANGED tree
    BY <1>5 DEF RetryFires, Acknowledge, queue
  <2> QED
    BY <1>1, <2>1, <2>2
<1>6. ASSUME NEW n \in Notice, Tell(n) \/ DropSent(n) \/ SendFails(n)
      PROVE  CloseInv'
  <2>1. EndsSome(row, row')
    BY <1>6, SendStore, SendFailsStore, PersistStore, QuietStore DEF Tell, Quiet
  <2>2. job' = job /\ control' = control /\ UNCHANGED tree
    BY <1>6 DEF Tell, Send, Persist, DropSent, SendFails, queue
  <2> QED
    BY <1>1, <2>1, <2>2
<1>7. CASE Scan
  <2>1. PICK S \in SUBSET Eligible :
          /\ \A e \in Execution : /\ row'[e].parent = row[e].parent
                                  /\ e \in S => row'[e].state = "running"
                                  /\ e \notin S => row'[e] = row[e]
          /\ job' = [e \in Execution |-> IF e \in S THEN "scheduled" ELSE job[e]]
    BY <1>7, ScanStore
  <2>2. \A e \in S : e \in Execution /\ row[e].state = "queued"
    BY DEF Eligible, Queued
  <2>3. Calm
    BY <2>1, <2>2 DEF Calm, SameTree, Unfinished, Jobs
  <2>4. control' = control /\ UNCHANGED tree
    BY <1>7 DEF Scan
  <2> QED
    BY <2>3, <2>4, ApartClose
<1>8. CASE UNCHANGED vars
  <2>1. row' = row /\ job' = job /\ control' = control /\ UNCHANGED tree
    BY <1>8 DEF vars, store, queue
  <2>2. Calm
    BY <2>1 DEF Calm, SameTree, Unfinished, Jobs
  <2> QED
    BY <2>1, <2>2, ApartClose
<1> QED
  BY <1>2, <1>3, <1>4, <1>5, <1>6, <1>7, <1>8, <1>9 DEF Run

\* A reload fails: the root stays without a runtime, and is neither closed nor shut down.
LEMMA ReloadFailsClose ==
  ASSUME IInv, CloseInv, ReloadFails
  PROVE  CloseInv'
<1>1. /\ row' = row /\ job' = job /\ UNCHANGED <<control, resident, host, closing, closed>>
      /\ held' = held \ {"reload"}
  BY DEF ReloadFails, store
<1>2. Calm
  BY <1>1 DEF Calm, SameTree, Unfinished, Jobs
<1>4. KnownInv' /\ DepthInv'
  BY <1>1, <1>2, KnownKept DEF CloseInv, Calm, KnownInv
<1>5. OwnInv'
  BY <1>1, <1>2, OwnKept DEF CloseInv
<1>6. CallInv'
  BY <1>1, <1>2, CallKept DEF CloseInv
<1>7. ReloadInv'
  BY <1>1 DEF ReloadInv
<1>8. RootInv'
  BY <1>1, <1>2, RootKept DEF CloseInv
<1>9. ClosedInv'
  <2>1. closed \cap resident = {}
    BY DEF CloseInv, ClosedInv
  <2> QED
    BY <1>1, <1>2, <2>1, ClosedKept DEF CloseInv
<1> QED
  BY <1>4, <1>5, <1>6, <1>7, <1>8, <1>9 DEF CloseInv

\* Every step keeps the invariant of closes.
LEMMA CloseInductive ==
  ASSUME IInv, CloseInv, [Next]_vars
  PROVE  CloseInv'
<1>1. ASSUME NEW e \in Execution,
             Spawn(e) \/ SteerBegins(e) \/ Steer(e) \/ \E p \in Session : SpawnBegins(p, e)
      PROVE  CloseInv'
  <2>1. CASE SpawnEnds(e)
    <3>1. EndsSome(row, row')
      BY <2>1, SpawnEndsStore
    <3>2. /\ job' = job /\ control' = Free /\ host' = Woken(host)
          /\ UNCHANGED <<resident, closing, closed, held>>
      BY <2>1 DEF SpawnEnds
    <3> QED
      BY <3>1, <3>2, EndsCalm, OverClose
  <2>2. CASE SteerFails(e)
    <3>1. /\ row' = row /\ job' = job /\ control' = Free /\ host' = Woken(host)
          /\ UNCHANGED <<resident, closing, closed, held>>
      BY <2>2 DEF SteerFails, store, queue
    <3>2. Calm
      BY <3>1 DEF Calm, SameTree, Unfinished, Jobs
    <3> QED
      BY <3>1, <3>2, OverClose
  <2> QED
    BY <1>1, <2>1, <2>2, SpawnBeginsClose, SteerBeginsClose, SpawnFailsClose, SessionStartsClose,
       SteerEndsClose DEF Spawn, Steer
<1>2. ASSUME NEW s \in Session, BeginClose(s) \/ Evict(s) \/ Restore(s) \/ Closes(s)
      PROVE  CloseInv'
  BY <1>2, BeginCloseClose, ShutdownClose, RestoreClose, CancelAllClose, HostShutClose,
     DisposeClose DEF Closes
<1>3. ASSUME NEW k \in Holds, HoldBegins(k) \/ HoldEnds(k)
      PROVE  CloseInv'
  BY <1>3, HoldBeginsClose, HoldEndsClose
<1>4. CASE \/ \E e \in Execution : Cancel(e) \/ Run(e) \/ RetryFires(e) \/ Acknowledge(e)
           \/ \E n \in Notice : Tell(n) \/ DropSent(n) \/ SendFails(n)
           \/ Scan \/ UNCHANGED vars
  BY <1>4, TurnClose
<1> QED
  BY <1>1, <1>2, <1>3, <1>4, ReloadFailsClose, CrashClose, Zenon DEF Next

LEMMA CloseInitially ==
  ASSUME Init
  PROVE  CloseInv
<1>1. NoRow.state = "absent"
  BY DEF NoRow
<1>2. Known = {}
  BY <1>1 DEF Init, Known
<1>3. Unfinished = {} /\ Jobs = {}
  BY <1>1 DEF Init, Unfinished, Jobs
<1>4. /\ closing = {} /\ closed = {} /\ held = {} /\ control = Free
      /\ host = [s \in Session |-> "active"]
  BY DEF Init
<1>5. KnownInv /\ DepthInv
  BY <1>2, <1>3, <1>4 DEF KnownInv, DepthInv
<1>6. OwnInv
  BY <1>3 DEF OwnInv, AtRest, Unfinished
<1>7. CallInv /\ ReloadInv /\ ClosedInv
  BY <1>4 DEF CallInv, OpensFrom, Free, ReloadInv, ClosedInv
<1>8. RootInv
  BY <1>3, <1>4 DEF RootInv, Session
<1> QED
  BY <1>5, <1>6, <1>7, <1>8 DEF CloseInv

\* No sessions are each the child of another of them.
LEMMA NoCycle ==
  ASSUME KnownInv, NEW S, S \subseteq Known, \A e \in S : row[e].parent \in S
  PROVE  S = {}
<1> DEFINE T == Session \ S
<1>1. Root \in T /\ T \in SUBSET Session
  BY ExecutionsAssumption DEF Known, Session
<1>2. \A e \in Known : row[e].parent \in T => e \in T
  BY DEF Known, Session
<1> HIDE DEF T
<1>3. Below(Root) \subseteq T
  BY <1>1, <1>2, BelowLeast
<1> QED
  BY <1>3 DEF T, KnownInv

\* A session, its children and theirs.
Near(s) == {s} \cup {e \in Known : row[e].parent \in {s} \cup ChildrenOf(s)}

\* Five sessions that differ.
LEMMA FiveOf ==
  ASSUME NEW a, NEW b, NEW c, NEW d, NEW e,
         a # b, a # c, a # d, a # e, b # c, b # d, b # e, c # d, c # e, d # e
  PROVE  Cardinality({a, b, c, d, e}) = 5
<1>0. IsFiniteSet({}) /\ Cardinality({}) = 0
  BY FS_EmptySet
<1>1. IsFiniteSet({e}) /\ Cardinality({e}) = 1
  <2>1. {e} = {} \cup {e} /\ e \notin {}
    OBVIOUS
  <2> QED
    BY <1>0, <2>1, FS_AddElement
<1>2. IsFiniteSet({d, e}) /\ Cardinality({d, e}) = 2
  <2>1. {d, e} = {e} \cup {d} /\ d \notin {e}
    OBVIOUS
  <2> QED
    BY <1>1, <2>1, FS_AddElement
<1>3. IsFiniteSet({c, d, e}) /\ Cardinality({c, d, e}) = 3
  <2>1. {c, d, e} = {d, e} \cup {c} /\ c \notin {d, e}
    OBVIOUS
  <2> QED
    BY <1>2, <2>1, FS_AddElement
<1>4. IsFiniteSet({b, c, d, e}) /\ Cardinality({b, c, d, e}) = 4
  <2>1. {b, c, d, e} = {c, d, e} \cup {b} /\ b \notin {c, d, e}
    OBVIOUS
  <2> QED
    BY <1>3, <2>1, FS_AddElement
<1>5. {a, b, c, d, e} = {b, c, d, e} \cup {a} /\ a \notin {b, c, d, e}
  OBVIOUS
<1> QED
  BY <1>4, <1>5, FS_AddElement

\* In a tree three deep nothing else is below a child of the root.
LEMMA NearIsAll ==
  ASSUME KnownInv, DepthInv, MaxDepth <= 3, NEW s \in Session, s # Root
  PROVE  Below(s) \subseteq Near(s)
<1>0. /\ Root \notin Known /\ Known \subseteq Session /\ Root \in Session
      /\ MaxDepth \in Int
  BY ExecutionsAssumption DEF Known, Session
<1>1. \A e \in Known : row[e].parent \in Near(s) => e \in Near(s)
  <2> SUFFICES ASSUME NEW x \in Known, row[x].parent \in Near(s), x \notin Near(s)
               PROVE  FALSE
    OBVIOUS
  <2>1. PICK g \in Known : g = row[x].parent /\ g \in Near(s)
    BY DEF Near
  <2>2. PICK c \in Known : c = row[g].parent /\ row[c].parent = s
    BY <2>1 DEF Near, ChildrenOf
  <2>3. s \in Known
    <3>1. s \in Known \cup {Root}
      BY <2>2 DEF KnownInv
    <3> QED
      BY <3>1
  <2>4. x # g /\ x # c /\ x # s /\ g # c /\ g # s /\ c # s
    <3>1. \A e \in Known : row[e].parent # e
      <4> SUFFICES ASSUME NEW e \in Known, row[e].parent = e
                   PROVE  FALSE
        OBVIOUS
      <4>1. {e} = {}
        BY NoCycle
      <4> QED
        BY <4>1
    <3>2. c \in Near(s) /\ s \in Near(s) /\ g # s
      BY <2>1, <2>2 DEF Near, ChildrenOf
    <3> QED
      BY <2>1, <2>2, <3>1, <3>2
  <2>5. \A a \in {x, g, c, s, Root} : x \in Below(a)
    <3>1. x \in Below(x) /\ x \in Below(g)
      BY <1>0, <2>1, BelowClosed
    <3>2. g \in Below(c) /\ x \in Below(c)
      BY <1>0, <2>1, <2>2, BelowClosed
    <3>3. c \in Below(s) /\ g \in Below(s) /\ x \in Below(s)
      BY <1>0, <2>1, <2>2, BelowClosed
    <3>4. x \in Below(Root)
      BY DEF KnownInv
    <3> QED
      BY <3>1, <3>2, <3>3, <3>4
  <2>6. Depth(x) >= 4
    <3> DEFINE A == {a \in Session : x \in Below(a)}
    <3>1. {x, g, c, s, Root} \subseteq A
      BY <1>0, <2>3, <2>5
    <3>2. IsFiniteSet(A) /\ Cardinality(A) \in Nat
      BY AboveFinite
    <3>3. Cardinality({x, g, c, s, Root}) = 5
      BY <1>0, <2>3, <2>4, FiveOf
    <3>4. Cardinality({x, g, c, s, Root}) <= Cardinality(A)
      BY <3>1, <3>2, FS_Subset
    <3>5. Depth(x) = Cardinality(A) - 1
      BY DEF Depth
    <3> HIDE DEF A
    <3> QED
      BY <3>2, <3>3, <3>4, <3>5
  <2>7. Depth(x) <= MaxDepth
    BY DEF DepthInv
  <2>8. Depth(x) \in Int
    BY AboveFinite DEF Depth
  <2> QED
    BY <1>0, <2>6, <2>7, <2>8
<1>2. Near(s) \in SUBSET Session /\ s \in Near(s)
  BY <1>0 DEF Near
<1> QED
  BY <1>1, <1>2, BelowLeast

\* How a close comes to its end: the session is disposed, a spawn that failed has
\* shut its child down, or the process dies.
LEMMA CloseEnds ==
  ASSUME IInv, CloseInv, [Next]_vars, NEW s \in Session,
         s \in closing, s \notin closing', s \in resident, s \notin resident'
  PROVE  \/ Dispose(s)
         \/ s \in Execution /\ Starting(s, "failing") /\ host[s] = "shut" /\ row' = row /\ job' = job
         \/ Crash
<1>2. ASSUME NEW e \in Execution, Spawn(e) \/ Steer(e)
      PROVE  /\ s = e /\ Starting(e, "failing") /\ host[e] = "shut"
             /\ row' = row /\ job' = job
  <2>1. SpawnFails(e)
    BY <1>2 DEF Spawn, Steer, SessionStarts, SpawnEnds, SteerEnds, SteerFails
  <2>2. ~Starting(e, "opening") \/ s # e
    <3>1. s \in Known \cup {Root} /\ Root \notin Execution
      BY ExecutionsAssumption DEF CloseInv, KnownInv
    <3> QED
      BY <3>1 DEF IInv, ControlInv, Known
  <2> QED
    BY <2>1, <2>2 DEF SpawnFails, store, queue
<1>3. ASSUME NEW d \in Session, Dispose(d)
      PROVE  Dispose(s)
  BY <1>3 DEF Dispose
<1>5. ASSUME NEW e \in Execution,
             \/ \E p \in Session : SpawnBegins(p, e)
             \/ SteerBegins(e) \/ Cancel(e) \/ Run(e) \/ RetryFires(e) \/ Acknowledge(e)
      PROVE  FALSE
  BY <1>5 DEF SpawnBegins, SteerBegins, Cancel, Run, RunStarts, RunEnds, JobLeaves, RetryFires,
              Acknowledge, tree
<1>6. ASSUME NEW n \in Notice, Tell(n) \/ DropSent(n) \/ SendFails(n)
      PROVE  FALSE
  BY <1>6 DEF Tell, Send, Persist, DropSent, SendFails, tree
<1>7. ASSUME Scan \/ ReloadFails \/ UNCHANGED vars
      PROVE  FALSE
  BY <1>7 DEF Scan, ReloadFails, vars, tree
<1>8. ASSUME NEW d \in Session,
             \/ BeginClose(d) \/ Evict(d) \/ Restore(d) \/ Shutdown(d)
             \/ CancelAll(d) \/ HostShut(d) \/ CloseChildren(d)
      PROVE  FALSE
  BY <1>8 DEF BeginClose, Evict, Restore, Shutdown, CancelAll, HostShut, CloseChildren
<1>9. ASSUME NEW k \in Holds, HoldBegins(k) \/ HoldEnds(k)
      PROVE  FALSE
  BY <1>9 DEF HoldBegins, HoldEnds
<1> QED
  BY <1>2, <1>3, <1>5, <1>6, <1>7, <1>8, <1>9 DEF Next, Closes

\* Nothing is left to run where the runtime of a session that closes was taken.
LEMMA CloseLeaves ==
  ASSUME IInv, CloseInv, [Next]_vars, NEW s \in Session,
         s \in closing, s \notin closing', s \in resident, s \notin resident'
  PROVE  /\ Near(s) \cap (Unfinished' \cup Jobs') = {}
         /\ s = Root => Unfinished' \cup Jobs' = {}
<1>1. CASE Dispose(s)
  <2>1. /\ s \notin closed /\ host[s] = "shut" /\ OpenChildren(s) = {}
        /\ row' = row /\ job' = job
    BY <1>1 DEF Dispose, Stopped, store, queue, CloseInv, ClosedInv
  <2>2. Unfinished' = Unfinished /\ Jobs' = Jobs
    BY <2>1 DEF Unfinished, Jobs
  <2>3. \A e \in ChildrenOf(s) : e \in closed /\ e \notin resident /\ AtRest(e)
    <3>1. \A e \in ChildrenOf(s) : e \in closed /\ e \in Execution
      BY <2>1 DEF OpenChildren, ChildrenOf, Known
    <3> QED
      BY <3>1 DEF CloseInv, ClosedInv, OwnInv
  <2>4. \A e \in Near(s) : AtRest(e)
    <3> SUFFICES ASSUME NEW e \in Near(s)
                 PROVE  AtRest(e)
      OBVIOUS
    <3>1. CASE e = s
      <4>1. CASE s \in Execution
        BY <2>1, <3>1, <4>1 DEF CloseInv, OwnInv
      <4>2. CASE s \notin Execution
        BY <3>1, <4>2 DEF AtRest, Unfinished, Jobs
      <4> QED
        BY <4>1, <4>2
    <3>2. CASE e \in Known /\ row[e].parent = s
      BY <2>3, <3>2 DEF ChildrenOf
    <3>3. CASE e \in Known /\ row[e].parent \in ChildrenOf(s)
      <4>1. row[e].parent \in closed /\ e \in ChildrenOf(row[e].parent)
        BY <2>3, <3>3 DEF ChildrenOf
      <4> QED
        BY <4>1 DEF CloseInv, ClosedInv
    <3> QED
      BY <3>1, <3>2, <3>3 DEF Near
  <2>5. s = Root => Unfinished = {} /\ Jobs = {}
    BY <2>1 DEF CloseInv, RootInv
  <2> QED
    BY <2>2, <2>4, <2>5 DEF AtRest
<1>2. CASE s \in Execution /\ Starting(s, "failing") /\ host[s] = "shut" /\ row' = row /\ job' = job
  <2>1. Unfinished' = Unfinished /\ Jobs' = Jobs /\ AtRest(s)
    BY <1>2 DEF Unfinished, Jobs, CloseInv, OwnInv
  <2>2. ChildrenOf(s) = {}
    BY <1>2 DEF Starting, CloseInv, CallInv
  <2>3. Near(s) = {s} /\ s # Root
    BY <1>2, <2>2, ExecutionsAssumption DEF Near, ChildrenOf
  <2>4. Near(s) \cap (Unfinished' \cup Jobs') = {}
    BY <2>1, <2>3 DEF AtRest
  <2> QED
    BY <2>3, <2>4
<1>3. CASE Crash
  BY <1>3, CrashRests
<1> QED
  BY <1>1, <1>2, <1>3, CloseEnds
-----------------------------------------------------------------------------
(* Live jobs, where no spawn is interrupted.                               *)

\* A spawn that nothing interrupts comes to its end under a parent that works.
SpawnInv ==
  control.op = "spawn" =>
    /\ host[Root] = "active" /\ host[control.parent] = "active"
    /\ control.parent # Root => control.parent \in Unfinished
    /\ control.step # "failing"

LiveInv == \A e \in Execution : Live(e) => row[e].state = "running"

JobsInv == SpawnInv /\ LiveInv

\* Of the rows r none outside S has ended in q.
EndsOnly(r, q, S) == \A e \in Execution \ S : q[e].state = r[e].state

\* Telling the parent ends nothing.
LEMMA DeliverOnly ==
  ASSUME NEW r, Rows(r), NEW S, Deliver(r, S)
  PROVE  EndsOnly(r, row', {})
<1> DEFINE due == IF host[Root] = "active"
                  THEN {e \in S : r[e].pending /\ r[e].parent \in resident} ELSE {}
           open == {e \in due : Dispatchable(r[e].parent)}
           done == {e \in open : Delivered(NoticeOf(r, e))}
<1>1. row' = [e \in Execution |-> IF e \in done THEN [r[e] EXCEPT !.pending = FALSE] ELSE r[e]]
  BY Zenon DEF Deliver
<1> HIDE DEF done
<1> SUFFICES ASSUME NEW e \in Execution
             PROVE  row'[e].state = r[e].state
  BY Zenon DEF EndsOnly
<1>2. r[e] \in Row
  BY DEF Rows
<1>3. [r[e] EXCEPT !.pending = FALSE].state = r[e].state
  BY <1>2 DEF Row
<1>4. row'[e] = [r[e] EXCEPT !.pending = FALSE] \/ row'[e] = r[e]
  BY <1>1, Zenon
<1> QED
  BY <1>3, <1>4, Zenon

LEMMA EndedOnly ==
  ASSUME IInv, NEW S, NEW end \in Ends, NEW D, Deliver(Ended(row, S, end), D),
         \A e \in S : e \in Execution /\ row[e].state # "absent"
  PROVE  EndsOnly(row, row', S)
<1>1. Rows(row)
  BY RowsNow DEF IInv
<1>2. PICK q : q = Ended(row, S, end)
  OBVIOUS
<1>3. Rows(q) /\ EndsOf(row, q, S)
  BY <1>1, <1>2, EndedRows
<1>4. EndsOnly(q, row', {})
  BY <1>2, <1>3, DeliverOnly
<1>5. ASSUME NEW e \in Execution \ S
      PROVE  row'[e].state = row[e].state
  BY <1>3, <1>4 DEF EndsOf, EndsOnly
<1> QED
  BY <1>5 DEF EndsOnly

\* The parts of the invariant after a step, each from what it needs.
LEMMA SpawnKept ==
  ASSUME SpawnInv,
         control'.op = "spawn" =>
           /\ control.op = "spawn" /\ control'.parent = control.parent
           /\ control'.step # "failing" /\ host'[Root] = host[Root]
           /\ host'[control.parent] = host[control.parent]
           /\ control.parent \in Unfinished => control.parent \in Unfinished'
  PROVE  SpawnInv'
<1> SUFFICES ASSUME control'.op = "spawn"
             PROVE  /\ host'[Root] = "active" /\ host'[control'.parent] = "active"
                    /\ control'.parent # Root => control'.parent \in Unfinished'
                    /\ control'.step # "failing"
  BY DEF SpawnInv
<1> PICK p : p = control.parent
  OBVIOUS
<1>1. /\ control.op = "spawn" /\ control'.parent = p
      /\ control'.step # "failing" /\ host'[Root] = host[Root] /\ host'[p] = host[p]
      /\ p \in Unfinished => p \in Unfinished'
  OBVIOUS
<1>2. host[Root] = "active" /\ host[p] = "active" /\ (p # Root => p \in Unfinished)
  BY <1>1 DEF SpawnInv
<1> QED
  BY <1>1, <1>2, Zenon

LEMMA LiveKept ==
  ASSUME LiveInv,
         \A e \in Execution :
           Live(e)' => row'[e].state = "running" \/ (Live(e) /\ row'[e].state = row[e].state)
  PROVE  LiveInv'
  BY DEF LiveInv

\* Steps that leave the rows alone, bring no job to life, and change of the hosts
\* nothing that a spawn rests on.
LEMMA HostsJobs ==
  ASSUME JobsInv, row' = row, \A e \in Execution : Live(e)' => Live(e),
         control' = control \/ control' = Free,
         control' = control /\ control.op = "spawn" =>
           host'[Root] = host[Root] /\ host'[control.parent] = host[control.parent]
  PROVE  JobsInv'
<1>1. Unfinished' = Unfinished
  BY DEF Unfinished
<1>2. control' = Free => control'.op # "spawn"
  BY DEF Free
<1>3. control' = control => control'.step # "failing" \/ control.op # "spawn"
  BY DEF JobsInv, SpawnInv
<1>4. SpawnInv'
  BY <1>1, <1>2, <1>3, SpawnKept DEF JobsInv
<1>5. LiveInv'
  BY LiveKept DEF JobsInv
<1> QED
  BY <1>4, <1>5 DEF JobsInv

\* Spawns and continuations begin.
LEMMA BeginsJobs ==
  ASSUME JobsInv, NEW e \in Execution,
         SteerBegins(e) \/ \E p \in Session : SpawnBegins(p, e)
  PROVE  JobsInv'
<1>1. /\ row' = row /\ job' = job /\ aborted' = aborted /\ host' = host
  BY DEF SteerBegins, SpawnBegins, store, queue, tree
<1>2. LiveInv'
  BY <1>1 DEF JobsInv, LiveInv, Live
<1>3. CASE SteerBegins(e)
  <2>1. control'.op = "steer"
    BY <1>3 DEF SteerBegins
  <2> QED
    BY <1>2, <2>1 DEF JobsInv, SpawnInv
<1>4. CASE \E p \in Session : SpawnBegins(p, e)
  <2>1. PICK p \in Session : SpawnBegins(p, e)
    BY <1>4
  <2>2. /\ control'.op = "spawn" /\ control'.parent = p /\ control'.step = "opening"
    BY <2>1 DEF SpawnBegins
  <2>3. /\ host[p] = "active" /\ host[Root] = "active" /\ (p = Root \/ p \in Unfinished)
    BY <2>1 DEF SpawnBegins, MayWork, Dispatchable
  <2>4. control'.step # "failing" /\ Unfinished' = Unfinished
    BY <1>1, <2>2 DEF Unfinished
  <2>5. SpawnInv'
    BY <1>1, <2>2, <2>3, <2>4 DEF SpawnInv
  <2> QED
    BY <1>2, <2>5 DEF JobsInv
<1> QED
  BY <1>3, <1>4

\* Spawns and continuations that are over and leave the rows alone: where nothing
\* interrupts a spawn its child waits in the queue.
LEMMA OverJobs ==
  ASSUME IInv, JobsInv, ~Interrupts, NEW e \in Execution,
         SpawnFails(e) \/ SpawnEnds(e) \/ SteerFails(e)
  PROVE  JobsInv'
<1>1. PICK p : p = control.parent
  OBVIOUS
<1>2. ASSUME SpawnFails(e)
      PROVE  row' = row /\ control' = Free /\ job' = job /\ aborted' = aborted
  <2>1. ~Starting(e, "failing")
    BY DEF JobsInv, SpawnInv, Starting
  <2> QED
    BY <1>2, <2>1 DEF SpawnFails, store, queue
<1>3. ASSUME SpawnEnds(e)
      PROVE  row' = row
  <2>1. host[Root] = "active" /\ host[p] = "active" /\ (p # Root => p \in Unfinished)
    BY <1>1, <1>3 DEF JobsInv, SpawnInv, SpawnEnds, Starting
  <2>2. {host[Root], host[p]} = {"active"}
    BY <2>1
  <2>3. Interrupts = FALSE
    BY ExecutionsAssumption
  <2>4. PICK aborts \in {FALSE, Interrupts} :
          aborts \/ {host[Root], host[p]} # {"active"} \/ (p # Root /\ p \notin Unfinished)
          \/ row' = row
    BY <1>1, <1>3, Zenon DEF SpawnEnds
  <2> QED
    BY <2>1, <2>2, <2>3, <2>4
<1>4. row' = row /\ control' = Free /\ job' = job /\ aborted' = aborted
  BY <1>2, <1>3 DEF SpawnEnds, SteerFails, store, queue
<1>5. \A x \in Execution : Live(x)' => Live(x)
  BY <1>4 DEF Live
<1>6. control.op = "spawn" => control' # control
  BY <1>4 DEF Free
<1> QED
  BY <1>4, <1>5, <1>6, HostsJobs

\* A shutdown begins: not of a session that spawns, nor of one above it.
LEMMA ShutdownJobs ==
  ASSUME IInv, CloseInv, JobsInv, NEW s \in Session, Evict(s) \/ Shutdown(s)
  PROVE  JobsInv'
<1> DEFINE h == IF control = Free THEN "cancelling" ELSE "shutting"
<1>1. /\ row' = row /\ job' = job /\ aborted' = aborted /\ host' = [host EXCEPT ![s] = h]
      /\ control' = control
  BY DEF Evict, Shutdown, ShutsDown, store, queue
<1> HIDE DEF h
<1>2. host \in [Session -> HostStates] /\ Root \in Session
  BY DEF IInv, TypeOK, HostStates, Session
<1>3. \A x \in Session \ {s} : host'[x] = host[x]
  BY <1>1, <1>2
<1>4. ASSUME control.op = "spawn"
      PROVE  host'[Root] = host[Root] /\ host'[control.parent] = host[control.parent]
  <2>1. Evict(s) /\ ~Calls(s)
    BY <1>4 DEF Shutdown, Opening, Evict
  <2>2. control.parent \notin Below(s)
    BY <1>4, <2>1 DEF Calls, Free
  <2>3. control.parent = Root \/ control.parent \in Unfinished
    BY <1>4 DEF JobsInv, SpawnInv
  <2>4. control.parent \in Below(Root) /\ control.parent \in Session
    BY <1>2, <2>3, BelowClosed DEF CloseInv, KnownInv, Known, Unfinished, Session
  <2>5. s # Root /\ s # control.parent
    BY <2>2, <2>4, BelowClosed
  <2> QED
    BY <1>2, <1>3, <2>4, <2>5
<1>5. \A x \in Execution : Live(x)' => Live(x)
  BY <1>1 DEF Live
<1> QED
  BY <1>1, <1>4, <1>5, HostsJobs

\* Steps that leave the rows and the jobs alone, and the hosts while one spawns.
LEMMA StillJobs ==
  ASSUME IInv, JobsInv,
         \/ \E s \in Session : BeginClose(s) \/ CloseChildren(s) \/ Dispose(s) \/ HostShut(s)
         \/ \E k \in Holds : HoldEnds(k)
         \/ \E n \in Notice : Tell(n) \/ DropSent(n) \/ SendFails(n)
         \/ ReloadFails \/ UNCHANGED vars
  PROVE  JobsInv'
<1>1. row' = row /\ job' = job /\ aborted' = aborted /\ control' = control
      /\ (host' = host \/ control = Free)
  <2>1. CASE \E s \in Session : BeginClose(s) \/ CloseChildren(s) \/ Dispose(s) \/ HostShut(s)
    BY <2>1 DEF BeginClose, CloseChildren, Dispose, HostShut, Joined, store, queue
  <2>2. CASE \E k \in Holds : HoldEnds(k)
    BY <2>2 DEF HoldEnds, store
  <2>3. CASE \E n \in Notice : Tell(n) \/ DropSent(n) \/ SendFails(n)
    BY <2>3 DEF Tell, Send, Persist, DropSent, SendFails, store, queue, tree
  <2>4. CASE ReloadFails \/ UNCHANGED vars
    BY <2>4 DEF ReloadFails, vars, store, queue, tree
  <2> QED
    BY <2>1, <2>2, <2>3, <2>4
<1>2. \A x \in Execution : Live(x)' => Live(x)
  BY <1>1 DEF Live
<1>3. control = Free => control.op # "spawn"
  BY DEF Free
<1> QED
  BY <1>1, <1>2, <1>3, HostsJobs

\* What is opened again leaves the active hosts active.
LEMMA RestoreJobs ==
  ASSUME IInv, JobsInv, NEW s \in Session, Restore(s)
  PROVE  JobsInv'
<1>1. /\ row' = row /\ job' = job /\ aborted' = aborted /\ host' = [host EXCEPT ![s] = "active"]
      /\ control' = control
  BY DEF Restore, store, queue
<1>2. host \in [Session -> HostStates] /\ Root \in Session
  BY DEF IInv, TypeOK, HostStates, Session
<1>3. host'[s] = "active" /\ \A x \in Session \ {s} : host'[x] = host[x]
  BY <1>1, <1>2
<1>4. ASSUME control.op = "spawn"
      PROVE  host'[Root] = host[Root] /\ host'[control.parent] = host[control.parent]
  <2>1. host[Root] = "active" /\ host[control.parent] = "active"
    BY <1>4 DEF JobsInv, SpawnInv
  <2>2. control.parent \in Session
    BY <1>2, <1>4 DEF JobsInv, SpawnInv, Unfinished, Session
  <2> QED
    BY <1>2, <1>3, <2>1, <2>2
<1>5. \A x \in Execution : Live(x)' => Live(x)
  BY <1>1 DEF Live
<1> QED
  BY <1>1, <1>4, <1>5, HostsJobs

\* A reload disposes what is idle: nothing that spawns.
LEMMA HoldBeginsJobs ==
  ASSUME IInv, JobsInv, NEW k \in Holds, HoldBegins(k)
  PROVE  JobsInv'
<1> DEFINE idle == {e \in Execution \cap resident : ~Busy(e) /\ host[e] = "active" /\ ~Continuing(e)}
           gone == IF k = "reload" THEN idle \cup {Root} ELSE {}
<1>1. /\ row' = row /\ job' = job /\ aborted' = aborted /\ control' = control
      /\ host' = [s \in Session |-> IF s \in gone \ {Root} THEN "shut" ELSE host[s]]
  BY DEF HoldBegins, store, queue
<1>2. \A s \in gone : s # Root => ~Busy(s)
  OBVIOUS
<1> HIDE DEF gone
<1>3. \A x \in Session : x \notin gone \/ x = Root => host'[x] = host[x]
  BY <1>1
<1>4. ASSUME control.op = "spawn"
      PROVE  host'[Root] = host[Root] /\ host'[control.parent] = host[control.parent]
  <2>1. PICK p : p = control.parent
    OBVIOUS
  <2>2. p = Root \/ p \in Unfinished
    BY <1>4, <2>1 DEF JobsInv, SpawnInv
  <2>3. Root \in Session /\ p \in Session
    BY <2>2 DEF Unfinished, Session
  <2>4. p \in Unfinished => Busy(p)
    BY <2>3, BelowClosed DEF Busy
  <2>5. p \notin gone \/ p = Root
    BY <1>2, <2>2, <2>4
  <2> QED
    BY <1>3, <2>1, <2>3, <2>5
<1>5. \A x \in Execution : Live(x)' => Live(x)
  BY <1>1 DEF Live
<1> QED
  BY <1>1, <1>4, <1>5, HostsJobs

\* Rows of S end, whose jobs leave or are aborted, and no session of S spawns.
LEMMA EndsJobs ==
  ASSUME JobsInv, NEW S, EndsOnly(row, row', S), control' = control,
         \A e \in Execution : Live(e)' => Live(e) /\ e \notin S,
         control.op = "spawn" => control.parent \notin S /\ host' = host
  PROVE  JobsInv'
<1>1. ASSUME control.op = "spawn", control.parent \in Unfinished
      PROVE  control.parent \in Unfinished'
  <2>1. PICK p : p = control.parent
    OBVIOUS
  <2>2. p \in Execution \ S /\ row[p].state \in {"queued", "running"}
    BY <1>1, <2>1 DEF Unfinished
  <2>3. row'[p].state = row[p].state
    BY <2>2 DEF EndsOnly
  <2> QED
    BY <2>1, <2>2, <2>3 DEF Unfinished
<1>2. control.op = "spawn" => control.step # "failing"
  BY DEF JobsInv, SpawnInv
<1>3. SpawnInv'
  BY <1>1, <1>2, SpawnKept DEF JobsInv
<1>4. LiveInv'
  BY LiveKept DEF JobsInv, EndsOnly
<1> QED
  BY <1>3, <1>4 DEF JobsInv

\* The parent is told, or reads the result: no row ends.
LEMMA ToldJobs ==
  ASSUME IInv, JobsInv, NEW e \in Execution, RetryFires(e) \/ Acknowledge(e)
  PROVE  JobsInv'
<1>1. job' = job /\ aborted' = aborted /\ control' = control /\ host' = host
  BY DEF RetryFires, Acknowledge, queue, tree
<1>2. EndsOnly(row, row', {})
  <2>1. Rows(row)
    BY RowsNow DEF IInv
  <2>2. CASE RetryFires(e)
    BY <2>1, <2>2, DeliverOnly DEF RetryFires
  <2>3. CASE Acknowledge(e)
    <3>1. row' = [row EXCEPT ![e].pending = FALSE]
      BY <2>3, Zenon DEF Acknowledge
    <3> QED
      BY <2>1, <3>1 DEF EndsOnly, Rows, Row
  <2> QED
    BY <2>2, <2>3
<1>3. \A x \in Execution : Live(x)' => Live(x) /\ x \notin {}
  BY <1>1 DEF Live
<1> QED
  BY <1>1, <1>2, <1>3, EndsJobs

\* A turn is over: no session below it spawns.
LEMMA RunEndsJobs ==
  ASSUME IInv, JobsInv, ~Interrupts, NEW e \in Execution, NEW end \in {"completed", "failed"},
         RunEnds(e, end)
  PROVE  JobsInv'
<1>1. /\ job' = [job EXCEPT ![e] = "leaving"] /\ aborted' = aborted
      /\ control' = control /\ host' = host
  BY DEF RunEnds, tree
<1>2. PICK S : S = {e} \cap Unfinished
  OBVIOUS
<1>3. EndsOnly(row, row', S)
  <2>1. Rows(row) /\ end \in Ends
    BY RowsNow DEF IInv, Ends
  <2>2. Deliver(RunEnd(e, end), {e})
    BY DEF RunEnds
  <2>3. CASE e \in Unfinished
    <3>1. S = {e} /\ RunEnd(e, end) = Ended(row, S, end)
      BY <1>2, <2>3 DEF RunEnd
    <3>2. \A x \in S : x \in Execution /\ row[x].state # "absent"
      BY <1>2 DEF Unfinished
    <3> QED
      BY <2>1, <2>2, <3>1, <3>2, EndedOnly
  <2>4. CASE e \notin Unfinished
    <3>1. S = {} /\ RunEnd(e, end) = row
      BY <1>2, <2>4 DEF RunEnd
    <3> QED
      BY <2>1, <2>2, <3>1, DeliverOnly
  <2> QED
    BY <2>3, <2>4
<1>4. control.op = "spawn" => control.parent \notin S
  <2>1. ~Spawning(e)
    BY DEF RunEnds, Undisturbed
  <2>2. e \in Below(e)
    BY BelowClosed DEF Session
  <2> QED
    BY <1>2, <2>1, <2>2 DEF Spawning, Calls, Free
<1>5. \A x \in Execution : Live(x)' => Live(x) /\ x \notin S
  BY <1>1, <1>2 DEF IInv, TypeOK, Live
<1> QED
  BY <1>1, <1>3, <1>4, <1>5, EndsJobs

\* A job is given its prompt, or leaves.
LEMMA RunJobs ==
  ASSUME IInv, JobsInv, NEW e \in Execution, RunStarts(e) \/ JobLeaves(e)
  PROVE  JobsInv'
<1>1. row' = row /\ control' = control /\ host' = host
  BY DEF RunStarts, JobLeaves, store, tree
<1>2. job \in [Execution -> JobStates]
  BY DEF IInv, TypeOK, JobStates
<1>3. ASSUME NEW x \in Execution, Live(x)'
      PROVE  Live(x)
  <2>1. CASE RunStarts(e)
    <3>1. job[e] = "scheduled" /\ job' = [job EXCEPT ![e] = "prompting"] /\ aborted' = aborted
      BY <2>1 DEF RunStarts
    <3> QED
      BY <1>2, <1>3, <3>1 DEF Live
  <2>2. CASE JobLeaves(e)
    <3>1. job' = [job EXCEPT ![e] = "none"] /\ aborted' = aborted \ {e}
      BY <2>2 DEF JobLeaves
    <3> QED
      BY <1>2, <1>3, <3>1 DEF Live
  <2> QED
    BY <2>1, <2>2
<1> QED
  BY <1>1, <1>3, HostsJobs

\* What a cancel or a shutdown ends is aborted; nothing below it spawns.
LEMMA CancelJobs ==
  ASSUME IInv, JobsInv, NEW s \in Session, NEW end \in Ends, Cancelling(s, end),
         UNCHANGED <<job, control>>, control.op = "spawn" => ~Calls(s) /\ host' = host
  PROVE  JobsInv'
<1>1. PICK S : S = Below(s) \cap Unfinished
  OBVIOUS
<1>2. Deliver(Ended(row, S, end), S \ Jobs) /\ aborted' = aborted \cup (S \cap Jobs)
  BY <1>1, Zenon DEF Cancelling
<1>3. EndsOnly(row, row', S)
  <2>1. \A x \in S : x \in Execution /\ row[x].state # "absent"
    BY <1>1 DEF Unfinished
  <2> QED
    BY <1>2, <2>1, EndedOnly
<1>4. control.op = "spawn" => control.parent \notin S
  BY <1>1 DEF Calls, Free
<1>5. \A x \in Execution : Live(x)' => Live(x) /\ x \notin S
  BY <1>2 DEF Live, Jobs
<1> QED
  BY <1>3, <1>4, <1>5, EndsJobs

LEMMA CancelsJobs ==
  ASSUME IInv, JobsInv, ~Interrupts,
         (\E e \in Execution : Cancel(e)) \/ (\E s \in Session : CancelAll(s))
  PROVE  JobsInv'
<1>1. ASSUME NEW e \in Execution, Cancel(e)
      PROVE  JobsInv'
  <2>1. /\ Cancelling(e, "cancelled") /\ UNCHANGED <<job, control>> /\ "cancelled" \in Ends
        /\ host' = host /\ e \in Session
    BY <1>1 DEF Cancel, tree, Session, Ends
  <2>2. control.op = "spawn" => ~Calls(e)
    BY <1>1 DEF Cancel, Undisturbed, Spawning
  <2> QED
    BY <2>1, <2>2, CancelJobs
<1>2. ASSUME NEW s \in Session, CancelAll(s)
      PROVE  JobsInv'
  <2>1. /\ Cancelling(s, "host_shutdown") /\ UNCHANGED <<job, control>>
        /\ "host_shutdown" \in Ends /\ control = Free
    BY <1>2 DEF CancelAll, Ends
  <2>2. control.op # "spawn"
    BY <2>1 DEF Free
  <2> QED
    BY <2>1, <2>2, CancelJobs
<1> QED
  BY <1>1, <1>2

\* Queued rows start, each with a job.
LEMMA ScanJobs ==
  ASSUME IInv, JobsInv, Scan
  PROVE  JobsInv'
<1>1. PICK S \in SUBSET Eligible :
        /\ \A e \in Execution : /\ e \in S => row'[e].state = "running"
                                /\ e \notin S => row'[e] = row[e]
        /\ job' = [e \in Execution |-> IF e \in S THEN "scheduled" ELSE job[e]]
  BY ScanStore
<1>2. \A e \in S : e \in Execution /\ row[e].state = "queued"
  BY DEF Eligible, Queued
<1>3. Unfinished' = Unfinished /\ control' = control /\ host' = host /\ aborted' = aborted
  BY <1>1, <1>2 DEF Unfinished, Scan, tree
<1>4. SpawnInv'
  BY <1>3 DEF JobsInv, SpawnInv
<1>5. LiveInv'
  BY <1>1, <1>3, LiveKept DEF JobsInv, Live
<1> QED
  BY <1>4, <1>5 DEF JobsInv

\* The session of a spawn starts.
LEMMA SessionStartsJobs ==
  ASSUME IInv, CloseInv, JobsInv, NEW e \in Execution, SessionStarts(e)
  PROVE  JobsInv'
<1>1. Starting(e, "opening")
  BY DEF SessionStarts
<1>2. /\ control \in Calling /\ control.op = "spawn" /\ control.parent \in Session
  BY <1>1, StartingTyped
<1>3. PICK p \in Session : p = control.parent
  BY <1>2
<1>4. /\ job' = job /\ aborted' = aborted /\ host' = [host EXCEPT ![e] = "active"]
      /\ control' = [control EXCEPT !.step = "activating"]
  BY DEF SessionStarts, queue
<1>5. /\ row[e].state = "absent" /\ row'[e].state = "queued"
      /\ \A d \in Execution \ {e} : row'[d] = row[d]
  BY SessionStartsStore
<1>6. control'.op = "spawn" /\ control'.step = "activating" /\ control'.parent = p
  BY <1>2, <1>3, <1>4 DEF Calling
<1>7. host \in [Session -> HostStates] /\ e \in Session /\ Root \in Session
  BY DEF IInv, TypeOK, HostStates, Session
<1>8. host'[e] = "active" /\ \A x \in Session \ {e} : host'[x] = host[x]
  BY <1>4, <1>7
<1>9. SpawnInv'
  <2>1. /\ host[Root] = "active" /\ host[p] = "active" /\ (p # Root => p \in Unfinished)
    BY <1>2, <1>3 DEF JobsInv, SpawnInv
  <2>2. host'[Root] = "active" /\ host'[p] = "active" /\ (p # Root => p \in Unfinished')
    BY <1>5, <1>7, <1>8, <2>1 DEF Unfinished
  <2> QED
    BY <1>6, <2>2 DEF SpawnInv
<1>10. LiveInv'
  <2>1. ~Live(e)
    BY <1>5 DEF JobsInv, LiveInv
  <2> QED
    BY <1>4, <1>5, <2>1, LiveKept DEF JobsInv, Live
<1> QED
  BY <1>9, <1>10 DEF JobsInv

\* A continuation: the row that had ended has no live job.
LEMMA SteerEndsJobs ==
  ASSUME IInv, JobsInv, NEW e \in Execution, SteerEnds(e)
  PROVE  JobsInv'
<1>1. /\ job' = job /\ aborted' = aborted /\ control' = Free
  BY DEF SteerEnds
<1>2. /\ row[e].state = "done" /\ \A d \in Execution \ {e} : row'[d] = row[d]
  BY SteerEndsStore
<1>3. SpawnInv'
  BY <1>1 DEF SpawnInv, Free
<1>4. LiveInv'
  <2>1. ~Live(e)
    BY <1>2 DEF JobsInv, LiveInv
  <2> QED
    BY <1>1, <1>2, <2>1, LiveKept DEF JobsInv, Live
<1> QED
  BY <1>3, <1>4 DEF JobsInv

\* A death leaves no job.
LEMMA CrashJobs ==
  ASSUME Crash
  PROVE  JobsInv'
<1>1. /\ job' = [e \in Execution |-> "none"] /\ control' = Free
  BY DEF Crash
<1> QED
  BY <1>1 DEF JobsInv, SpawnInv, LiveInv, Live, Free

\* Every step keeps the invariant of jobs.
LEMMA JobsInductive ==
  ASSUME IInv, CloseInv, JobsInv, ~Interrupts, [Next]_vars
  PROVE  JobsInv'
<1>1. ASSUME NEW e \in Execution,
             Spawn(e) \/ SteerBegins(e) \/ Steer(e) \/ \E p \in Session : SpawnBegins(p, e)
      PROVE  JobsInv'
  BY <1>1, BeginsJobs, SessionStartsJobs, OverJobs, SteerEndsJobs DEF Spawn, Steer
<1>2. ASSUME NEW e \in Execution, Cancel(e) \/ Run(e) \/ RetryFires(e) \/ Acknowledge(e)
      PROVE  JobsInv'
  BY <1>2, CancelsJobs, RunJobs, RunEndsJobs, ToldJobs DEF Run
<1>3. ASSUME NEW s \in Session, BeginClose(s) \/ Evict(s) \/ Restore(s) \/ Closes(s)
      PROVE  JobsInv'
  BY <1>3, StillJobs, ShutdownJobs, RestoreJobs, CancelsJobs DEF Closes
<1>4. ASSUME NEW k \in Holds, HoldBegins(k) \/ HoldEnds(k)
      PROVE  JobsInv'
  BY <1>4, HoldBeginsJobs, StillJobs
<1>5. CASE (\E n \in Notice : Tell(n) \/ DropSent(n) \/ SendFails(n)) \/ ReloadFails \/ UNCHANGED vars
  BY <1>5, StillJobs
<1>6. CASE Scan \/ Crash
  BY <1>6, ScanJobs, CrashJobs
<1> QED
  BY <1>1, <1>2, <1>3, <1>4, <1>5, <1>6, Zenon DEF Next

LEMMA JobsInitially ==
  ASSUME Init
  PROVE  JobsInv
  BY DEF Init, JobsInv, SpawnInv, LiveInv, Live, Free
-----------------------------------------------------------------------------
(* Notices that were silenced.                                             *)

\* In the rows r the notice n is of an end, and nobody is owed it.
Mute(r, n) ==
  LET x == r[n[1]]
  IN n[2] < x.turn \/ (n[2] = x.turn /\ x.state = "done" /\ ~x.pending)

SilentInv ==
  \A n \in silenced : n \notin waiting \cup sent /\ told[n] = 0 /\ Mute(row, n)

\* What is owed to nobody in r is owed to nobody in q.
KeepsMute(r, q) ==
  \A e \in Execution :
    \/ r[e].turn < q[e].turn
    \/ /\ q[e].turn = r[e].turn
       /\ r[e].state = "done" /\ ~r[e].pending => q[e].state = "done" /\ ~q[e].pending

LEMMA MuteKept ==
  ASSUME NEW r, Rows(r), NEW q, Rows(q), KeepsMute(r, q), NEW n \in Notice, Mute(r, n)
  PROVE  Mute(q, n)
<1>1. n[1] \in Execution /\ n[2] \in Int
  BY ExecutionsAssumption DEF Notice, Turn
<1>2. PICK x, y : x = r[n[1]] /\ y = q[n[1]]
  OBVIOUS
<1>3. x.turn \in Int /\ y.turn \in Int
  BY <1>1, <1>2, ExecutionsAssumption DEF Rows, Row
<1>4. \/ x.turn < y.turn
      \/ /\ y.turn = x.turn
         /\ x.state = "done" /\ ~x.pending => y.state = "done" /\ ~y.pending
  BY <1>1, <1>2, Zenon DEF KeepsMute
<1>5. n[2] < x.turn \/ (n[2] = x.turn /\ x.state = "done" /\ ~x.pending)
  BY <1>2, Zenon DEF Mute
<1>6. n[2] < y.turn \/ (n[2] = y.turn /\ y.state = "done" /\ ~y.pending)
  BY <1>1, <1>3, <1>4, <1>5
<1> QED
  BY <1>2, <1>6, Zenon DEF Mute

\* Rows that end stay mute where they were, and so do settled ones.
LEMMA EndedMute ==
  ASSUME NEW r, Rows(r), NEW S, \A e \in S : e \in Execution /\ r[e].state \in {"queued", "running"},
         NEW end \in Ends
  PROVE  Rows(Ended(r, S, end)) /\ KeepsMute(r, Ended(r, S, end))
<1>1. PICK q : q = Ended(r, S, end)
  OBVIOUS
<1>2. Rows(q) /\ EndsOf(r, q, S)
  <2>1. \A e \in S : e \in Execution /\ r[e].state # "absent"
    OBVIOUS
  <2> QED
    BY <1>1, <2>1, EndedRows
<1>3. ASSUME NEW e \in Execution
      PROVE  /\ q[e].turn = r[e].turn
             /\ r[e].state = "done" /\ ~r[e].pending => q[e].state = "done" /\ ~q[e].pending
  BY <1>2 DEF EndsOf
<1> QED
  BY <1>1, <1>2, <1>3 DEF KeepsMute

LEMMA SettledMute ==
  ASSUME NEW r, Rows(r), NEW D, NEW q, SettledIn(r, q, D)
  PROVE  Rows(q) /\ KeepsMute(r, q)
<1>1. Rows(q) /\ SameTurns(r, q)
  BY SettledRows
<1>2. ASSUME NEW e \in Execution
      PROVE  /\ q[e].turn = r[e].turn
             /\ r[e].state = "done" /\ ~r[e].pending => q[e].state = "done" /\ ~q[e].pending
  <2>1. r[e] \in Row
    BY DEF Rows
  <2>2. q[e] = [r[e] EXCEPT !.pending = FALSE] \/ q[e] = r[e]
    BY Zenon DEF SettledIn
  <2>3. q[e].state = r[e].state /\ q[e].turn = r[e].turn
    BY <1>1, Zenon DEF SameTurns
  <2>4. q[e].pending => r[e].pending
    BY <2>1, <2>2, SettledRow
  <2> QED
    BY <2>3, <2>4
<1> QED
  BY <1>1, <1>2 DEF KeepsMute

\* Steps that silence nothing and give the port nothing that was silenced.
LEMMA MuteStep ==
  ASSUME IInv, SilentInv, Rows(row'), silenced' = silenced, KeepsMute(row, row'),
         \A n \in Notice : told'[n] = told[n] \/ n \in sent,
         \A n \in waiting' \cup sent' : n \in waiting \cup sent \/ ~Mute(row, n)
  PROVE  SilentInv'
<1>1. Rows(row) /\ silenced \subseteq Notice
  BY RowsNow DEF IInv, TypeOK
<1> SUFFICES ASSUME NEW n \in silenced
             PROVE  n \notin waiting' \cup sent' /\ told'[n] = 0 /\ Mute(row', n)
  BY DEF SilentInv
<1>2. n \in Notice /\ n \notin waiting \cup sent /\ told[n] = 0 /\ Mute(row, n)
  BY <1>1 DEF SilentInv
<1>3. Mute(row', n)
  BY <1>1, <1>2, MuteKept
<1>4. n \notin waiting' \cup sent'
  BY <1>2, Zenon
<1>5. told'[n] = 0
  BY <1>2
<1> QED
  BY <1>3, <1>4, <1>5

\* The rows are left alone.
LEMMA StillMute ==
  ASSUME IInv, SilentInv, row' = row, silenced' = silenced,
         \A n \in Notice : told'[n] = told[n] \/ n \in sent,
         waiting' \cup sent' \subseteq waiting \cup sent
  PROVE  SilentInv'
<1>1. Rows(row)
  BY RowsNow DEF IInv
<1>2. KeepsMute(row, row')
  BY Zenon DEF KeepsMute
<1> QED
  BY <1>1, <1>2, MuteStep

\* What deliver offers is owed.
LEMMA DeliverMute ==
  ASSUME IInv, SilentInv, NEW r, Rows(r), KeepsMute(row, r), NEW D \in SUBSET Execution,
         Deliver(r, D), UNCHANGED <<told, sent, silenced>>
  PROVE  SilentInv'
<1> DEFINE due == IF host[Root] = "active"
                  THEN {e \in D : r[e].pending /\ r[e].parent \in resident} ELSE {}
           open == {e \in due : Dispatchable(r[e].parent)}
           done == {e \in open : Delivered(NoticeOf(r, e))}
           new == {NoticeOf(r, e) : e \in open \ done} \ sent
<1>1. SettledIn(r, row', done) /\ waiting' = waiting \cup new
  BY Zenon DEF Deliver, SettledIn
<1>2. \A n \in new : \E e \in D : r[e].pending /\ n = NoticeOf(r, e)
  BY Zenon
<1> HIDE DEF due, open, done, new
<1>3. Rows(row') /\ KeepsMute(r, row')
  BY <1>1, SettledMute
<1>4. Rows(row)
  BY RowsNow DEF IInv
<1>5. ASSUME NEW n \in new
      PROVE  ~Mute(row, n)
  <2>1. PICK e \in D : r[e].pending /\ n = NoticeOf(r, e)
    BY <1>2
  <2>2. e \in Execution
    BY Zenon
  <2>3. n \in Notice /\ n[1] = e /\ n[2] = r[e].turn
    <3>1. NoticeOf(r, e) \in Notice /\ NoticeOf(r, e)[1] = e
      BY <2>1, <2>2, NoticeTyped
    <3>2. NoticeOf(r, e)[2] = r[e].turn
      BY DEF NoticeOf
    <3> QED
      BY <2>1, <3>1, <3>2
  <2>4. r[e].turn \in Int
    BY <2>2, ExecutionsAssumption DEF Rows, Row
  <2>5. ~Mute(r, n)
    BY <2>1, <2>3, <2>4 DEF Mute
  <2> QED
    BY <1>4, <2>3, <2>5, MuteKept
<1>6. KeepsMute(row, row')
  <2> SUFFICES ASSUME NEW e \in Execution
               PROVE  \/ row[e].turn < row'[e].turn
                      \/ /\ row'[e].turn = row[e].turn
                         /\ row[e].state = "done" /\ ~row[e].pending =>
                              row'[e].state = "done" /\ ~row'[e].pending
    BY Zenon DEF KeepsMute
  <2>1. PICK x, y, z : x = row[e] /\ y = r[e] /\ z = row'[e]
    OBVIOUS
  <2>2. x.turn \in Int /\ y.turn \in Int /\ z.turn \in Int
    BY <1>3, <1>4, <2>1, ExecutionsAssumption DEF Rows, Row
  <2>3. \/ x.turn < y.turn
        \/ /\ y.turn = x.turn
           /\ x.state = "done" /\ ~x.pending => y.state = "done" /\ ~y.pending
    BY <2>1, Zenon DEF KeepsMute
  <2>4. \/ y.turn < z.turn
        \/ /\ z.turn = y.turn
           /\ y.state = "done" /\ ~y.pending => z.state = "done" /\ ~z.pending
    BY <1>3, <2>1, Zenon DEF KeepsMute
  <2>5. \/ x.turn < z.turn
        \/ /\ z.turn = x.turn
           /\ x.state = "done" /\ ~x.pending => z.state = "done" /\ ~z.pending
    BY <2>2, <2>3, <2>4
  <2> QED
    BY <2>1, <2>5, Zenon
<1>7. \A n \in waiting' \cup sent' : n \in waiting \cup sent \/ ~Mute(row, n)
  BY <1>1, <1>5, Zenon
<1> QED
  BY <1>3, <1>6, <1>7, MuteStep

\* Ends that are told of at once: of a run, a cancel, a shutdown.
LEMMA TellsMute ==
  ASSUME IInv, SilentInv, NEW S, \A e \in S : e \in Unfinished,
         NEW end \in Ends, NEW D \in SUBSET Execution,
         Deliver(Ended(row, S, end), D), UNCHANGED <<told, sent, silenced>>
  PROVE  SilentInv'
<1>1. Rows(row)
  BY RowsNow DEF IInv
<1>2. \A e \in S : e \in Execution /\ row[e].state \in {"queued", "running"}
  BY DEF Unfinished
<1>3. PICK q : q = Ended(row, S, end)
  OBVIOUS
<1>4. Rows(q) /\ KeepsMute(row, q)
  BY <1>1, <1>2, <1>3, EndedMute
<1> QED
  BY <1>3, <1>4, DeliverMute

LEMMA CancellingMute ==
  ASSUME IInv, SilentInv, NEW s \in Session, NEW end \in Ends, Cancelling(s, end),
         UNCHANGED <<told, sent, silenced>>
  PROVE  SilentInv'
<1>1. PICK S : S = Below(s) \cap Unfinished
  OBVIOUS
<1>2. Deliver(Ended(row, S, end), S \ Jobs)
  BY <1>1, Zenon DEF Cancelling
<1>3. S \ Jobs \in SUBSET Execution /\ \A e \in S : e \in Unfinished
  BY <1>1 DEF Unfinished
<1> QED
  BY <1>2, <1>3, TellsMute

\* Steps of rows that end and of the timers.
LEMMA EndsMute ==
  ASSUME IInv, SilentInv,
         \/ \E e \in Execution : Cancel(e) \/ RetryFires(e)
         \/ \E e \in Execution : \E end \in {"completed", "failed"} : RunEnds(e, end)
         \/ \E s \in Session : CancelAll(s)
  PROVE  SilentInv'
<1>1. ASSUME NEW e \in Execution, Cancel(e)
      PROVE  SilentInv'
  <2>1. Cancelling(e, "cancelled") /\ "cancelled" \in Ends /\ e \in Session
    BY <1>1 DEF Cancel, Session, Ends
  <2>2. UNCHANGED <<told, sent, silenced>>
    BY <1>1 DEF Cancel
  <2> QED
    BY <2>1, <2>2, CancellingMute
<1>2. ASSUME NEW s \in Session, CancelAll(s)
      PROVE  SilentInv'
  <2>1. Cancelling(s, "host_shutdown") /\ "host_shutdown" \in Ends
    BY <1>2 DEF CancelAll, Ends
  <2>2. UNCHANGED <<told, sent, silenced>>
    BY <1>2 DEF CancelAll
  <2> QED
    BY <2>1, <2>2, CancellingMute
<1>3. Rows(row) /\ KeepsMute(row, row)
  BY RowsNow DEF IInv, KeepsMute
<1>4. ASSUME NEW e \in Execution, RetryFires(e)
      PROVE  SilentInv'
  <2>1. Deliver(row, {e}) /\ UNCHANGED <<told, sent, silenced>>
    BY <1>4 DEF RetryFires
  <2>2. {e} \in SUBSET Execution
    OBVIOUS
  <2> QED
    BY <1>3, <2>1, <2>2, DeliverMute
<1>5. ASSUME NEW e \in Execution, NEW end \in {"completed", "failed"}, RunEnds(e, end)
      PROVE  SilentInv'
  <2>1. Deliver(RunEnd(e, end), {e}) /\ UNCHANGED <<told, sent, silenced>>
    BY <1>5 DEF RunEnds
  <2>2. {e} \in SUBSET Execution /\ end \in Ends
    BY DEF Ends
  <2>3. CASE e \in Unfinished
    <3>1. Deliver(Ended(row, {e}, end), {e}) /\ \A d \in {e} : d \in Unfinished
      BY <2>1, <2>3 DEF RunEnd
    <3>2. PICK S : S = {e}
      OBVIOUS
    <3> QED
      BY <2>1, <2>2, <3>1, <3>2, TellsMute
  <2>4. CASE e \notin Unfinished
    <3>1. Deliver(row, {e})
      BY <2>1, <2>4 DEF RunEnd
    <3> QED
      BY <1>3, <2>1, <2>2, <3>1, DeliverMute
  <2> QED
    BY <2>3, <2>4
<1> QED
  BY <1>1, <1>2, <1>4, <1>5

\* A notice is silenced: it is out of the port, and its end is owed no more.
LEMMA SilencedMute ==
  ASSUME IInv, SilentInv, NEW e \in Execution, row[e].state = "done",
         Rows(row'), KeepsMute(row, row'),
         row[e].turn < row'[e].turn \/
           (row'[e].turn = row[e].turn /\ row'[e].state = "done" /\ ~row'[e].pending),
         waiting' = Suppressed(e), silenced' = Silenced(e), UNCHANGED <<told, sent>>
  PROVE  SilentInv'
<1>1. Rows(row) /\ silenced \subseteq Notice /\ told \in [Notice -> Nat]
  BY RowsNow DEF IInv, TypeOK
<1>2. PICK m : m = NoticeOf(row, e)
  OBVIOUS
<1>3. m \in Notice /\ m[1] = e /\ m[2] = row[e].turn
  BY <1>1, <1>2, TurnTyped DEF NoticeOf
<1>4. /\ waiting' = waiting \ {m}
      /\ silenced' = silenced \cup ({m} \ {n \in Notice : n \in sent \/ Delivered(n)})
  BY <1>2 DEF Suppressed, Silenced
<1> SUFFICES ASSUME NEW n \in silenced'
             PROVE  n \notin waiting' \cup sent' /\ told'[n] = 0 /\ Mute(row', n)
  BY DEF SilentInv
<1>5. CASE n \in silenced
  <2>1. n \in Notice /\ n \notin waiting \cup sent /\ told[n] = 0 /\ Mute(row, n)
    BY <1>1, <1>5 DEF SilentInv
  <2>2. Mute(row', n)
    BY <1>1, <2>1, MuteKept
  <2> QED
    BY <1>4, <2>1, <2>2
<1>6. CASE n \notin silenced
  <2>1. n = m /\ n \notin sent /\ ~Delivered(n)
    BY <1>3, <1>4, <1>6
  <2>2. told[n] = 0
    BY <1>1, <1>3, <2>1 DEF Delivered
  <2>3. Mute(row', n)
    BY <1>3, <2>1 DEF Mute
  <2> QED
    BY <1>4, <2>1, <2>2, <2>3
<1> QED
  BY <1>5, <1>6

\* The parent reads the result, or the child is continued.
LEMMA AcknowledgeMute ==
  ASSUME IInv, SilentInv, NEW e \in Execution, Acknowledge(e)
  PROVE  SilentInv'
<1>1. Rows(row) /\ row[e].pending
  BY RowsNow DEF IInv, Acknowledge
<1>2. row[e].state = "done"
  BY <1>1, NoticeTyped
<1>3. PICK q : q = row'
  OBVIOUS
<1>4. q = [row EXCEPT ![e].pending = FALSE]
  BY <1>3, Zenon DEF Acknowledge
<1>5. \A d \in Execution \ {e} : q[d] = row[d]
  BY <1>1, <1>4 DEF Rows, Row
<1>6. q[e].turn = row[e].turn /\ q[e].state = "done" /\ ~q[e].pending
  BY <1>1, <1>2, <1>4 DEF Rows, Row
<1>7. SettledIn(row, q, {e})
  BY <1>1, <1>4 DEF SettledIn, Rows
<1>8. Rows(q) /\ KeepsMute(row, q)
  BY <1>1, <1>7, SettledMute
<1>9. waiting' = Suppressed(e) /\ silenced' = Silenced(e) /\ UNCHANGED <<told, sent>>
  BY DEF Acknowledge
<1> QED
  BY <1>2, <1>3, <1>6, <1>8, <1>9, SilencedMute

LEMMA SteerEndsMute ==
  ASSUME IInv, IInv', SilentInv, NEW e \in Execution, SteerEnds(e)
  PROVE  SilentInv'
<1>1. Rows(row) /\ Rows(row')
  <2>1. Rows(row)
    BY RowsNow DEF IInv
  <2>2. Rows(row)'
    BY RowsNow, PTL DEF IInv
  <2> QED
    BY <2>1, <2>2
<1>2. row[e].state = "done" /\ \A d \in Execution \ {e} : row'[d] = row[d]
  BY SteerEndsStore
<1>3. row[e].turn < row'[e].turn
  <2>1. row' = [row EXCEPT ![e] = [row[e] EXCEPT !.state = "queued", !.end = "none",
                                                 !.pending = FALSE, !.turn = @ + 1]]
    BY Zenon DEF SteerEnds
  <2>2. row[e] \in Row /\ row \in [Execution -> Row]
    BY <1>1 DEF Rows
  <2>3. row'[e].turn = row[e].turn + 1
    BY <2>1, <2>2 DEF Row
  <2>4. row[e].turn \in Int
    BY <2>2, ExecutionsAssumption DEF Row
  <2> QED
    BY <2>3, <2>4
<1>4. KeepsMute(row, row')
  BY <1>2, <1>3 DEF KeepsMute
<1>5. waiting' = Suppressed(e) /\ silenced' = Silenced(e) /\ UNCHANGED <<told, sent>>
  BY DEF SteerEnds
<1> QED
  BY <1>1, <1>2, <1>3, <1>4, <1>5, SilencedMute

\* A spawn that was given up makes its end due again.
LEMMA SpawnEndsMute ==
  ASSUME IInv, IInv', SilentInv, NEW e \in Execution, SpawnEnds(e)
  PROVE  SilentInv'
<1>1. Rows(row) /\ Rows(row') /\ silenced \subseteq Notice
  <2>1. Rows(row) /\ silenced \subseteq Notice
    BY RowsNow DEF IInv, TypeOK
  <2>2. Rows(row)'
    BY RowsNow, PTL DEF IInv
  <2> QED
    BY <2>1, <2>2
<1>2. UNCHANGED <<told, waiting, sent>>
  BY DEF SpawnEnds
<1>3. CASE row' = row /\ silenced' = silenced
  BY <1>2, <1>3, StillMute
<1>4. CASE row' = Ended(row, {e}, "host_shutdown") /\ silenced' = silenced \ {NoticeOf(row, e)}
  <2>1. row[e].state # "absent" /\ "host_shutdown" \in Ends
    BY DEF IInv, ControlInv, SpawnEnds, Ends
  <2>2. EndsOf(row, row', {e})
    BY <1>1, <1>4, <2>1, EndedRows
  <2> SUFFICES ASSUME NEW n \in silenced'
               PROVE  n \notin waiting' \cup sent' /\ told'[n] = 0 /\ Mute(row', n)
    BY DEF SilentInv
  <2>3. n \in silenced /\ n # NoticeOf(row, e) /\ n \in Notice
    BY <1>1, <1>4
  <2>4. n \notin waiting \cup sent /\ told[n] = 0 /\ Mute(row, n)
    BY <2>3 DEF SilentInv
  <2>5. CASE n[1] = e
    <3>1. n[2] # row[e].turn
      BY <2>3, <2>5 DEF Notice, NoticeOf
    <3>2. row'[e].turn = row[e].turn
      BY <2>2 DEF EndsOf
    <3> QED
      BY <1>2, <2>4, <2>5, <3>1, <3>2 DEF Mute
  <2>6. CASE n[1] # e
    <3>1. n[1] \in Execution
      BY <2>3 DEF Notice
    <3>2. row'[n[1]] = row[n[1]]
      BY <2>2, <2>6, <3>1 DEF EndsOf
    <3> QED
      BY <1>2, <2>4, <3>2 DEF Mute
  <2> QED
    BY <2>5, <2>6
<1> QED
  BY <1>3, <1>4 DEF SpawnEnds

\* A session starts; queued rows start; the process dies.
LEMMA MovesMute ==
  ASSUME IInv, IInv', SilentInv,
         Scan \/ Crash \/ \E e \in Execution : SessionStarts(e)
  PROVE  SilentInv'
<1>1. Rows(row) /\ Rows(row')
  <2>1. Rows(row)
    BY RowsNow DEF IInv
  <2>2. Rows(row)'
    BY RowsNow, PTL DEF IInv
  <2> QED
    BY <2>1, <2>2
<1>2. CASE Scan
  <2>1. PICK S \in SUBSET Eligible :
          \A e \in Execution : /\ e \in S => row'[e].state = "running" /\ row'[e].turn = row[e].turn
                               /\ e \notin S => row'[e] = row[e]
    <3>1. PICK S \in SUBSET Eligible :
            row' = [e \in Execution |-> IF e \in S THEN [row[e] EXCEPT !.state = "running"] ELSE row[e]]
      BY <1>2, Zenon DEF Scan
    <3>2. \A e \in Execution : row[e] \in Row
      BY <1>1 DEF Rows
    <3> QED
      BY <3>1, <3>2 DEF Row
  <2>2. \A e \in S : row[e].state # "done"
    BY DEF Eligible, Queued
  <2>3. KeepsMute(row, row')
    BY <2>1, <2>2 DEF KeepsMute
  <2>4. UNCHANGED <<told, waiting, sent, silenced>>
    BY <1>2 DEF Scan, port
  <2> QED
    BY <1>1, <2>3, <2>4, MuteStep
<1>3. CASE Crash
  <2>1. row' = Ended(row, Unfinished, "host_shutdown") /\ "host_shutdown" \in Ends
    BY <1>3 DEF Crash, RecoveredEnd, Ends
  <2>2. \A e \in Unfinished : e \in Execution /\ row[e].state \in {"queued", "running"}
    BY DEF Unfinished
  <2>3. KeepsMute(row, row')
    BY <1>1, <2>1, <2>2, EndedMute
  <2>4. waiting' = {} /\ sent' = {} /\ UNCHANGED <<told, silenced>>
    BY <1>3 DEF Crash
  <2> QED
    BY <1>1, <2>3, <2>4, MuteStep
<1>4. ASSUME NEW e \in Execution, SessionStarts(e)
      PROVE  SilentInv'
  <2>1. /\ row[e].state = "absent" /\ row'[e].state = "queued"
        /\ \A d \in Execution \ {e} : row'[d] = row[d]
    BY <1>4, SessionStartsStore
  <2>2. row[e].turn = 0
    BY <1>1, <2>1 DEF Rows, RowInv
  <2>3. row'[e].turn # 0 /\ row'[e].turn \in 0 .. MaxTurns
    BY <1>1, <2>1 DEF Rows, RowInv, Row
  <2>4. row[e].turn < row'[e].turn
    BY <2>2, <2>3, ExecutionsAssumption
  <2>5. KeepsMute(row, row')
    BY <2>1, <2>4 DEF KeepsMute
  <2>6. UNCHANGED <<told, waiting, sent, silenced>>
    BY <1>4 DEF SessionStarts, port
  <2> QED
    BY <1>1, <2>5, <2>6, MuteStep
<1> QED
  BY <1>2, <1>3, <1>4

\* Steps that leave the rows alone, and take from the port at most.
LEMMA PortMute ==
  ASSUME IInv, SilentInv,
         \/ \E n \in Notice : Tell(n) \/ DropSent(n) \/ SendFails(n)
         \/ \E s \in Session : Dispose(s)
         \/ \E k \in Holds : HoldBegins(k)
  PROVE  SilentInv'
<1>1. ASSUME NEW n \in Notice, Tell(n) \/ DropSent(n) \/ SendFails(n)
      PROVE  SilentInv'
  <2>1. row' = row /\ silenced' = silenced
    BY <1>1 DEF Tell, Send, Persist, DropSent, SendFails, store
  <2>2. waiting' \cup sent' \subseteq waiting \cup sent
    BY <1>1 DEF Tell, Send, Persist, DropSent, SendFails
  <2>3. \A m \in Notice : told'[m] = told[m] \/ m \in sent
    BY <1>1 DEF Tell, Send, Persist, DropSent, SendFails, store, IInv, TypeOK
  <2> QED
    BY <2>1, <2>2, <2>3, StillMute
<1>2. ASSUME \/ \E s \in Session : Dispose(s)
             \/ \E k \in Holds : HoldBegins(k)
      PROVE  SilentInv'
  <2>1. UNCHANGED <<row, told, silenced>>
    BY <1>2 DEF Dispose, HoldBegins, store
  <2>2. waiting' \cup sent' \subseteq waiting \cup sent
    BY <1>2 DEF Dispose, HoldBegins
  <2> QED
    BY <2>1, <2>2, StillMute
<1> QED
  BY <1>1, <1>2

LEMMA ApartMute ==
  ASSUME IInv, SilentInv, UNCHANGED <<store, port>>
  PROVE  SilentInv'
  BY StillMute DEF store, port

\* Every step keeps what was silenced silent.
LEMMA SilentInductive ==
  ASSUME IInv, IInv', SilentInv, [Next]_vars
  PROVE  SilentInv'
<1>1. ASSUME NEW e \in Execution,
             Spawn(e) \/ SteerBegins(e) \/ Steer(e) \/ \E p \in Session : SpawnBegins(p, e)
      PROVE  SilentInv'
  <2>1. CASE SessionStarts(e) \/ SpawnEnds(e) \/ SteerEnds(e)
    BY <2>1, MovesMute, SpawnEndsMute, SteerEndsMute
  <2>2. CASE SpawnFails(e) \/ SteerFails(e) \/ SteerBegins(e) \/ \E p \in Session : SpawnBegins(p, e)
    BY <2>2, ApartMute DEF SpawnFails, SteerFails, SteerBegins, SpawnBegins
  <2> QED
    BY <1>1, <2>1, <2>2, Zenon DEF Spawn, Steer
<1>2. ASSUME NEW e \in Execution, Cancel(e) \/ Run(e) \/ RetryFires(e) \/ Acknowledge(e)
      PROVE  SilentInv'
  <2>1. CASE RunStarts(e) \/ JobLeaves(e)
    BY <2>1, ApartMute DEF RunStarts, JobLeaves
  <2>2. CASE Cancel(e) \/ RetryFires(e) \/ \E end \in {"completed", "failed"} : RunEnds(e, end)
    BY <2>2, EndsMute
  <2>3. CASE Acknowledge(e)
    BY <2>3, AcknowledgeMute
  <2> QED
    BY <1>2, <2>1, <2>2, <2>3, Zenon DEF Run
<1>3. ASSUME NEW s \in Session, BeginClose(s) \/ Evict(s) \/ Restore(s) \/ Closes(s)
      PROVE  SilentInv'
  <2>1. CASE BeginClose(s) \/ Evict(s) \/ Restore(s)
    BY <2>1, ApartMute DEF BeginClose, Evict, Restore
  <2>2. CASE Shutdown(s) \/ HostShut(s) \/ CloseChildren(s)
    BY <2>2, ApartMute DEF Shutdown, HostShut, CloseChildren
  <2>3. CASE CancelAll(s) \/ Dispose(s)
    BY <2>3, EndsMute, PortMute
  <2> QED
    BY <1>3, <2>1, <2>2, <2>3, Zenon DEF Closes
<1>4. ASSUME NEW k \in Holds, HoldBegins(k) \/ HoldEnds(k)
      PROVE  SilentInv'
  BY <1>4, PortMute, ApartMute DEF HoldEnds
<1>5. CASE ReloadFails \/ UNCHANGED vars
  BY <1>5, ApartMute DEF ReloadFails, vars
<1>6. CASE (\E n \in Notice : Tell(n) \/ DropSent(n) \/ SendFails(n)) \/ Scan \/ Crash
  BY <1>6, PortMute, MovesMute
<1> QED
  BY <1>1, <1>2, <1>3, <1>4, <1>5, <1>6, Zenon DEF Next

LEMMA SilentInitially ==
  ASSUME Init
  PROVE  SilentInv
  BY DEF Init, SilentInv
-----------------------------------------------------------------------------
(* Rows that wait are not forgotten.                                       *)

\* s is being shut down.
Stopping(s) == host[s] \in {"shutting", "cancelling", "joining"}

SpawnOf(e) == control.op = "spawn" /\ control.child = e

\* Only what has a runtime is being shut down, and the child of a spawn that failed.
StopsInv == \A s \in Known \cup {Root} : Stopping(s) => s \in resident \/ Starting(s, "failing")

\* While anything has a runtime the root has one, or reloads, or could not be, or has
\* been shut down.
HomeInv ==
  \/ Root \in resident \/ "reload" \in held \/ missed
  \/ control = Free /\ (resident = {} \/ host[Root] = "shut")

\* What has no runtime, or has cancelled what is below it, has no child that waits but
\* the one it is about to give up.
RestInv ==
  \A p \in Execution :
    p \notin resident \/ host[p] \in {"joining", "shut"} =>
      \A c \in ChildrenOf(p) \cap Queued : SpawnOf(c)

\* Somebody will look at the queue again, or start or end the row of e: a scan, a job,
\* the spawn of e, the end of a reload or a cancel, a close or an eviction.  The
\* exceptions are those the code leaves: see `missed`.
Owed(e) ==
  \/ scan \/ missed \/ Room <= 0 \/ job[e] # "none" \/ SpawnOf(e)
  \/ held \cap {"reload", "cancel"} # {}
  \/ {e, row[e].parent, Root} \cap closing # {}
  \/ \E s \in {e, row[e].parent, Root} : host[s] \in {"shutting", "cancelling"}

QueuedIsOwed == \A e \in Queued : Owed(e)

\* The row of a spawn that is activated is a child of the session that spawns.
BornInv == \A e \in Execution : Starting(e, "activating") => row[e].parent = control.parent

QueueInv == StopsInv /\ HomeInv /\ BornInv /\ RestInv /\ QueuedIsOwed

\* Where a row waits there is something to start it in.
LEMMA QueuedStays ==
  ASSUME IInv, CloseInv, QueueInv, NEW e \in Queued
  PROVE  /\ e \in Execution /\ e \in Known /\ e # Root /\ row[e].parent \in Session
         /\ e \in resident /\ host[e] \notin {"joining", "shut"}
         /\ host[Root] \notin {"joining", "shut"} /\ (Root \in resident \/ "reload" \in held \/ missed)
         /\ row[e].parent # Root /\ ~SpawnOf(e) =>
              row[e].parent \in resident /\ host[row[e].parent] \notin {"joining", "shut"}
<1>1. e \in Execution /\ e \in Unfinished /\ e \in Known /\ e # Root /\ row[e].parent \in Session
  BY ExecutionsAssumption DEF Queued, Unfinished, Known, IInv, TypeOK
<1>2. ~AtRest(e)
  BY <1>1 DEF AtRest
<1>3. e \in resident /\ host[e] \notin {"joining", "shut"}
  BY <1>1, <1>2 DEF CloseInv, OwnInv
<1>4. host[Root] \notin {"joining", "shut"}
  BY <1>1 DEF CloseInv, RootInv
<1>5. Root \in resident \/ "reload" \in held \/ missed
  BY <1>3, <1>4 DEF QueueInv, HomeInv
<1>6. ASSUME row[e].parent # Root, ~SpawnOf(e)
      PROVE  row[e].parent \in resident /\ host[row[e].parent] \notin {"joining", "shut"}
  <2>1. PICK p : p = row[e].parent
    OBVIOUS
  <2>2. p \in Execution /\ e \in ChildrenOf(p)
    BY <1>1, <1>6, <2>1 DEF Session, ChildrenOf
  <2> QED
    BY <1>6, <2>1, <2>2 DEF QueueInv, RestInv
<1> QED
  BY <1>1, <1>3, <1>4, <1>5, <1>6

\* A step that looks at the queue again owes nothing more.
LEMMA RescanOwes ==
  ASSUME IInv, CloseInv, Rescan, Queued' \subseteq Unfinished, host'[Root] = host[Root]
  PROVE  QueuedIsOwed'
<1> SUFFICES ASSUME NEW e \in Queued'
             PROVE  Owed(e)'
  BY DEF QueuedIsOwed
<1>1. host[Root] \notin {"joining", "shut"}
  BY DEF CloseInv, RootInv
<1>2. host[Root] \in HostStates
  BY DEF IInv, TypeOK, HostStates, Session
<1>3. scan' \/ host'[Root] \in {"shutting", "cancelling"}
  BY <1>1, <1>2 DEF Rescan, HostStates
<1> QED
  BY <1>3 DEF Owed

\* A step that leaves who owes what.
Owes(e) ==
  /\ scan => scan'
  /\ missed' = missed
  /\ job'[e] # "none" <=> job[e] # "none"
  /\ SpawnOf(e) => SpawnOf(e)'
  /\ held \cap {"reload", "cancel"} \subseteq held'
  /\ row'[e].parent = row[e].parent
  /\ \A s \in {e, row[e].parent, Root} :
       /\ s \in closing => s \in closing'
       /\ host[s] \in {"shutting", "cancelling"} => host'[s] \in {"shutting", "cancelling"}

LEMMA OwedKept ==
  ASSUME QueuedIsOwed, Jobs' = Jobs,
         \A e \in Queued' : Owed(e)' \/ (e \in Queued /\ Owes(e))
  PROVE  QueuedIsOwed'
<1> SUFFICES ASSUME NEW e \in Queued', e \in Queued, Owes(e)
             PROVE  Owed(e)'
  BY DEF QueuedIsOwed
<1>1. Owed(e) /\ Owes(e)
  BY DEF QueuedIsOwed
<1>2. Room' = Room
  BY DEF Room
<1>3. CASE \/ scan \/ missed \/ Room <= 0 \/ job[e] # "none" \/ SpawnOf(e)
           \/ held \cap {"reload", "cancel"} # {}
  BY <1>1, <1>2, <1>3 DEF Owed, Owes
<1>4. CASE {e, row[e].parent, Root} \cap closing # {}
  <2>1. {e, row'[e].parent, Root} \cap closing' # {}
    BY <1>1, <1>4 DEF Owes
  <2> QED
    BY <2>1 DEF Owed
<1>5. CASE \E s \in {e, row[e].parent, Root} : host[s] \in {"shutting", "cancelling"}
  <2>1. \E s \in {e, row'[e].parent, Root} : host'[s] \in {"shutting", "cancelling"}
    BY <1>1, <1>5 DEF Owes
  <2> QED
    BY <2>1 DEF Owed
<1> QED
  BY <1>1, <1>3, <1>4, <1>5, Zenon DEF Owed

\* The other parts after a step.
LEMMA StopsKept ==
  ASSUME StopsInv, \A s \in Known' \cup {Root} : s \in Known \cup {Root} \/ ~Stopping(s)',
         \A s \in Session :
           Stopping(s)' =>
             \/ s \in resident' \/ Starting(s, "failing")'
             \/ /\ Stopping(s) /\ (s \in resident => s \in resident')
                /\ Starting(s, "failing") => Starting(s, "failing")'
  PROVE  StopsInv'
<1>1. Known \cup {Root} \subseteq Session
  BY DEF Known, Session
<1> SUFFICES ASSUME NEW s \in Known' \cup {Root}, Stopping(s)', s \notin resident',
                    ~Starting(s, "failing")'
             PROVE  FALSE
  BY DEF StopsInv
<1>2. s \in Known \cup {Root} /\ s \in Session
  BY <1>1
<1>3. Stopping(s) /\ s \notin resident /\ ~Starting(s, "failing")
  BY <1>2
<1> QED
  BY <1>2, <1>3 DEF StopsInv

LEMMA BornKept ==
  ASSUME BornInv, SameTree, \A e \in Execution : Starting(e, "activating")' => control' = control
  PROVE  BornInv'
<1> SUFFICES ASSUME NEW e \in Execution, Starting(e, "activating")'
             PROVE  row'[e].parent = control'.parent
  BY DEF BornInv
<1>1. control' = control
  OBVIOUS
<1>2. Starting(e, "activating")
  BY <1>1 DEF Starting
<1> QED
  BY <1>1, <1>2 DEF BornInv, SameTree

LEMMA RestKept ==
  ASSUME RestInv, SameTree, Queued' \subseteq Queued,
         \A c \in Queued' : SpawnOf(c) => SpawnOf(c)' \/ row[c].parent \notin Execution,
         \A p \in Execution :
           p \notin resident' \/ host'[p] \in {"joining", "shut"} =>
             \/ p \notin resident \/ host[p] \in {"joining", "shut"}
             \/ ChildrenOf(p) \cap Queued' = {}
  PROVE  RestInv'
<1> SUFFICES ASSUME NEW p \in Execution, p \notin resident' \/ host'[p] \in {"joining", "shut"},
                    NEW c \in ChildrenOf(p)' \cap Queued'
             PROVE  SpawnOf(c)'
  BY DEF RestInv
<1>1. c \in ChildrenOf(p) /\ c \in Queued /\ row[c].parent = p
  BY TreeKept DEF ChildrenOf
<1>2. p \notin resident \/ host[p] \in {"joining", "shut"}
  BY <1>1
<1>3. SpawnOf(c)
  BY <1>1, <1>2 DEF RestInv
<1> QED
  BY <1>1, <1>3

\* Rows that wait still are the ones that did, when rows only end.
LEMMA EndsQueued ==
  ASSUME EndsSome(row, row')
  PROVE  SameTree /\ Queued' \subseteq Queued /\ Queued' \subseteq Unfinished
<1>1. SameTree
  BY DEF EndsSome, SameTree
<1>2. Queued' \subseteq Queued
  BY DEF EndsSome, Queued
<1> QED
  BY <1>1, <1>2 DEF Queued, Unfinished

\* Steps that leave the sessions and `control` alone, and end rows.
LEMMA ApartQueue ==
  ASSUME IInv, CloseInv, QueueInv, EndsSome(row, row'), UNCHANGED tree, control' = control,
         missed' = missed, Rescan \/ (Jobs' = Jobs /\ scan' = scan)
  PROVE  QueueInv'
<1>1. resident' = resident /\ host' = host /\ closing' = closing /\ held' = held
  BY DEF tree
<1>2. SameTree /\ Queued' \subseteq Queued /\ Queued' \subseteq Unfinished
  BY EndsQueued
<1>3. Known' = Known
  BY <1>2, TreeKept
<1>4. StopsInv'
  BY <1>1, <1>3 DEF QueueInv, StopsInv, Stopping, Starting
<1>5. HomeInv'
  BY <1>1 DEF QueueInv, HomeInv
<1>6. BornInv'
  BY <1>2, BornKept DEF QueueInv
<1>7. RestInv'
  <2>1. \A c \in Queued' : SpawnOf(c) => SpawnOf(c)'
    BY DEF SpawnOf
  <2> QED
    BY <1>1, <1>2, <2>1, RestKept DEF QueueInv
<1>8. QueuedIsOwed'
  <2>1. CASE Rescan
    BY <1>1, <1>2, <2>1, RescanOwes
  <2>2. CASE Jobs' = Jobs /\ scan' = scan
    <3>1. ASSUME NEW e \in Queued'
          PROVE  Owes(e)
      <4>1. e \in Execution
        BY DEF Queued
      <4>2. row'[e].parent = row[e].parent
        BY <4>1 DEF EndsSome
      <4>3. job'[e] # "none" <=> job[e] # "none"
        BY <2>2, <4>1 DEF Jobs
      <4>4. SpawnOf(e) => SpawnOf(e)'
        BY DEF SpawnOf
      <4> QED
        BY <1>1, <2>2, <4>2, <4>3, <4>4 DEF Owes
    <3> QED
      BY <1>2, <2>2, <3>1, OwedKept DEF QueueInv
  <2> QED
    BY <2>1, <2>2
<1> QED
  BY <1>4, <1>5, <1>7, <1>8, <1>6 DEF QueueInv

LEMMA TurnQueue ==
  ASSUME IInv, CloseInv, QueueInv,
         \/ \E e \in Execution : Cancel(e) \/ Run(e) \/ RetryFires(e) \/ Acknowledge(e)
         \/ \E n \in Notice : Tell(n) \/ DropSent(n) \/ SendFails(n)
         \/ UNCHANGED vars
  PROVE  QueueInv'
<1>1. ASSUME NEW e \in Execution, Cancel(e)
      PROVE  QueueInv'
  <2>1. /\ Cancelling(e, "cancelled") /\ UNCHANGED <<told, sent, silenced>> /\ "cancelled" \in Ends
        /\ control' = control /\ UNCHANGED tree
    BY <1>1 DEF Cancel, Ends
  <2>2. EndsSome(row, row') /\ Rescan /\ missed' = missed
    BY <1>1, <2>1, CancellingStore DEF Cancel, Cancelling
  <2> QED
    BY <2>1, <2>2, ApartQueue
<1>2. ASSUME NEW e \in Execution, RunStarts(e)
      PROVE  QueueInv'
  <2>1. EndsSome(row, row') /\ control' = control /\ UNCHANGED tree /\ scan' = scan /\ missed' = missed
    BY <1>2, QuietStore DEF RunStarts, Quiet
  <2>2. Jobs' = Jobs
    BY <1>2 DEF RunStarts, IInv, TypeOK, Jobs
  <2> QED
    BY <2>1, <2>2, ApartQueue
<1>3. ASSUME NEW e \in Execution, NEW end \in {"completed", "failed"}, RunEnds(e, end)
      PROVE  QueueInv'
  <2>1. EndsSome(row, row')
    BY <1>3, RunEndsStore
  <2>2. /\ job[e] # "none" /\ job' = [job EXCEPT ![e] = "leaving"]
        /\ scan' = scan /\ missed' = missed /\ control' = control /\ UNCHANGED tree
    BY <1>3 DEF RunEnds
  <2>3. Jobs' = Jobs
    BY <2>2 DEF IInv, TypeOK, Jobs
  <2> QED
    BY <2>1, <2>2, <2>3, ApartQueue
<1>7. ASSUME NEW e \in Execution, JobLeaves(e)
      PROVE  QueueInv'
  <2>1. EndsSome(row, row') /\ control' = control /\ UNCHANGED tree /\ Rescan
        /\ missed' = missed
    BY <1>7, QuietStore DEF JobLeaves, Quiet, store, port
  <2> QED
    BY <2>1, ApartQueue
<1>4. ASSUME NEW e \in Execution, RetryFires(e) \/ Acknowledge(e)
      PROVE  QueueInv'
  <2>1. EndsSome(row, row')
    BY <1>4, RetryStore, AcknowledgeStore
  <2>2. /\ Jobs' = Jobs /\ scan' = scan /\ missed' = missed
        /\ control' = control /\ UNCHANGED tree
    BY <1>4 DEF RetryFires, Acknowledge, queue, Jobs
  <2> QED
    BY <2>1, <2>2, ApartQueue
<1>5. ASSUME NEW n \in Notice, Tell(n) \/ DropSent(n) \/ SendFails(n)
      PROVE  QueueInv'
  <2>1. EndsSome(row, row')
    BY <1>5, SendStore, SendFailsStore, PersistStore, QuietStore DEF Tell, Quiet
  <2>2. /\ Jobs' = Jobs /\ scan' = scan /\ missed' = missed
        /\ control' = control /\ UNCHANGED tree
    BY <1>5 DEF Tell, Send, Persist, DropSent, SendFails, queue, Jobs
  <2> QED
    BY <2>1, <2>2, ApartQueue
<1>6. CASE UNCHANGED vars
  <2>1. row' = row /\ Jobs' = Jobs /\ scan' = scan /\ missed' = missed /\ control' = control
        /\ UNCHANGED tree
    BY <1>6 DEF vars, store, queue, Jobs
  <2>2. EndsSome(row, row')
    BY <2>1 DEF EndsSome
  <2> QED
    BY <2>1, <2>2, ApartQueue
<1> QED
  BY <1>1, <1>2, <1>3, <1>4, <1>5, <1>6, <1>7 DEF Run

\* A shutdown cancels what is below it: nothing is left to wait there.
LEMMA CancelAllQueue ==
  ASSUME IInv, CloseInv, QueueInv, NEW s \in Session, CancelAll(s)
  PROVE  QueueInv'
<1>1. /\ host' = [host EXCEPT ![s] = "joining"] /\ control = Free /\ host[s] = "cancelling"
      /\ UNCHANGED <<missed, control, resident, closing, held>> /\ Rescan
  BY DEF CancelAll, Cancelling
<1>2. /\ EndsSome(row, row')
      /\ \A e \in Below(s) \cap Unfinished : row'[e].state = "done"
  <2>1. Cancelling(s, "host_shutdown") /\ UNCHANGED <<told, sent, silenced>> /\ "host_shutdown" \in Ends
    BY DEF CancelAll, Ends
  <2> QED
    BY <2>1, CancellingStore
<1>3. SameTree /\ Queued' \subseteq Queued /\ Queued' \subseteq Unfinished
  BY <1>2, EndsQueued
<1>4. Known' = Known /\ Root \in Session
  BY <1>3, TreeKept DEF Session
<1>5. host \in [Session -> HostStates]
  BY DEF IInv, TypeOK, HostStates
<1>6. host'[s] = "joining" /\ \A x \in Session \ {s} : host'[x] = host[x]
  BY <1>1, <1>5
<1>7. StopsInv'
  <2>1. \A x \in Session : Stopping(x)' => Stopping(x)
    BY <1>1, <1>6 DEF Stopping
  <2>2. \A x \in Known' \cup {Root} : x \in Known \cup {Root} \/ ~Stopping(x)'
    BY <1>4
  <2>3. \A x \in Session : Starting(x, "failing") => Starting(x, "failing")'
    BY <1>1 DEF Starting
  <2> QED
    BY <1>1, <2>1, <2>2, <2>3, StopsKept DEF QueueInv
<1>8. HomeInv'
  BY <1>1, <1>4, <1>6 DEF QueueInv, HomeInv
<1>9. BornInv'
  BY <1>1, <1>3, BornKept DEF QueueInv
<1>10. RestInv'
  <2>1. ~SpawnOf(s) /\ \A c \in Queued' : ~SpawnOf(c)
    BY <1>1 DEF SpawnOf, Free
  <2>2. ChildrenOf(s) \cap Queued' = {}
    <3> SUFFICES ASSUME NEW c \in ChildrenOf(s) \cap Queued'
                 PROVE  FALSE
      OBVIOUS
    <3>1. c \in Known /\ row[c].parent = s
      BY DEF ChildrenOf
    <3>2. c \in Below(s) \cap Unfinished
      BY <1>3, <3>1, BelowClosed
    <3> QED
      BY <1>2, <3>2 DEF Queued
  <2>3. \A p \in Execution :
          p \notin resident' \/ host'[p] \in {"joining", "shut"} =>
            \/ p \notin resident \/ host[p] \in {"joining", "shut"}
            \/ ChildrenOf(p) \cap Queued' = {}
    BY <1>1, <1>6, <2>2 DEF Session
  <2> QED
    BY <1>3, <2>1, <2>3, RestKept DEF QueueInv
<1>11. QueuedIsOwed'
  <2>1. CASE s = Root
    <3>1. RootInv'
      BY CancelAllClose DEF CloseInv
    <3>2. Unfinished' = {}
      BY <1>6, <2>1, <3>1 DEF RootInv
    <3>3. Queued' = {}
      BY <3>2 DEF Queued, Unfinished
    <3> QED
      BY <3>3 DEF QueuedIsOwed
  <2>2. CASE s # Root
    BY <1>1, <1>3, <1>4, <1>6, <2>2, RescanOwes
  <2> QED
    BY <2>1, <2>2
<1> QED
  BY <1>7, <1>8, <1>10, <1>11, <1>9 DEF QueueInv

\* What waits and has no job is eligible, unless somebody will see to it.
LEMMA EligibleOrOwed ==
  ASSUME IInv, CloseInv, QueueInv, NEW e \in Queued, job[e] = "none",
         held \cap {"copy", "drain"} = {}, Root \in resident
  PROVE  \/ e \in Eligible
         \/ SpawnOf(e) \/ held \cap {"reload", "cancel"} # {}
         \/ {e, row[e].parent, Root} \cap closing # {}
         \/ \E s \in {e, row[e].parent, Root} : host[s] \in {"shutting", "cancelling"}
<1> SUFFICES ASSUME ~SpawnOf(e), held \cap {"reload", "cancel"} = {},
                    {e, row[e].parent, Root} \cap closing = {},
                    \A s \in {e, row[e].parent, Root} : host[s] \notin {"shutting", "cancelling"}
             PROVE  e \in Eligible
  OBVIOUS
<1>1. /\ e \in Execution /\ e \in Known /\ e # Root /\ row[e].parent \in Session
      /\ e \in resident /\ host[e] \notin {"joining", "shut"}
      /\ host[Root] \notin {"joining", "shut"} /\ (Root \in resident \/ "reload" \in held \/ missed)
      /\ row[e].parent # Root /\ ~SpawnOf(e) =>
           row[e].parent \in resident /\ host[row[e].parent] \notin {"joining", "shut"}
  BY QueuedStays
<1>2. held = {}
  <2>1. held \subseteq {"cancel", "reload", "copy", "drain"}
    BY ExecutionsAssumption DEF IInv, TypeOK, HoldKinds
  <2> QED
    BY <2>1
<1>3. \A s \in Session : host[s] \in HostStates
  BY DEF IInv, TypeOK, HostStates
<1>4. e \in Session /\ Root \in Session
  BY <1>1 DEF Session
<1>5. host[e] = "active" /\ host[Root] = "active" /\ Root \in resident
  BY <1>1, <1>2, <1>3, <1>4 DEF HostStates
<1>6. row[e].parent \in resident /\ host[row[e].parent] = "active"
  <2>1. CASE row[e].parent = Root
    BY <1>5, <2>1
  <2>2. CASE row[e].parent # Root
    BY <1>1, <1>3, <2>2 DEF HostStates
  <2> QED
    BY <2>1, <2>2
<1>7. Dispatchable(e)
  BY <1>1, <1>5 DEF Dispatchable
<1>8. MayWork(row[e].parent)
  BY <1>2, <1>5, <1>6 DEF MayWork, Dispatchable
<1> QED
  BY <1>7, <1>8 DEF Eligible

\* A scan passes over a row only while there is no room, or with a reason.
LEMMA ScanOwes ==
  ASSUME IInv, CloseInv, QueueInv, Scan
  PROVE  QueueInv'
<1>1. PICK S \in SUBSET Eligible :
        /\ Starts(S)
        /\ \A e \in Execution : /\ row'[e].parent = row[e].parent
                                /\ e \in S => row'[e].state = "running"
                                /\ e \notin S => row'[e] = row[e]
        /\ job' = [e \in Execution |-> IF e \in S THEN "scheduled" ELSE job[e]]
  BY ScanStore
<1>2. S \subseteq Queued /\ S \subseteq Execution /\ S \cap Jobs = {}
  BY <1>1, ScanSlots DEF Eligible, Queued
<1>3. SameTree /\ Queued' = Queued \ S
  BY <1>1, <1>2 DEF SameTree, Queued
<1>4. Known' = Known
  BY <1>3, TreeKept
<1>5. /\ control' = control /\ resident' = resident /\ host' = host /\ closing' = closing /\ held' = held
      /\ missed' = (held \cap {"copy", "drain"} # {} \/ Root \notin resident)
  BY DEF Scan, tree
<1>6. StopsInv'
  BY <1>4, <1>5 DEF QueueInv, StopsInv, Stopping, Starting
<1>7. HomeInv'
  BY <1>5 DEF QueueInv, HomeInv
<1>8. BornInv'
  BY <1>3, <1>5, BornKept DEF QueueInv
<1>9. RestInv'
  <2>1. \A c \in Queued' : SpawnOf(c) => SpawnOf(c)'
    BY <1>5 DEF SpawnOf
  <2> QED
    BY <1>3, <1>5, <2>1, RestKept DEF QueueInv
<1>10. Jobs' = Jobs \cup S
  BY <1>1, <1>2 DEF Jobs
<1>11. S # Eligible => Room' <= 0
  <2> SUFFICES ASSUME S # Eligible
               PROVE  Room' <= 0
    OBVIOUS
  <2>1. Cardinality(S) = Concurrency - Cardinality(Jobs)
    BY <1>1 DEF Starts, Room
  <2>2. /\ IsFiniteSet(Jobs) /\ IsFiniteSet(S)
        /\ Cardinality(Jobs) \in Nat /\ Cardinality(S) \in Nat
    <3>1. Jobs \in SUBSET Execution /\ S \in SUBSET Execution
      BY <1>2 DEF Jobs
    <3> QED
      BY <3>1, JobsFinite
  <2>3. Jobs \cap S = {}
    BY <1>2
  <2>4. Cardinality(Jobs \cup S) = Cardinality(Jobs) + Cardinality(S) - Cardinality(Jobs \cap S)
    BY <2>2, FS_Union, Zenon
  <2>5. Cardinality(Jobs \cap S) = 0
    BY <2>3, FS_EmptySet, Zenon
  <2>6. Cardinality(Jobs') = Cardinality(Jobs) + Cardinality(S)
    BY <1>10, <2>2, <2>4, <2>5
  <2>7. Concurrency \in Nat
    BY ExecutionsAssumption
  <2> QED
    BY <2>1, <2>2, <2>6, <2>7 DEF Room
<1>12. QueuedIsOwed'
  <2> SUFFICES ASSUME NEW e \in Queued'
               PROVE  Owed(e)'
    BY DEF QueuedIsOwed
  <2>1. e \in Queued /\ e \notin S /\ e \in Execution /\ row'[e].parent = row[e].parent
        /\ job'[e] = job[e]
    BY <1>1, <1>3 DEF Queued
  <2>2. CASE \/ S # Eligible \/ held \cap {"copy", "drain"} # {} \/ Root \notin resident
             \/ job[e] # "none"
    BY <1>5, <1>11, <2>1, <2>2 DEF Owed
  <2>3. CASE /\ S = Eligible /\ held \cap {"copy", "drain"} = {} /\ Root \in resident
             /\ job[e] = "none"
    <3>1. \/ SpawnOf(e) \/ held \cap {"reload", "cancel"} # {}
          \/ {e, row[e].parent, Root} \cap closing # {}
          \/ \E s \in {e, row[e].parent, Root} : host[s] \in {"shutting", "cancelling"}
      BY <2>1, <2>3, EligibleOrOwed
    <3> QED
      BY <1>5, <2>1, <3>1 DEF Owed, SpawnOf
  <2> QED
    BY <2>2, <2>3
<1> QED
  BY <1>6, <1>7, <1>9, <1>12, <1>8 DEF QueueInv

\* After a death nothing waits.
LEMMA CrashOwes ==
  ASSUME IInv, Crash
  PROVE  QueueInv'
<1>1. /\ control' = Free /\ resident' = {} /\ host' = [s \in Session |-> "active"]
      /\ row' = Ended(row, Unfinished, "host_shutdown")
  BY DEF Crash, RecoveredEnd
<1>2. Queued' = {}
  <2>1. Rows(row)
    BY RowsNow DEF IInv
  <2>2. EndsOf(row, row', Unfinished)
    <3>1. \A e \in Unfinished : e \in Execution /\ row[e].state # "absent"
      BY DEF Unfinished
    <3> QED
      BY <1>1, <2>1, <3>1, EndedRows DEF Ends
  <2>3. ASSUME NEW e \in Execution
        PROVE  row'[e].state # "queued"
    BY <2>2 DEF EndsOf, Unfinished
  <2> QED
    BY <2>3 DEF Queued
<1>3. StopsInv'
  <2>1. \A s \in Session : ~Stopping(s)'
    BY <1>1 DEF Stopping
  <2>2. (Known \cup {Root})' \subseteq Session
    BY DEF Known, Session
  <2> QED
    BY <2>1, <2>2 DEF StopsInv
<1>4. BornInv'
  BY <1>1 DEF BornInv, Starting, Free
<1> QED
  BY <1>1, <1>2, <1>3, <1>4 DEF QueueInv, HomeInv, RestInv, QueuedIsOwed

\* Steps that leave rows, jobs and the queue alone take nothing from who owes.
LEMMA StillOwes ==
  ASSUME QueuedIsOwed, row' = row, job' = job, scan' = scan, missed' = missed,
         held \cap {"reload", "cancel"} \subseteq held',
         \A e \in Queued : SpawnOf(e) => SpawnOf(e)',
         \A e \in Queued : \A s \in {e, row[e].parent, Root} :
           /\ s \in closing => s \in closing'
           /\ host[s] \in {"shutting", "cancelling"} => host'[s] \in {"shutting", "cancelling"}
  PROVE  QueuedIsOwed'
<1>1. Jobs' = Jobs /\ Queued' = Queued
  BY DEF Jobs, Queued
<1>2. \A e \in Queued : Owes(e)
  BY DEF Owes
<1> QED
  BY <1>1, <1>2, OwedKept

\* A spawn or a continuation begins under a session that works.
LEMMA BeginsQueue ==
  ASSUME IInv, CloseInv, QueueInv, NEW e \in Execution,
         SteerBegins(e) \/ \E p \in Session : SpawnBegins(p, e)
  PROVE  QueueInv'
<1>1. /\ row' = row /\ job' = job /\ scan' = scan /\ missed' = missed
      /\ UNCHANGED <<resident, host, closing, held>> /\ control = Free
      /\ control'.op = "spawn" => control'.step = "opening"
  BY DEF SteerBegins, SpawnBegins, store, queue, tree
<1>2. SameTree /\ Queued' = Queued /\ Known' = Known
  BY <1>1 DEF SameTree, Queued, Known
<1>3. control.op # "spawn"
  BY <1>1 DEF Free
<1>4. \A x : ~SpawnOf(x) /\ ~Starting(x, "failing") /\ ~Starting(x, "failing")'
                /\ ~Starting(x, "activating")'
  BY <1>1, <1>3 DEF SpawnOf, Starting
<1>5. StopsInv'
  BY <1>1, <1>2, <1>4 DEF QueueInv, StopsInv, Stopping
<1>6. HomeInv'
  <2>1. PICK p : p \in resident /\ host[Root] = "active"
    BY DEF SteerBegins, SpawnBegins, MayWork, Dispatchable
  <2>2. Root \in resident \/ "reload" \in held \/ missed
    BY <2>1 DEF QueueInv, HomeInv
  <2> QED
    BY <1>1, <2>2 DEF HomeInv
<1>7. BornInv'
  BY <1>2, <1>4, BornKept DEF QueueInv
<1>8. RestInv'
  BY <1>1, <1>2, <1>4, RestKept DEF QueueInv
<1>9. QueuedIsOwed'
  BY <1>1, <1>4, StillOwes DEF QueueInv
<1> QED
  BY <1>5, <1>6, <1>7, <1>8, <1>9 DEF QueueInv

\* What was woken is shut down as before.
LEMMA WokenStops ==
  ASSUME host' = Woken(host)
  PROVE  \A s \in Session : /\ Stopping(s)' => Stopping(s)
                            /\ host[s] = "joining" => host'[s] = "joining"
  BY DEF Woken, Stopping

\* A spawn or a continuation is over: its child does not wait for it any more.
LEMMA OverQueue ==
  ASSUME IInv, CloseInv, QueueInv, control # Free, control' = Free, host' = Woken(host), SameTree,
         NEW gone, resident' = resident \ gone, held' = held, missed' = missed, Queued' \subseteq Queued,
         \A x \in gone : x # Root /\ ChildrenOf(x) = {} /\ (x \notin Known \/ ~Stopping(x)'),
         \A x \in Session \ gone : ~Starting(x, "failing"),
         \A c \in Queued' : SpawnOf(c) /\ row[c].parent \in Execution =>
           row[c].parent \in resident /\ host[row[c].parent] = "active"
  PROVE  StopsInv' /\ HomeInv' /\ BornInv' /\ RestInv'
<1>1. Known' = Known /\ Known \cup {Root} \subseteq Session /\ Execution \subseteq Session
  BY TreeKept DEF Known, Session
<1>2. \A s \in Session : /\ Stopping(s)' => Stopping(s)
                         /\ host[s] = "active" => host'[s] = "active"
                         /\ host'[s] \in {"joining", "shut"} => host'[s] = host[s]
  BY WokenStops, WokenHosts
<1>3. StopsInv'
  BY <1>1, <1>2 DEF QueueInv, StopsInv
<1>4. HomeInv'
  <2>1. Root \notin gone
    BY <1>1
  <2> QED
    BY <2>1 DEF QueueInv, HomeInv
<1>5. BornInv'
  BY DEF BornInv, Starting, Free
<1>6. RestInv'
  <2> SUFFICES ASSUME NEW p \in Execution, p \notin resident' \/ host'[p] \in {"joining", "shut"},
                      NEW c \in ChildrenOf(p)' \cap Queued'
               PROVE  FALSE
    BY DEF RestInv
  <2>1. ChildrenOf(p)' = ChildrenOf(p)
    BY TreeKept
  <2>2. c \in ChildrenOf(p) /\ c \in Queued /\ row[c].parent = p /\ p \in Session
    BY <1>1, <2>1 DEF ChildrenOf
  <2>3. CASE SpawnOf(c)
    <3>1. p \in resident /\ host[p] = "active"
      BY <2>2, <2>3
    <3> QED
      BY <1>2, <2>2, <3>1
  <2>4. CASE ~SpawnOf(c)
    <3>1. p \in resident /\ host[p] \notin {"joining", "shut"}
      BY <2>2, <2>4 DEF QueueInv, RestInv
    <3> QED
      BY <1>2, <2>2, <3>1
  <2> QED
    BY <2>3, <2>4
<1> QED
  BY <1>3, <1>4, <1>5, <1>6

LEMMA SteerFailsQueue ==
  ASSUME IInv, CloseInv, QueueInv, NEW e \in Execution, SteerFails(e)
  PROVE  QueueInv'
<1>1. /\ row' = row /\ job' = job /\ scan' = scan /\ missed' = missed
      /\ control' = Free /\ host' = Woken(host)
      /\ UNCHANGED <<resident, closing, held>> /\ control.op = "steer"
  BY DEF SteerFails, store, queue, Continuing
<1>2. control # Free /\ \A x : ~SpawnOf(x) /\ ~Starting(x, "failing")
  BY <1>1 DEF SpawnOf, Starting, Free
<1>3. SameTree /\ Queued' = Queued
  BY <1>1 DEF SameTree, Queued
<1>4. PICK gone : gone = {}
  OBVIOUS
<1>5. StopsInv' /\ HomeInv' /\ BornInv' /\ RestInv'
  <2>1. resident' = resident \ gone /\ Queued' \subseteq Queued
    BY <1>1, <1>3, <1>4
  <2>2. \A x \in gone : x # Root /\ ChildrenOf(x) = {} /\ (x \notin Known \/ ~Stopping(x)')
    BY <1>4
  <2>3. \A x \in Session \ gone : ~Starting(x, "failing")
    BY <1>2
  <2>4. \A c \in Queued' : SpawnOf(c) /\ row[c].parent \in Execution =>
          row[c].parent \in resident /\ host[row[c].parent] = "active"
    BY <1>2
  <2> QED
    BY <1>1, <1>2, <1>3, <2>1, <2>2, <2>3, <2>4, OverQueue
<1>6. \A s \in Session : host[s] \in {"shutting", "cancelling"} => host'[s] \in {"shutting", "cancelling"}
  BY <1>1 DEF Woken
<1>7. QueuedIsOwed'
  <2>1. \A x \in Queued : {x, row[x].parent, Root} \subseteq Session
    BY DEF Queued, Session, IInv, TypeOK
  <2> QED
    BY <1>1, <1>2, <1>6, <2>1, StillOwes DEF QueueInv
<1> QED
  BY <1>5, <1>7 DEF QueueInv

\* A child that is scheduled is one of a session that works.
LEMMA SpawnEndsQueue ==
  ASSUME IInv, CloseInv, QueueInv, NEW e \in Execution, SpawnEnds(e)
  PROVE  QueueInv'
<1>1. PICK p : p = control.parent
  OBVIOUS
<1>2. /\ Starting(e, "activating") /\ control' = Free /\ host' = Woken(host)
      /\ UNCHANGED <<job, missed, resident, closing, held>>
  BY DEF SpawnEnds
<1>3. /\ control # Free /\ control.op = "spawn" /\ control.child = e /\ control.step = "activating"
      /\ p \in Session /\ row[e].parent = p
  BY <1>1, <1>2, StartingTyped DEF QueueInv, BornInv
<1>4. /\ \A x : ~Starting(x, "failing")
      /\ \A x : SpawnOf(x) => x = e
  BY <1>3 DEF SpawnOf, Starting
<1>5. \/ row' = Ended(row, {e}, "host_shutdown") /\ scan' = scan
      \/ /\ Rescan /\ row' = row
         /\ host[Root] = "active" /\ host[p] = "active" /\ (p # Root => p \in Unfinished)
  <2>1. PICK aborts \in {FALSE, Interrupts} :
          IF aborts \/ {host[Root], host[p]} # {"active"} \/ (p # Root /\ p \notin Unfinished)
          THEN row' = Ended(row, {e}, "host_shutdown") /\ UNCHANGED scan
          ELSE Rescan /\ UNCHANGED row
    BY <1>1, Zenon DEF SpawnEnds
  <2>2. CASE aborts \/ {host[Root], host[p]} # {"active"} \/ (p # Root /\ p \notin Unfinished)
    BY <2>1, <2>2, Zenon
  <2>3. CASE ~(aborts \/ {host[Root], host[p]} # {"active"} \/ (p # Root /\ p \notin Unfinished))
    <3>1. Rescan /\ row' = row
      BY <2>1, <2>3, Zenon
    <3>2. host[Root] = "active" /\ host[p] = "active" /\ (p # Root => p \in Unfinished)
      BY <2>3
    <3> QED
      BY <3>1, <3>2, Zenon
  <2> QED
    BY <2>2, <2>3, Zenon
<1>6. EndsSome(row, row')
  BY SpawnEndsStore
<1>7. SameTree /\ Queued' \subseteq Queued /\ Queued' \subseteq Unfinished
  BY <1>6, EndsQueued
<1>8. row' = Ended(row, {e}, "host_shutdown") => e \notin Queued'
  <2> SUFFICES ASSUME row' = Ended(row, {e}, "host_shutdown")
               PROVE  row'[e].state = "done"
    BY DEF Queued
  <2>1. Rows(row) /\ "host_shutdown" \in Ends
    BY RowsNow DEF IInv, Ends
  <2>2. \A d \in {e} : d \in Execution /\ row[d].state # "absent"
    BY <1>2 DEF IInv, ControlInv
  <2>3. EndsOf(row, row', {e})
    BY <2>1, <2>2, EndedRows
  <2> QED
    BY <2>3 DEF EndsOf
<1>9. StopsInv' /\ HomeInv' /\ BornInv' /\ RestInv'
  <2>1. ASSUME NEW c \in Queued', SpawnOf(c), row[c].parent \in Execution
        PROVE  row[c].parent \in resident /\ host[row[c].parent] = "active"
    <3>1. c = e
      BY <1>4, <2>1
    <3>2. host[p] = "active" /\ p \in Unfinished
      BY <1>3, <1>5, <1>8, <2>1, <3>1, ExecutionsAssumption
    <3>3. p \in resident
      BY <1>3, <2>1, <3>1, <3>2 DEF CloseInv, OwnInv, AtRest
    <3> QED
      BY <1>3, <3>1, <3>2, <3>3
  <2>2. PICK gone : gone = {}
    OBVIOUS
  <2>3. resident' = resident \ gone
    BY <1>2, <2>2
  <2>4. \A x \in gone : x # Root /\ ChildrenOf(x) = {} /\ (x \notin Known \/ ~Stopping(x)')
    BY <2>2
  <2>5. \A x \in Session \ gone : ~Starting(x, "failing")
    BY <1>4
  <2>6. \A c \in Queued' : SpawnOf(c) /\ row[c].parent \in Execution =>
          row[c].parent \in resident /\ host[row[c].parent] = "active"
    BY <2>1
  <2> QED
    BY <1>2, <1>3, <1>7, <2>3, <2>4, <2>5, <2>6, OverQueue
<1>10. QueuedIsOwed'
  <2>1. CASE row' = Ended(row, {e}, "host_shutdown") /\ scan' = scan
    <3>1. ASSUME NEW x \in Queued'
          PROVE  x \in Queued /\ Owes(x)
      <4>1. x \in Queued /\ x \in Execution /\ x # e
        BY <1>7, <1>8, <2>1 DEF Queued
      <4>2. {x, row[x].parent, Root} \subseteq Session
        BY <4>1 DEF Session, IInv, TypeOK
      <4>3. \A s \in Session :
              host[s] \in {"shutting", "cancelling"} => host'[s] \in {"shutting", "cancelling"}
        BY <1>2 DEF Woken
      <4>4. row'[x].parent = row[x].parent
        BY <1>7, <4>1 DEF SameTree
      <4>5. ~SpawnOf(x)
        BY <1>4, <4>1
      <4> QED
        BY <1>2, <2>1, <4>1, <4>2, <4>3, <4>4, <4>5 DEF Owes
    <3>2. Jobs' = Jobs
      BY <1>2 DEF Jobs
    <3> QED
      BY <3>1, <3>2, OwedKept DEF QueueInv
  <2>2. CASE Rescan /\ host[Root] = "active"
    <3>1. host'[Root] = host[Root]
      BY <1>2, <2>2, WokenHosts DEF Session
    <3> QED
      BY <1>7, <2>2, <3>1, RescanOwes
  <2> QED
    BY <1>5, <2>1, <2>2
<1> QED
  BY <1>9, <1>10 DEF QueueInv

\* A child that fails to open leaves nothing that waits.
LEMMA SpawnFailsQueue ==
  ASSUME IInv, CloseInv, QueueInv, NEW e \in Execution, SpawnFails(e)
  PROVE  QueueInv'
<1> DEFINE cleaned == Starting(e, "opening") \/ (Starting(e, "failing") /\ host[e] = "shut")
<1>1. /\ row' = row /\ job' = job /\ scan' = scan /\ missed' = missed /\ held' = held
      /\ cleaned \/ Starting(e, "activating")
      /\ cleaned => /\ control' = Free /\ host' = Woken(host)
                    /\ resident' = resident \ {e} /\ closing' = closing \ {e}
      /\ ~cleaned => /\ control' = [control EXCEPT !.step = "failing"]
                     /\ host' = [host EXCEPT ![e] = "shutting"]
                     /\ resident' = resident /\ closing' = closing \cup {e}
  BY DEF SpawnFails, store, queue
<1>2. \E step \in {"opening", "activating", "failing"} : Starting(e, step)
  BY <1>1
<1> HIDE DEF cleaned
<1>3. /\ control \in Calling /\ control.op = "spawn" /\ control.child = e /\ control # Free
      /\ ChildrenOf(e) = {}
  BY <1>2, StartingTyped DEF CloseInv, CallInv
<1>4. /\ e \in Session /\ e # Root /\ Execution \subseteq Session /\ Root \in Session
      /\ host \in [Session -> HostStates]
  BY ExecutionsAssumption DEF Session, IInv, TypeOK, HostStates
<1>5. SameTree /\ Queued' = Queued /\ Known' = Known
  BY <1>1 DEF SameTree, Queued, Known
<1>6. \A x : SpawnOf(x) \/ Starting(x, "failing") => x = e
  BY <1>3 DEF SpawnOf, Starting
<1>7. ASSUME NEW x \in Queued
      PROVE  x \in Session /\ row[x].parent \in Session /\ row[x].parent # e
  <2>1. x \in Execution /\ x \in Known
    BY <1>7 DEF Queued, Known
  <2>2. row[x].parent # e
    BY <1>3, <2>1 DEF ChildrenOf
  <2> QED
    BY <1>4, <2>1, <2>2 DEF IInv, TypeOK
<1>8. CASE cleaned
  <2>1. e \notin Queued /\ (e \notin Known \/ ~Stopping(e)')
    <3>1. CASE Starting(e, "opening")
      BY <3>1 DEF IInv, ControlInv, Queued, Known
    <3>2. CASE host[e] = "shut"
      <4>1. e \notin Queued
        BY <3>2 DEF CloseInv, OwnInv, AtRest, Queued, Unfinished
      <4>2. host'[e] = "shut"
        BY <1>1, <1>4, <1>8, <3>2 DEF Woken
      <4> QED
        BY <4>1, <4>2 DEF Stopping
    <3> QED
      BY <1>8, <3>1, <3>2 DEF cleaned
  <2>2. StopsInv' /\ HomeInv' /\ BornInv' /\ RestInv'
    <3>1. \A x \in {e} : x # Root /\ ChildrenOf(x) = {} /\ (x \notin Known \/ ~Stopping(x)')
      BY <1>3, <1>4, <2>1
    <3>2. \A c \in Queued' : SpawnOf(c) /\ row[c].parent \in Execution =>
            row[c].parent \in resident /\ host[row[c].parent] = "active"
      BY <1>5, <1>6, <2>1
    <3>3. \A x \in Session \ {e} : ~Starting(x, "failing")
      BY <1>6
    <3> QED
      BY <1>1, <1>3, <1>5, <1>8, <3>1, <3>2, <3>3, OverQueue
  <2>3. QueuedIsOwed'
    <3>1. \A s \in Session :
            host[s] \in {"shutting", "cancelling"} => host'[s] \in {"shutting", "cancelling"}
      BY <1>1, <1>8 DEF Woken
    <3>2. \A x \in Queued : SpawnOf(x) => SpawnOf(x)'
      BY <1>6, <2>1
    <3>3. \A x \in Queued : \A s \in {x, row[x].parent, Root} :
            /\ s \in closing => s \in closing'
            /\ host[s] \in {"shutting", "cancelling"} => host'[s] \in {"shutting", "cancelling"}
      BY <1>1, <1>4, <1>7, <1>8, <2>1, <3>1
    <3> QED
      BY <1>1, <3>2, <3>3, StillOwes DEF QueueInv
  <2> QED
    BY <2>2, <2>3 DEF QueueInv
<1>9. CASE ~cleaned
  <2>1. /\ control'.op = "spawn" /\ control'.child = e /\ control'.step = "failing"
    BY <1>1, <1>3, <1>9 DEF Calling
  <2>2. host'[e] = "shutting" /\ \A x \in Session \ {e} : host'[x] = host[x]
    BY <1>1, <1>4, <1>9
  <2>3. Starting(e, "activating")
    BY <1>1, <1>9
  <2>4. \A x : ~Starting(x, "failing") /\ (SpawnOf(x) => SpawnOf(x)') /\ ~Starting(x, "activating")'
    BY <1>3, <2>1, <2>3 DEF Starting, SpawnOf
  <2>5. StopsInv'
    <3> SUFFICES ASSUME NEW s \in Known \cup {Root}, Stopping(s)', s # e
                 PROVE  s \in resident'
      BY <1>5, <2>1 DEF StopsInv, Starting
    <3>1. s \in Session /\ Stopping(s)
      BY <1>4, <2>2 DEF Known, Stopping
    <3> QED
      BY <1>1, <1>9, <2>4, <3>1 DEF QueueInv, StopsInv
  <2>6. HomeInv'
    BY <1>1, <1>3, <1>9 DEF QueueInv, HomeInv
  <2>7. BornInv'
    BY <2>4 DEF BornInv
  <2>8. RestInv'
    <3>1. \A p \in Execution :
            p \notin resident' \/ host'[p] \in {"joining", "shut"} =>
              p \notin resident \/ host[p] \in {"joining", "shut"}
      BY <1>1, <1>4, <1>9, <2>2
    <3> QED
      BY <1>5, <2>4, <3>1, RestKept DEF QueueInv
  <2>9. QueuedIsOwed'
    <3>1. \A x \in Queued : \A s \in {x, row[x].parent, Root} :
            /\ s \in closing => s \in closing'
            /\ host[s] \in {"shutting", "cancelling"} => host'[s] \in {"shutting", "cancelling"}
      BY <1>1, <1>4, <1>7, <1>9, <2>2
    <3> QED
      BY <1>1, <2>4, <3>1, StillOwes DEF QueueInv
  <2> QED
    BY <2>5, <2>6, <2>7, <2>8, <2>9 DEF QueueInv
<1> QED
  BY <1>8, <1>9

\* A row that was stored waits for its spawn.
LEMMA SessionStartsQueue ==
  ASSUME IInv, CloseInv, QueueInv, NEW e \in Execution, SessionStarts(e)
  PROVE  QueueInv'
<1>1. Starting(e, "opening")
  BY DEF SessionStarts
<1>2. /\ control \in Calling /\ control.op = "spawn" /\ control.child = e /\ control.step = "opening"
      /\ control.parent \in Session /\ control # Free /\ ChildrenOf(e) = {}
  BY <1>1, StartingTyped DEF CloseInv, CallInv
<1>3. /\ job' = job /\ scan' = scan /\ missed' = missed /\ resident' = resident \cup {e}
      /\ host' = [host EXCEPT ![e] = "active"] /\ UNCHANGED <<closing, held>>
      /\ control' = [control EXCEPT !.step = "activating"]
  BY DEF SessionStarts, queue
<1>4. /\ row[e].state = "absent" /\ row'[e].state = "queued" /\ row'[e].parent = control.parent
      /\ \A d \in Execution \ {e} : row'[d] = row[d]
  BY SessionStartsStore
<1>5. /\ control'.op = "spawn" /\ control'.child = e /\ control'.parent = control.parent
      /\ control'.step = "activating"
  BY <1>2, <1>3 DEF Calling
<1>6. /\ e \in Session /\ e # Root /\ Execution \subseteq Session /\ Root \in Session
      /\ host \in [Session -> HostStates]
  BY ExecutionsAssumption DEF Session, IInv, TypeOK, HostStates
<1>7. host'[e] = "active" /\ \A x \in Session \ {e} : host'[x] = host[x]
  BY <1>3, <1>6
<1>8. Known' = Known \cup {e} /\ Queued' = Queued \cup {e} /\ e \notin Queued /\ e \notin Known
  BY <1>4 DEF Known, Queued
<1>9. \A x : SpawnOf(x) <=> x = e
  BY <1>2 DEF SpawnOf
<1>10. \A x : SpawnOf(x)' <=> x = e
  BY <1>5 DEF SpawnOf
<1>11. StopsInv'
  <2>1. \A s \in Known' \cup {Root} : s \in Known \cup {Root} \/ ~Stopping(s)'
    BY <1>7, <1>8 DEF Stopping
  <2>2. ASSUME NEW s \in Session, Stopping(s)'
        PROVE  Stopping(s) /\ (s \in resident => s \in resident')
    BY <1>3, <1>7, <2>2 DEF Stopping
  <2>3. \A s : ~Starting(s, "failing")
    BY <1>2 DEF Starting
  <2> QED
    BY <2>1, <2>2, <2>3, StopsKept DEF QueueInv
<1>12. HomeInv'
  BY <1>2, <1>3 DEF QueueInv, HomeInv
<1>13. BornInv'
  <2> SUFFICES ASSUME NEW x \in Execution, Starting(x, "activating")'
               PROVE  row'[x].parent = control'.parent
    BY DEF BornInv
  <2>1. x = e
    BY <1>5 DEF Starting
  <2> QED
    BY <1>4, <1>5, <2>1
<1>14. RestInv'
  <2> SUFFICES ASSUME NEW p \in Execution, p \notin resident' \/ host'[p] \in {"joining", "shut"},
                      NEW c \in ChildrenOf(p)' \cap Queued', c # e
               PROVE  FALSE
    BY <1>10 DEF RestInv
  <2>1. c \in ChildrenOf(p) /\ c \in Queued
    BY <1>4, <1>8 DEF ChildrenOf, Known
  <2>2. p \notin resident \/ host[p] \in {"joining", "shut"}
    BY <1>3, <1>6, <1>7
  <2> QED
    BY <1>9, <2>1, <2>2 DEF QueueInv, RestInv
<1>15. QueuedIsOwed'
  <2>1. ASSUME NEW x \in Queued', x # e
        PROVE  x \in Queued /\ Owes(x)
    <3>1. x \in Queued /\ x \in Execution /\ x \in Known
      BY <1>8, <2>1 DEF Queued, Known
    <3>2. row[x].parent # e /\ row[x].parent \in Session /\ x \in Session
      BY <1>2, <1>6, <3>1 DEF ChildrenOf, IInv, TypeOK
    <3>3. row'[x].parent = row[x].parent
      BY <1>4, <2>1, <3>1
    <3>4. \A s \in {x, row[x].parent, Root} : host'[s] = host[s]
      BY <1>6, <1>7, <2>1, <3>2
    <3>5. ~SpawnOf(x)
      BY <1>9, <2>1
    <3> QED
      BY <1>3, <3>1, <3>3, <3>4, <3>5 DEF Owes
  <2>2. Owed(e)'
    BY <1>10 DEF Owed
  <2>3. Jobs' = Jobs
    BY <1>3 DEF Jobs
  <2> QED
    BY <2>1, <2>2, <2>3, OwedKept DEF QueueInv
<1> QED
  BY <1>11, <1>12, <1>13, <1>14, <1>15 DEF QueueInv

\* A row that is continued is looked at.
LEMMA SteerEndsQueue ==
  ASSUME IInv, CloseInv, QueueInv, NEW e \in Execution, SteerEnds(e)
  PROVE  QueueInv'
<1>1. /\ control' = Free /\ UNCHANGED <<missed, closing, held>> /\ Rescan
      /\ resident' = resident \cup {e} /\ host' = [Woken(host) EXCEPT ![e] = "active"]
      /\ Continuing(e) /\ MayWork(control.parent)
  BY DEF SteerEnds, Continuable
<1>2. /\ row[e].state = "done" /\ row'[e].state = "queued" /\ row'[e].parent = row[e].parent
      /\ \A d \in Execution \ {e} : row'[d] = row[d]
  BY SteerEndsStore
<1>3. SameTree /\ Queued' = Queued \cup {e}
  BY <1>2 DEF SameTree, Queued
<1>4. Known' = Known /\ \A s : ChildrenOf(s)' = ChildrenOf(s)
  BY <1>3, TreeKept
<1>5. /\ host \in [Session -> HostStates] /\ e \in Session /\ Root \in Session
      /\ Execution \subseteq Session
  BY DEF IInv, TypeOK, HostStates, Session
<1>6. /\ host'[e] = "active"
      /\ \A x \in Session \ {e} : /\ Stopping(x)' => Stopping(x)
                                  /\ host[x] = "active" => host'[x] = "active"
                                  /\ host'[x] \in {"joining", "shut"} => host'[x] = host[x]
  BY <1>1, <1>5 DEF Woken, Stopping
<1>7. control.op = "steer" /\ control.child = e /\ control # Free
  BY <1>1 DEF Continuing, Free
<1>8. \A x : ~SpawnOf(x) /\ ~Starting(x, "failing")
  BY <1>7 DEF SpawnOf, Starting
<1>9. row[e].parent = control.parent
  BY <1>7 DEF CloseInv, CallInv
<1>10. /\ host[row[e].parent] = "active" /\ host[Root] = "active"
       /\ row[e].parent # Root => row[e].parent \in resident
  BY <1>1, <1>9 DEF MayWork, Dispatchable
<1>11. StopsInv'
  <2>1. \A s \in Session : Stopping(s)' => Stopping(s)
    BY <1>6 DEF Stopping
  <2>2. Known \cup {Root} \subseteq Session
    BY DEF Known, Session
  <2> QED
    BY <1>1, <1>4, <1>8, <2>1, <2>2 DEF QueueInv, StopsInv
<1>12. HomeInv'
  BY <1>1, <1>7 DEF QueueInv, HomeInv
<1>13. BornInv'
  BY <1>1 DEF BornInv, Starting, Free
<1>14. RestInv'
  <2> SUFFICES ASSUME NEW p \in Execution, p \notin resident' \/ host'[p] \in {"joining", "shut"},
                      NEW c \in ChildrenOf(p)' \cap Queued'
               PROVE  FALSE
    BY DEF RestInv
  <2>1. p # e /\ (p \notin resident \/ host[p] \in {"joining", "shut"})
    BY <1>1, <1>5, <1>6
  <2>2. c \in ChildrenOf(p) /\ row[c].parent = p
    BY <1>4 DEF ChildrenOf
  <2>3. CASE c = e
    BY <1>10, <2>1, <2>2, <2>3, ExecutionsAssumption
  <2>4. CASE c # e
    <3>1. c \in Queued
      BY <1>3, <2>4
    <3> QED
      BY <1>8, <2>1, <2>2, <3>1 DEF QueueInv, RestInv
  <2> QED
    BY <2>3, <2>4
<1>15. QueuedIsOwed'
  <2>1. scan'
    BY <1>1, <1>10 DEF Rescan
  <2> QED
    BY <2>1 DEF QueuedIsOwed, Owed
<1> QED
  BY <1>11, <1>12, <1>13, <1>14, <1>15 DEF QueueInv

\* Closes and shutdowns begin and go on, and every session keeps its runtime.
LEMMA HostsQueue ==
  ASSUME IInv, CloseInv, QueueInv, NEW s \in Session, BeginClose(s) \/ Evict(s) \/ Shutdown(s)
                                                     \/ HostShut(s) \/ CloseChildren(s)
  PROVE  QueueInv'
<1> DEFINE h == IF control = Free THEN "cancelling" ELSE "shutting"
<1>1. /\ row' = row /\ job' = job /\ scan' = scan /\ missed' = missed
      /\ UNCHANGED <<control, resident, held>> /\ closing \subseteq closing'
  BY DEF BeginClose, Evict, Shutdown, HostShut, CloseChildren, ShutsDown, store, queue
<1>2. host \in [Session -> HostStates]
  BY DEF IInv, TypeOK, HostStates
<1>3. \/ host' = host
      \/ /\ host' = [host EXCEPT ![s] = h] /\ s \in resident /\ host[s] = "active"
      \/ /\ host' = [host EXCEPT ![s] = "shut"] /\ host[s] = "joining"
  BY DEF BeginClose, Evict, Shutdown, HostShut, CloseChildren, ShutsDown, Dispatchable
<1>4. h \in {"shutting", "cancelling"}
  OBVIOUS
<1> HIDE DEF h
<1>5. \A x \in Session :
        \/ host'[x] = host[x]
        \/ host[x] = "active" /\ host'[x] \in {"shutting", "cancelling"} /\ x \in resident
        \/ host[x] = "joining" /\ host'[x] = "shut"
  BY <1>2, <1>3, <1>4
<1>6. /\ SameTree /\ Queued' = Queued /\ Known' = Known /\ Execution \subseteq Session
      /\ Known \cup {Root} \subseteq Session /\ Root \in Session
  BY <1>1 DEF SameTree, Queued, Known, Session
<1>7. StopsInv'
  <2>1. \A x \in Session : Stopping(x)' => Stopping(x) \/ x \in resident
    BY <1>5 DEF Stopping
  <2>2. \A x \in Session : Starting(x, "failing") => Starting(x, "failing")'
    BY <1>1 DEF Starting
  <2> QED
    BY <1>1, <1>6, <2>1, <2>2 DEF QueueInv, StopsInv
<1>8. HomeInv'
  <2>1. host[Root] = "shut" => host'[Root] = "shut"
    BY <1>5, <1>6
  <2> QED
    BY <1>1, <2>1 DEF QueueInv, HomeInv
<1>9. BornInv'
  BY <1>1, <1>6, BornKept DEF QueueInv
<1>10. RestInv'
  <2>1. \A p \in Execution : host'[p] \in {"joining", "shut"} => host[p] \in {"joining", "shut"}
    BY <1>5, <1>6
  <2>2. \A c \in Queued' : SpawnOf(c) => SpawnOf(c)'
    BY <1>1 DEF SpawnOf
  <2> QED
    BY <1>1, <1>6, <2>1, <2>2, RestKept DEF QueueInv
<1>11. QueuedIsOwed'
  <2>1. \A x \in Queued : {x, row[x].parent, Root} \subseteq Session
    BY DEF Queued, Session, IInv, TypeOK
  <2>2. \A x \in Queued : SpawnOf(x) => SpawnOf(x)'
    BY <1>1 DEF SpawnOf
  <2>3. \A x \in Session :
          host[x] \in {"shutting", "cancelling"} => host'[x] \in {"shutting", "cancelling"}
    BY <1>5
  <2> QED
    BY <1>1, <2>1, <2>2, <2>3, StillOwes DEF QueueInv
<1> QED
  BY <1>7, <1>8, <1>9, <1>10, <1>11 DEF QueueInv

\* A session a row waits for has a runtime that is not shut down.
LEMMA WaitedFor ==
  ASSUME IInv, CloseInv, QueueInv, NEW e \in Queued, NEW s \in {e, row[e].parent, Root},
         s \in resident => host[s] = "shut"
  PROVE  SpawnOf(e) \/ "reload" \in held \/ missed
<1>1. /\ e \in resident /\ host[e] \notin {"joining", "shut"}
      /\ host[Root] \notin {"joining", "shut"} /\ (Root \in resident \/ "reload" \in held \/ missed)
      /\ row[e].parent # Root /\ ~SpawnOf(e) =>
           row[e].parent \in resident /\ host[row[e].parent] \notin {"joining", "shut"}
  BY QueuedStays
<1>2. CASE s = e
  BY <1>1, <1>2
<1>3. CASE s = Root
  BY <1>1, <1>3
<1>4. CASE s = row[e].parent /\ s # Root
  BY <1>1, <1>4
<1> QED
  BY <1>2, <1>3, <1>4

\* A session loses its runtime.
LEMMA DisposeQueue ==
  ASSUME IInv, CloseInv, QueueInv, NEW s \in Session, Dispose(s)
  PROVE  QueueInv'
<1>1. /\ row' = row /\ job' = job /\ scan' = scan /\ missed' = missed
      /\ UNCHANGED <<control, host, held>> /\ ~Starting(s, "failing")
      /\ resident' = resident \ {s} /\ closing' = closing \ {s}
      /\ s \in resident => host[s] = "shut"
  BY DEF Dispose, Stopped, store, queue
<1>2. SameTree /\ Queued' = Queued /\ Known' = Known
  BY <1>1 DEF SameTree, Queued, Known
<1>3. StopsInv'
  <2> SUFFICES ASSUME NEW x \in Known \cup {Root}, Stopping(x)
               PROVE  x \in resident' \/ Starting(x, "failing")
    BY <1>1, <1>2 DEF StopsInv, Stopping, Starting
  <2>1. x \in resident \/ Starting(x, "failing")
    BY DEF QueueInv, StopsInv
  <2>2. x = s => FALSE
    BY <1>1, <2>1 DEF Stopping
  <2> QED
    BY <1>1, <2>1, <2>2
<1>4. HomeInv'
  <2>1. s = Root /\ Root \in resident => control = Free
    BY <1>1 DEF CloseInv, RootInv
  <2> QED
    BY <1>1, <2>1 DEF QueueInv, HomeInv
<1>5. BornInv'
  BY <1>1, <1>2, BornKept DEF QueueInv
<1>6. RestInv'
  <2>1. \A c \in Queued' : SpawnOf(c) => SpawnOf(c)'
    BY <1>1 DEF SpawnOf
  <2> QED
    BY <1>1, <1>2, <2>1, RestKept DEF QueueInv
<1>7. QueuedIsOwed'
  <2> SUFFICES ASSUME NEW e \in Queued
               PROVE  Owed(e)'
    BY <1>2 DEF QueuedIsOwed
  <2>1. Owed(e)
    BY DEF QueueInv, QueuedIsOwed
  <2>2. Room' = Room
    BY <1>1 DEF Room, Jobs
  <2>3. CASE SpawnOf(e) \/ "reload" \in held \/ missed
    BY <1>1, <2>3 DEF Owed, SpawnOf
  <2>4. CASE s \notin {e, row[e].parent, Root}
    BY <1>1, <2>1, <2>2, <2>4 DEF Owed, SpawnOf
  <2> QED
    BY <1>1, <2>3, <2>4, WaitedFor
<1> QED
  BY <1>3, <1>4, <1>5, <1>6, <1>7 DEF QueueInv

\* A session that is opened again was not the one a row waits for.
LEMMA RestoreQueue ==
  ASSUME IInv, CloseInv, QueueInv, NEW s \in Session, Restore(s)
  PROVE  QueueInv'
<1>1. /\ row' = row /\ job' = job /\ scan' = scan /\ missed' = missed
      /\ UNCHANGED <<control, closing, held>> /\ "reload" \notin held
      /\ resident' = resident \cup {s} /\ host' = [host EXCEPT ![s] = "active"]
      /\ s \notin resident /\ (s # Root => Root \in resident)
  BY DEF Restore, store, queue
<1>2. /\ host \in [Session -> HostStates] /\ Execution \subseteq Session /\ Root \in Session
      /\ Known \cup {Root} \subseteq Session
  BY DEF IInv, TypeOK, HostStates, Session, Known
<1>3. host'[s] = "active" /\ \A x \in Session \ {s} : host'[x] = host[x]
  BY <1>1, <1>2
<1>4. SameTree /\ Queued' = Queued /\ Known' = Known
  BY <1>1 DEF SameTree, Queued, Known
<1>5. StopsInv'
  <2>1. \A x \in Session : Stopping(x)' => Stopping(x)
    BY <1>3 DEF Stopping
  <2>2. \A x : Starting(x, "failing") => Starting(x, "failing")'
    BY <1>1 DEF Starting
  <2> QED
    BY <1>1, <1>2, <1>4, <2>1, <2>2 DEF QueueInv, StopsInv
<1>6. HomeInv'
  BY <1>1 DEF HomeInv
<1>7. BornInv'
  BY <1>1, <1>4, BornKept DEF QueueInv
<1>8. RestInv'
  <2>1. \A c \in Queued' : SpawnOf(c) => SpawnOf(c)'
    BY <1>1 DEF SpawnOf
  <2>2. \A p \in Execution :
          p \notin resident' \/ host'[p] \in {"joining", "shut"} =>
            p \notin resident \/ host[p] \in {"joining", "shut"}
    BY <1>1, <1>2, <1>3
  <2> QED
    BY <1>4, <2>1, <2>2, RestKept DEF QueueInv
<1>9. QueuedIsOwed'
  <2> SUFFICES ASSUME NEW e \in Queued
               PROVE  Owed(e)'
    BY <1>4 DEF QueuedIsOwed
  <2>1. Owed(e)
    BY DEF QueueInv, QueuedIsOwed
  <2>2. Room' = Room
    BY <1>1 DEF Room, Jobs
  <2>3. CASE SpawnOf(e) \/ missed
    BY <1>1, <2>3 DEF Owed, SpawnOf
  <2>4. CASE s \notin {e, row[e].parent, Root}
    <3>1. {e, row[e].parent, Root} \subseteq Session
      BY DEF Queued, Session, IInv, TypeOK
    <3>2. \A x \in {e, row[e].parent, Root} : host'[x] = host[x]
      BY <1>3, <2>4, <3>1
    <3>3. CASE \/ scan \/ missed \/ Room <= 0 \/ job[e] # "none" \/ SpawnOf(e)
               \/ held \cap {"reload", "cancel"} # {}
               \/ {e, row[e].parent, Root} \cap closing # {}
      BY <1>1, <2>2, <3>3 DEF Owed, SpawnOf
    <3>4. CASE \E x \in {e, row[e].parent, Root} : host[x] \in {"shutting", "cancelling"}
      BY <1>1, <3>2, <3>4 DEF Owed
    <3> QED
      BY <2>1, <3>3, <3>4, Zenon DEF Owed
  <2> QED
    BY <1>1, <2>3, <2>4, WaitedFor
<1> QED
  BY <1>5, <1>6, <1>7, <1>8, <1>9 DEF QueueInv

\* An operation of the root or of the daemon begins: what it stops was at rest.
LEMMA HoldBeginsQueue ==
  ASSUME IInv, CloseInv, QueueInv, NEW k \in Holds, HoldBegins(k)
  PROVE  QueueInv'
<1> DEFINE idle == {x \in Execution \cap resident : ~Busy(x) /\ host[x] = "active" /\ ~Continuing(x)}
           gone == IF k = "reload" THEN idle \cup {Root} ELSE {}
<1>1. /\ row' = row /\ job' = job /\ scan' = scan /\ missed' = missed
      /\ UNCHANGED <<control, closing>> /\ held' = held \cup {k}
      /\ resident' = resident \ gone
      /\ host' = [x \in Session |-> IF x \in gone \ {Root} THEN "shut" ELSE host[x]]
      /\ MayHold(k)
  BY Zenon DEF HoldBegins, store, queue
<1>2. k # "reload" => gone = {}
  OBVIOUS
<1>3. k = "reload" => host[Root] = "active"
  BY <1>1 DEF MayHold, Dispatchable
<1>4. \A x \in gone \ {Root} : x \in Execution /\ ~Busy(x)
  OBVIOUS
<1> HIDE DEF idle, gone
<1>5. /\ Execution \subseteq Session /\ Root \in Session /\ Known \cup {Root} \subseteq Session
  BY DEF Session, Known
<1>6. \A x \in Session : host'[x] = host[x] \/ (x \in gone \ {Root} /\ host'[x] = "shut")
  BY <1>1
<1>7. SameTree /\ Queued' = Queued /\ Known' = Known
  BY <1>1 DEF SameTree, Queued, Known
<1>8. ASSUME NEW p \in gone \ {Root}
      PROVE  ChildrenOf(p) \cap Queued = {}
  <2> SUFFICES ASSUME NEW c \in ChildrenOf(p) \cap Queued
               PROVE  FALSE
    OBVIOUS
  <2>1. p \in Session /\ c \in Known /\ row[c].parent = p
    BY <1>4, <1>5 DEF ChildrenOf
  <2>2. c \in Below(p)
    BY <2>1, BelowClosed
  <2>3. c \in Unfinished
    BY DEF Queued, Unfinished
  <2> QED
    BY <1>4, <2>2, <2>3 DEF Busy
<1>9. StopsInv'
  <2> SUFFICES ASSUME NEW x \in Known \cup {Root}, Stopping(x)'
               PROVE  x \in resident' \/ Starting(x, "failing")'
    BY <1>7 DEF StopsInv
  <2>1. Stopping(x) /\ x \notin gone \ {Root}
    BY <1>1, <1>5, <1>6 DEF Stopping
  <2>2. x \notin gone
    BY <1>2, <1>3, <2>1 DEF Stopping
  <2>3. Starting(x, "failing") => Starting(x, "failing")'
    BY <1>1 DEF Starting
  <2> QED
    BY <1>1, <2>1, <2>2, <2>3 DEF QueueInv, StopsInv
<1>10. HomeInv'
  <2>1. CASE k = "reload"
    BY <1>1, <2>1 DEF HomeInv
  <2>2. CASE k # "reload"
    <3>1. resident' = resident /\ host'[Root] = host[Root]
      BY <1>1, <1>2, <1>5, <1>6, <2>2
    <3> QED
      BY <1>1, <3>1 DEF QueueInv, HomeInv
  <2> QED
    BY <2>1, <2>2
<1>11. BornInv'
  BY <1>1, <1>7, BornKept DEF QueueInv
<1>12. RestInv'
  <2>1. \A c \in Queued' : SpawnOf(c) => SpawnOf(c)'
    BY <1>1 DEF SpawnOf
  <2>2. ASSUME NEW p \in Execution, p \notin resident' \/ host'[p] \in {"joining", "shut"}
        PROVE  \/ p \notin resident \/ host[p] \in {"joining", "shut"}
               \/ ChildrenOf(p) \cap Queued' = {}
    <3>1. CASE p \in gone \ {Root}
      BY <1>7, <1>8, <3>1
    <3>2. CASE p \notin gone \ {Root}
      <4>1. p # Root
        BY ExecutionsAssumption
      <4>2. host'[p] = host[p] /\ (p \in resident => p \in resident')
        BY <1>1, <1>5, <1>6, <3>2, <4>1
      <4> QED
        BY <2>2, <4>2
    <3> QED
      BY <3>1, <3>2
  <2> QED
    BY <1>7, <2>1, <2>2, RestKept DEF QueueInv
<1>13. QueuedIsOwed'
  <2>1. CASE k = "reload"
    <3>1. held' \cap {"reload", "cancel"} # {}
      BY <1>1, <2>1
    <3> QED
      BY <3>1 DEF QueuedIsOwed, Owed
  <2>2. CASE k # "reload"
    <3>1. \A x \in Session : host'[x] = host[x]
      BY <1>2, <1>6, <2>2
    <3>2. \A x \in Queued : {x, row[x].parent, Root} \subseteq Session
      BY DEF Queued, Session, IInv, TypeOK
    <3>3. \A x \in Queued : SpawnOf(x) => SpawnOf(x)'
      BY <1>1 DEF SpawnOf
    <3> QED
      BY <1>1, <3>1, <3>2, <3>3, StillOwes DEF QueueInv
  <2> QED
    BY <2>1, <2>2
<1> QED
  BY <1>9, <1>10, <1>11, <1>12, <1>13 DEF QueueInv

\* It ends: a reload and a cancel look at the queue, unless the root is closed.
LEMMA HoldEndsQueue ==
  ASSUME IInv, CloseInv, QueueInv, NEW k \in Holds, HoldEnds(k)
  PROVE  QueueInv'
<1>1. /\ row' = row /\ job' = job /\ missed' = missed
      /\ UNCHANGED <<control, closing, host>> /\ held' = held \ {k}
      /\ resident \subseteq resident' /\ resident' \subseteq resident \cup {Root}
      /\ k = "reload" => Root \in resident'
      /\ k # "reload" => resident' = resident
      /\ IF Resumes(k) THEN Rescan ELSE scan' = scan
  BY DEF HoldEnds, store
<1>2. SameTree /\ Queued' = Queued /\ Known' = Known
  BY <1>1 DEF SameTree, Queued, Known
<1>3. StopsInv'
  BY <1>1, <1>2 DEF QueueInv, StopsInv, Stopping, Starting
<1>4. HomeInv'
  BY <1>1 DEF QueueInv, HomeInv
<1>5. BornInv'
  BY <1>1, <1>2, BornKept DEF QueueInv
<1>6. RestInv'
  <2>1. \A c \in Queued' : SpawnOf(c) => SpawnOf(c)'
    BY <1>1 DEF SpawnOf
  <2> QED
    BY <1>1, <1>2, <2>1, RestKept DEF QueueInv
<1>7. QueuedIsOwed'
  <2>1. CASE Resumes(k)
    <3>1. Queued' \subseteq Unfinished
      BY <1>2 DEF Queued, Unfinished
    <3> QED
      BY <1>1, <2>1, <3>1, RescanOwes
  <2>2. CASE ~Resumes(k) /\ k = "cancel"
    <3>1. Root \in closing'
      BY <1>1, <2>2 DEF Resumes
    <3> QED
      BY <3>1 DEF QueuedIsOwed, Owed
  <2>3. CASE ~Resumes(k) /\ k # "cancel"
    <3>1. k # "reload" /\ scan' = scan
      BY <1>1, <2>3 DEF Resumes
    <3>2. \A x \in Queued : SpawnOf(x) => SpawnOf(x)'
      BY <1>1 DEF SpawnOf
    <3> QED
      BY <1>1, <2>3, <3>1, <3>2, StillOwes DEF QueueInv
  <2> QED
    BY <2>1, <2>2, <2>3
<1> QED
  BY <1>3, <1>4, <1>5, <1>6, <1>7 DEF QueueInv

\* A reload fails: nobody will look at the queue for it.
LEMMA ReloadFailsQueue ==
  ASSUME IInv, CloseInv, QueueInv, ReloadFails
  PROVE  QueueInv'
<1>1. /\ row' = row /\ missed' = TRUE /\ UNCHANGED <<control, host, resident>>
  BY DEF ReloadFails, store
<1>2. SameTree /\ Queued' = Queued /\ Known' = Known
  BY <1>1 DEF SameTree, Queued, Known
<1>3. StopsInv'
  BY <1>1, <1>2 DEF QueueInv, StopsInv, Stopping, Starting
<1>4. BornInv'
  BY <1>1, <1>2, BornKept DEF QueueInv
<1>5. RestInv'
  <2>1. \A c \in Queued' : SpawnOf(c) => SpawnOf(c)'
    BY <1>1 DEF SpawnOf
  <2> QED
    BY <1>1, <1>2, <2>1, RestKept DEF QueueInv
<1>6. HomeInv' /\ QueuedIsOwed'
  BY <1>1 DEF HomeInv, QueuedIsOwed, Owed
<1> QED
  BY <1>3, <1>4, <1>5, <1>6 DEF QueueInv

\* Every step keeps the invariant of the queue.
LEMMA QueueInductive ==
  ASSUME IInv, CloseInv, QueueInv, [Next]_vars
  PROVE  QueueInv'
<1>1. ASSUME NEW e \in Execution,
             Spawn(e) \/ SteerBegins(e) \/ Steer(e) \/ \E p \in Session : SpawnBegins(p, e)
      PROVE  QueueInv'
  BY <1>1, BeginsQueue, SessionStartsQueue, SpawnFailsQueue, SpawnEndsQueue, SteerEndsQueue,
     SteerFailsQueue DEF Spawn, Steer
<1>2. ASSUME NEW s \in Session, BeginClose(s) \/ Evict(s) \/ Restore(s) \/ Closes(s)
      PROVE  QueueInv'
  BY <1>2, HostsQueue, RestoreQueue, CancelAllQueue, DisposeQueue DEF Closes
<1>3. ASSUME NEW k \in Holds, HoldBegins(k) \/ HoldEnds(k)
      PROVE  QueueInv'
  BY <1>3, HoldBeginsQueue, HoldEndsQueue
<1>4. CASE \/ \E e \in Execution : Cancel(e) \/ Run(e) \/ RetryFires(e) \/ Acknowledge(e)
           \/ \E n \in Notice : Tell(n) \/ DropSent(n) \/ SendFails(n)
           \/ UNCHANGED vars
  BY <1>4, TurnQueue
<1>5. CASE Scan \/ ReloadFails \/ Crash
  BY <1>5, ScanOwes, ReloadFailsQueue, CrashOwes
<1> QED
  BY <1>1, <1>2, <1>3, <1>4, <1>5, Zenon DEF Next

LEMMA QueueInitially ==
  ASSUME Init
  PROVE  QueueInv
<1>1. NoRow.state = "absent"
  BY DEF NoRow
<1>2. Known = {} /\ Queued = {}
  BY <1>1 DEF Init, Known, Queued
<1>3. /\ control = Free /\ host = [s \in Session |-> "active"] /\ resident = {Root}
  BY DEF Init
<1>4. StopsInv
  BY <1>2, <1>3 DEF StopsInv, Stopping, Session
<1>5. HomeInv /\ BornInv
  BY <1>3 DEF HomeInv, BornInv, Starting, Free
<1> QED
  BY <1>2, <1>4, <1>5 DEF QueueInv, RestInv, QueuedIsOwed
-----------------------------------------------------------------------------
(* Theorems.                                                               *)

\* The invariant of every behaviour.
THEOREM ExecutionsInvariant == Spec => []IInv
<1>1. IInv /\ [Next]_vars => IInv'
  BY Inductive
<1> QED
  BY <1>1, Initially, PTL DEF Spec

\* Every variable has its type in every behaviour.
THEOREM ExecutionsTypes == Spec => []TypeOK
<1>1. IInv => TypeOK
  BY DEF IInv
<1> QED
  BY <1>1, ExecutionsInvariant, PTL

\* The jobs never exceed the limit, and a row that says running has a live job,
\* however deep the tree and whatever interrupts it.
THEOREM SlotsAreFit == Spec => []SlotsFit
<1>1. IInv => SlotsFit
  BY DEF IInv
<1> QED
  BY <1>1, ExecutionsInvariant, PTL

\* A notice that was read, or whose child was continued, before the parent's session was
\* given it never comes to that session or its transcript: not by a timer, a restore of the
\* session, a send that fails, an end that is due again or a restart.
THEOREM SilencedStaysSilent == Spec => []SilencedStaysUntold
<1>1. IInv /\ IInv' /\ SilentInv /\ [Next]_vars => SilentInv'
  BY SilentInductive
<1>2. Init => SilentInv
  BY SilentInitially
<1>3. SilentInv => SilencedStaysUntold
  BY DEF SilentInv, SilencedStaysUntold
<1> QED
  BY <1>1, <1>2, <1>3, ExecutionsInvariant, PTL DEF Spec

\* Turns are queued, started under the limit and ended once, and told at most once.
THEOREM ExecutionsRefinement == Spec => ImplementsTasks
<1>1. Init => Promise!Init
  BY RefinesInitially
<1>2. IInv /\ [Next]_vars => [Promise!Next]_(Promise!vars)
  BY Refines DEF Promise!vars, PhaseOf, TurnOf
<1> QED
  BY <1>1, <1>2, ExecutionsInvariant, PTL DEF Spec, ImplementsTasks, Promise!Spec

\* What a close leaves behind, in every behaviour.
THEOREM ClosesBehind == Spec => []CloseInv
<1>1. IInv /\ CloseInv /\ [Next]_vars => CloseInv'
  BY CloseInductive
<1>2. Init => CloseInv
  BY CloseInitially
<1> QED
  BY <1>1, <1>2, ExecutionsInvariant, PTL DEF Spec

\* A close that is over has left nothing to run at the session, at its children and
\* theirs, and of the root nothing at all, in a tree of any depth.
ClosedNearIsQuiet ==
  [][\A s \in Session :
       s \in closing \ closing' /\ s \in resident \ resident' =>
         /\ Near(s) \cap (Unfinished' \cup Jobs') = {}
         /\ s = Root => Unfinished' \cup Jobs' = {}
    ]_vars

THEOREM ClosedNear == Spec => ClosedNearIsQuiet
<1>1. IInv /\ CloseInv /\ [Next]_vars
        => [\A s \in Session :
              s \in closing \ closing' /\ s \in resident \ resident' =>
                /\ Near(s) \cap (Unfinished' \cup Jobs') = {}
                /\ s = Root => Unfinished' \cup Jobs' = {}]_vars
  BY CloseLeaves
<1> QED
  BY <1>1, ExecutionsInvariant, ClosesBehind, PTL DEF Spec, ClosedNearIsQuiet

\* In a tree three deep, the default of the settings, that is all there is below it.
THEOREM ClosedQuiet ==
  ASSUME MaxDepth <= 3
  PROVE  Spec => ClosedIsQuiet
<1>1. ASSUME IInv, CloseInv, [Next]_vars, NEW s \in Session,
             s \in closing \ closing', s \in resident \ resident'
      PROVE  Below(s) \cap (Unfinished' \cup Jobs') = {}
  <2>1. /\ Near(s) \cap (Unfinished' \cup Jobs') = {}
        /\ s = Root => Unfinished' \cup Jobs' = {}
    BY <1>1, CloseLeaves
  <2>2. s # Root => Below(s) \subseteq Near(s)
    BY <1>1, NearIsAll DEF CloseInv
  <2> QED
    BY <2>1, <2>2
<1>2. IInv /\ CloseInv /\ [Next]_vars
        => [\A s \in Session :
              s \in closing \ closing' /\ s \in resident \ resident' =>
                Below(s) \cap (Unfinished' \cup Jobs') = {}]_vars
  BY <1>1
<1> QED
  BY <1>2, ExecutionsInvariant, ClosesBehind, PTL DEF Spec, ClosedIsQuiet

\* In a tree of any depth, whatever cancels, closes and restarts did: no slot is lost to a
\* row that ended and no row waits for a job that is gone; and where no spawn is interrupted
\* a job that nobody aborted works for a row that says running.
THEOREM SlotsReal == Spec => []SlotsAreReal
<1>1. CASE Interrupts
  <2>1. IInv => SlotsAreReal
    BY <1>1 DEF IInv, SlotsAreReal, LiveJobsRun
  <2> QED
    BY <2>1, ExecutionsInvariant, PTL
<1>2. CASE ~Interrupts
  <2>1. IInv /\ CloseInv /\ JobsInv /\ [Next]_vars => JobsInv'
    BY <1>2, JobsInductive
  <2>2. Init => JobsInv
    BY JobsInitially
  <2>3. IInv /\ JobsInv => SlotsAreReal
    BY DEF IInv, JobsInv, LiveInv, SlotsAreReal, LiveJobsRun
  <2> QED
    BY <2>1, <2>2, <2>3, ExecutionsInvariant, ClosesBehind, PTL DEF Spec
<1> QED
  BY <1>1, <1>2

\* A queued execution is never forgotten, in a tree of any depth, with spawns that are
\* interrupted and sessions that are closed before they told: whenever one waits there
\* is a scan to come, or something whose end brings one or takes the row, unless the last
\* scan met a copy, a drain or a root without a runtime, or a reload failed since.  What
\* QueuedStarts needs besides is that those end.
THEOREM QueuedNotForgotten == Spec => []QueuedIsOwed
<1>1. ASSUME Init
      PROVE  IInv /\ CloseInv /\ QueueInv
  BY <1>1, Initially, CloseInitially, QueueInitially
<1>2. ASSUME IInv, CloseInv, QueueInv, [Next]_vars
      PROVE  IInv' /\ CloseInv' /\ QueueInv'
  BY <1>2, Inductive, CloseInductive, QueueInductive
<1>3. QueueInv => QueuedIsOwed
  BY DEF QueueInv
<1> QED
  BY <1>1, <1>2, <1>3, PTL DEF Spec
=============================================================================
