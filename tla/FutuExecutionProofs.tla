-------------------------- MODULE FutuExecutionProofs --------------------------
(* What holds of the execution client and of the connection cache for any      *)
(* orders, submissions, accounts, keys and threads: the client implements the   *)
(* order life cycle, its verdicts are true of the venue, no trade is lost       *)
(* between the SDK's thread and the engine, and no connection is forgotten.     *)
EXTENDS FutuExecution, FutuContextCache, FiniteSetTheorems, SequenceTheorems, TLAPS

-----------------------------------------------------------------------------
(* The inductive invariant of the execution client *)

Statuses == {"initialized", "submitted", "accepted", "rejected", "canceled", "filled"}
States == {"none", "working", "cancelling", "filled", "canceled", "rejected"}
Reports == [order : Orders, kind : {"trade", "canceled", "rejected"}, trade : Nat]

ExecTypeOK ==
  /\ status \in [Orders -> Statuses]
  /\ applied \in [Orders -> SUBSET (Nat \ {0})]
  /\ total \in [Orders -> Nat \ {0}]
  /\ known \in [Orders -> BOOLEAN]
  /\ todo \in [Submissions -> Seq(Orders)]
  /\ book = [o \in Orders |-> [state |-> book[o].state, dealt |-> book[o].dealt,
                              total |-> book[o].total, account |-> book[o].account]]
  /\ \A o \in Orders : /\ book[o].state \in States
                       /\ book[o].dealt \in Nat /\ book[o].total \in Nat
  /\ queue \in Seq(Reports)
  /\ commands \subseteq Command

\* What is still to be sent is told apart from all else that is, and is unheard of.
ToSend(o) == \E s \in Submissions : \E i \in DOMAIN todo[s] : todo[s][i] = o
SentOnce ==
  /\ \A s, t \in Submissions : \A i \in DOMAIN todo[s], j \in DOMAIN todo[t] :
       todo[s][i] = todo[t][j] => s = t /\ i = j
  /\ \A o \in Orders : ToSend(o) => status[o] = "initialized"
  /\ \A o \in Orders : status[o] = "initialized" =>
       book[o].state = "none" /\ applied[o] = {} /\ ~known[o]

\* The venue's book of an order.
BookOrderly ==
  \A o \in Orders :
    /\ book[o].state \in {"none", "rejected"} => book[o].dealt = 0
    /\ book[o].dealt <= book[o].total
    /\ book[o].state \in Alive => book[o].dealt < book[o].total
    /\ book[o].state = "filled" => book[o].dealt = book[o].total

\* What is queued or applied has happened at the venue.
ReportsTrue ==
  /\ \A o \in Orders : applied[o] \subseteq 1..book[o].dealt
  /\ \A i \in DOMAIN queue :
       LET b == book[queue[i].order]
       IN IF queue[i].kind = "trade" THEN queue[i].trade \in 1..b.dealt
          ELSE b.state = queue[i].kind

\* An order the engine can match, whose answers all came: its totals agree.
Matched ==
  \A o \in Orders : known[o] =>
    /\ status[o] \notin {"initialized", "submitted"}
    /\ status[o] = "filled" => applied[o] = 1..total[o]
    /\ o \notin unanswered => total[o] = book[o].total

ExecInv ==
  /\ ExecTypeOK /\ SentOnce /\ BookOrderly /\ ReportsTrue /\ Matched
  /\ VerdictsAreTrue /\ TradesAccounted

\* Any number of trades is counted; as many as the quantity are all of them.
LEMMA TradesCounted ==
  ASSUME NEW n \in Nat, NEW S \in SUBSET (1..n)
  PROVE  /\ IsFiniteSet(S) /\ Cardinality(S) \in Nat /\ Cardinality(S) <= n
         /\ Cardinality(S) = n => S = 1..n
<1>1. IsFiniteSet(1..n) /\ Cardinality(1..n) = n
  BY FS_Interval
<1> QED BY <1>1, FS_Subset, FS_CardinalityType

-----------------------------------------------------------------------------
(* One lemma per step *)

\* Connecting, losing the session, a refused command: nothing the invariant is about.
LEMMA UnrelatedStep ==
  ASSUME ExecInv, commands' \subseteq Command,
         UNCHANGED <<status, applied, total, known, todo, book, queue, unheard, unanswered>>
  PROVE  ExecInv'
BY DEF ExecInv, ExecTypeOK, SentOnce, ToSend, BookOrderly, ReportsTrue, Matched,
       VerdictsAreTrue, TradesAccounted, Queued

\* What an order that is sent next is like.
LEMMA NextToSend ==
  ASSUME ExecInv, NEW s \in Submissions, NEW o \in Orders, Sending(s, o)
  PROVE  /\ status[o] = "initialized" /\ applied[o] = {} /\ ~known[o]
         /\ book[o].state = "none" /\ book[o].dealt = 0
         /\ todo'[s] = Tail(todo[s]) /\ todo' \in [Submissions -> Seq(Orders)]
         /\ \A i \in DOMAIN queue : queue[i].order # o
<1> USE DEF ExecInv, ExecTypeOK
<1>1. todo[s] \in Seq(Orders) /\ todo[s] # <<>> /\ o = todo[s][1] /\ 1 \in DOMAIN todo[s]
  BY DEF Sending
<1>2. status[o] = "initialized" /\ applied[o] = {} /\ ~known[o] /\ book[o].state = "none"
  BY <1>1 DEF SentOnce, ToSend
<1>3. book[o].dealt = 0
  BY <1>2 DEF BookOrderly
<1>4. todo'[s] = Tail(todo[s]) /\ todo' \in [Submissions -> Seq(Orders)]
  BY <1>1 DEF Sending
<1>5. ASSUME NEW i \in DOMAIN queue, queue[i].order = o PROVE FALSE
  <2>1. queue[i].kind \in {"trade", "canceled", "rejected"}
    <3>1. queue \in Seq(Reports) /\ i \in 1..Len(queue)
      OBVIOUS
    <3>2. queue[i] \in Reports
      BY <3>1, ElementOfSeq
    <3> QED BY <3>2 DEF Reports
  <2>2. CASE queue[i].kind = "trade"
    <3>1. queue[i].trade \in 1..book[o].dealt
      BY <1>5, <2>2 DEF ReportsTrue
    <3> QED BY <1>3, <3>1
  <2>3. CASE queue[i].kind # "trade"
    <3>1. book[o].state = queue[i].kind
      BY <1>5, <2>3 DEF ReportsTrue
    <3> QED BY <1>2, <2>1, <2>3, <3>1
  <2> QED BY <2>2, <2>3
<1> QED BY <1>2, <1>3, <1>4, <1>5

\* Sending one order leaves the others to send, each once.
LEMMA StillToSend ==
  ASSUME ExecInv, NEW s \in Submissions, NEW o \in Orders, Sending(s, o)
  PROVE  /\ \A r, t \in Submissions : \A i \in DOMAIN todo'[r], j \in DOMAIN todo'[t] :
              todo'[r][i] = todo'[t][j] => r = t /\ i = j
         /\ \A p \in Orders : ToSend(p)' => ToSend(p) /\ p # o
<1> USE DEF ExecInv, ExecTypeOK
<1>1. todo[s] \in Seq(Orders) /\ todo[s] # <<>> /\ o = todo[s][1] /\ 1 \in DOMAIN todo[s]
      /\ todo' = [todo EXCEPT ![s] = Tail(@)]
  BY DEF Sending
<1>2. \A r \in Submissions : \A i \in DOMAIN todo'[r] :
        IF r = s THEN i + 1 \in DOMAIN todo[s] /\ i \in Nat \ {0} /\ todo'[r][i] = todo[s][i + 1]
        ELSE i \in DOMAIN todo[r] /\ todo'[r][i] = todo[r][i]
  <2> TAKE r \in Submissions
  <2> TAKE i \in DOMAIN todo'[r]
  <2>1. CASE r = s
    <3>1. todo'[r] = Tail(todo[s])
      BY <1>1, <2>1
    <3>2. Len(Tail(todo[s])) = Len(todo[s]) - 1 /\ i \in 1..(Len(todo[s]) - 1)
      <4>1. Tail(todo[s]) \in Seq(Orders) /\ Len(Tail(todo[s])) = Len(todo[s]) - 1
        BY <1>1, HeadTailProperties
      <4>2. DOMAIN Tail(todo[s]) = 1..Len(Tail(todo[s]))
        BY <4>1
      <4> QED BY <3>1, <4>1, <4>2
    <3>3. \A j \in 1..Len(Tail(todo[s])) : Tail(todo[s])[j] = todo[s][j + 1]
      BY <1>1, HeadTailProperties
    <3>4. todo[s][i + 1] = Tail(todo[s])[i]
      BY <3>2, <3>3
    <3>5. i + 1 \in DOMAIN todo[s] /\ i \in Nat \ {0}
      <4>1. DOMAIN todo[s] = 1..Len(todo[s]) /\ Len(todo[s]) \in Nat
        BY <1>1
      <4>2. \A n \in Nat : \A k \in 1..(n - 1) : k + 1 \in 1..n /\ k \in Nat \ {0}
        OBVIOUS
      <4> HIDE DEF ExecInv, ExecTypeOK
      <4> QED BY <3>2, <4>1, <4>2
    <3> QED BY <2>1, <3>1, <3>4, <3>5
  <2>2. CASE r # s
    BY <1>1, <2>2
  <2> QED BY <2>1, <2>2
<1>3. \A r, t \in Submissions : \A i \in DOMAIN todo'[r], j \in DOMAIN todo'[t] :
        todo'[r][i] = todo'[t][j] => r = t /\ i = j
  <2> SUFFICES ASSUME NEW r \in Submissions, NEW t \in Submissions,
                      NEW i \in DOMAIN todo'[r], NEW j \in DOMAIN todo'[t], todo'[r][i] = todo'[t][j]
               PROVE r = t /\ i = j
    OBVIOUS
  <2>1. PICK ii \in DOMAIN todo[r] :
          todo'[r][i] = todo[r][ii] /\ ii = (IF r = s THEN i + 1 ELSE i) /\ (r = s => i \in Nat \ {0})
    BY <1>2
  <2>2. PICK jj \in DOMAIN todo[t] :
          todo'[t][j] = todo[t][jj] /\ jj = (IF t = s THEN j + 1 ELSE j) /\ (t = s => j \in Nat \ {0})
    BY <1>2
  <2>3. todo[r][ii] = todo[t][jj]
    BY <2>1, <2>2
  <2>4. r = t /\ ii = jj
    BY <2>3 DEF SentOnce
  <2>5. CASE r = s
    BY <2>1, <2>2, <2>4, <2>5
  <2>6. CASE r # s
    BY <2>1, <2>2, <2>4, <2>6
  <2> QED BY <2>5, <2>6
<1>4. ASSUME NEW p \in Orders, ToSend(p)' PROVE ToSend(p) /\ p # o
  <2>0. PICK r \in Submissions : \E i \in DOMAIN todo'[r] : todo'[r][i] = p
    BY <1>4 DEF ToSend
  <2>1. PICK i \in DOMAIN todo'[r] : todo'[r][i] = p
    BY <2>0
  <2>2. CASE r = s
    <3>1. i + 1 \in DOMAIN todo[s] /\ i \in Nat \ {0} /\ todo[s][i + 1] = p
      BY <1>2, <2>1, <2>2
    <3>2. p # o
      BY <1>1, <3>1 DEF SentOnce
    <3> QED BY <3>1, <3>2 DEF ToSend
  <2>3. CASE r # s
    BY <1>1, <1>2, <2>1, <2>3 DEF SentOnce, ToSend
  <2> QED BY <2>2, <2>3
<1> QED BY <1>3, <1>4

\* One order of a submission is sent: its status becomes v, the engine learns its
\* id if k, and b is what the venue then has of it.
LEMMA SubmissionStep ==
  ASSUME ExecInv, NEW s \in Submissions, NEW o \in Orders, Sending(s, o),
         NEW v \in {"submitted", "accepted", "rejected"}, Verdict(o, v),
         NEW k \in BOOLEAN, known' = [known EXCEPT ![o] = k], k => v = "accepted",
         unanswered \subseteq unanswered', unanswered' \subseteq unanswered \cup {o},
         \/ /\ book' = book
            /\ v = "rejected"
         \/ /\ Stands(o)
            /\ v = "rejected" => o \in unanswered'
  PROVE  ExecInv'
<1> USE DEF Verdict, Stands
<1>1. /\ status[o] = "initialized" /\ applied[o] = {} /\ ~known[o]
      /\ book[o].state = "none" /\ book[o].dealt = 0
      /\ todo' \in [Submissions -> Seq(Orders)]
      /\ \A i \in DOMAIN queue : queue[i].order # o
  BY NextToSend
<1>2. /\ \A r, t \in Submissions : \A i \in DOMAIN todo'[r], j \in DOMAIN todo'[t] :
           todo'[r][i] = todo'[t][j] => r = t /\ i = j
      /\ \A p \in Orders : ToSend(p)' => ToSend(p) /\ p # o
  BY StillToSend
<1>3. UNCHANGED <<applied, total, commands, queue, unheard>>
  BY DEF Sending, session
<1>4. ExecTypeOK
  BY DEF ExecInv
<1>5. /\ status'[o] = v /\ known'[o] = k
      /\ \A p \in Orders \ {o} : status'[p] = status[p] /\ known'[p] = known[p] /\ book'[p] = book[p]
  BY <1>4 DEF ExecTypeOK
<1>6. /\ book'[o].dealt = 0 /\ book'[o].state \in {"none", "working"}
      /\ book'[o].total \in Nat
      /\ book'[o].state = "working" => book'[o].total = total[o]
      /\ book'[o].state = "none" => v = "rejected"
      /\ v = "rejected" => book'[o].state = "none" \/ o \in unanswered'
      /\ book' = [p \in Orders |-> [state |-> book'[p].state, dealt |-> book'[p].dealt,
                                    total |-> book'[p].total, account |-> book'[p].account]]
  <2>1. CASE book' = book /\ v = "rejected"
    BY <1>1, <1>4, <2>1 DEF ExecTypeOK
  <2>2. CASE Stands(o) /\ (v = "rejected" => o \in unanswered')
    <3> DEFINE new == [state |-> "working", dealt |-> 0, total |-> total[o], account |-> AccountFor(o)]
    <3>1. total[o] \in Nat
      BY <1>4 DEF ExecTypeOK
    <3>2. book' = [book EXCEPT ![o] = new]
      BY <2>2
    <3>3. book'[o] = new /\ \A p \in Orders \ {o} : book'[p] = book[p]
      BY <1>4, <3>2 DEF ExecTypeOK
    <3>4. book' = [p \in Orders |-> book'[p]]
      BY <1>4, <3>2 DEF ExecTypeOK
    <3>5. \A p \in Orders : book[p] = [state |-> book[p].state, dealt |-> book[p].dealt,
                                       total |-> book[p].total, account |-> book[p].account]
      BY <1>4 DEF ExecTypeOK
    <3>6. \A p \in Orders : book'[p] = [state |-> book'[p].state, dealt |-> book'[p].dealt,
                                        total |-> book'[p].total, account |-> book'[p].account]
      BY <3>3, <3>5
    <3>7. book' = [p \in Orders |-> [state |-> book'[p].state, dealt |-> book'[p].dealt,
                                    total |-> book'[p].total, account |-> book'[p].account]]
      BY <3>4, <3>6
    <3> QED BY <2>2, <3>1, <3>3, <3>7
  <2> QED BY <2>1, <2>2
<1>7. total[o] \in Nat /\ total[o] > 0
  BY <1>4 DEF ExecTypeOK
<1>8. ExecTypeOK'
  BY <1>1, <1>3, <1>4, <1>5, <1>6 DEF ExecTypeOK, Statuses, States
<1>9. SentOnce'
  BY <1>1, <1>2, <1>3, <1>5 DEF ExecInv, SentOnce
<1>10. BookOrderly'
  BY <1>5, <1>6, <1>7 DEF ExecInv, BookOrderly, Alive
<1>11. ReportsTrue'
  <2>1. \A i \in DOMAIN queue : queue[i].order \in Orders
    <3>1. TAKE i \in DOMAIN queue
    <3>2. queue \in Seq(Reports) /\ i \in 1..Len(queue)
      BY <1>4 DEF ExecTypeOK
    <3>3. queue[i] \in Reports
      BY <3>2, ElementOfSeq
    <3> QED BY <3>3 DEF Reports
  <2>2. \A i \in DOMAIN queue : book'[queue[i].order] = book[queue[i].order]
    BY <1>1, <1>5, <2>1
  <2>3. \A p \in Orders : applied[p] \subseteq 1..book'[p].dealt
    BY <1>1, <1>5 DEF ExecInv, ReportsTrue
  <2> QED BY <1>3, <2>2, <2>3 DEF ExecInv, ReportsTrue
<1>12. Matched'
  BY <1>1, <1>3, <1>5, <1>6 DEF ExecInv, Matched
<1>13. VerdictsAreTrue'
  BY <1>5, <1>6 DEF ExecInv, VerdictsAreTrue, OpenStatus
<1>14. TradesAccounted'
  BY <1>3, <1>5, <1>6 DEF ExecInv, TradesAccounted, Queued
<1> QED BY <1>8, <1>9, <1>10, <1>11, <1>12, <1>13, <1>14 DEF ExecInv

LEMMA SendSteps ==
  ASSUME ExecInv, NEW s \in Submissions, NEW o \in Orders,
         \/ SubmitRejected(s, o) \/ SubmitAccepted(s, o)
         \/ SubmitUnnumbered(s, o) \/ SubmitUnanswered(s, o)
  PROVE  ExecInv' /\ status[o] = "initialized" /\ applied[o] = {}
<1>0. /\ Sending(s, o)
      /\ known \in [Orders -> BOOLEAN]
  BY DEF SubmitRejected, SubmitAccepted, SubmitUnnumbered, SubmitUnanswered, ExecInv, ExecTypeOK
<1>1. status[o] = "initialized" /\ applied[o] = {} /\ ~known[o]
  BY <1>0, NextToSend
<1>2. known = [known EXCEPT ![o] = FALSE]
  BY <1>0, <1>1
<1>3. CASE SubmitRejected(s, o)
  <2>1. /\ Verdict(o, "rejected") /\ known' = [known EXCEPT ![o] = FALSE]
        /\ book' = book /\ unanswered' = unanswered
    BY <1>2, <1>3 DEF SubmitRejected
  <2> QED BY <1>0, <1>1, <2>1, SubmissionStep
<1>4. CASE SubmitAccepted(s, o)
  <2>1. /\ Verdict(o, "accepted") /\ known' = [known EXCEPT ![o] = TRUE]
        /\ Stands(o) /\ unanswered' = unanswered
    BY <1>4 DEF SubmitAccepted
  <2> QED BY <1>0, <1>1, <2>1, SubmissionStep
<1>5. CASE SubmitUnnumbered(s, o)
  <2>1. /\ Verdict(o, "submitted") /\ known' = [known EXCEPT ![o] = FALSE]
        /\ Stands(o) /\ unanswered' = unanswered
    BY <1>2, <1>5 DEF SubmitUnnumbered
  <2> QED BY <1>0, <1>1, <2>1, SubmissionStep
<1>6. CASE SubmitUnanswered(s, o)
  <2>1. /\ Verdict(o, "rejected") /\ known' = [known EXCEPT ![o] = FALSE]
        /\ Stands(o) /\ unanswered' = unanswered \cup {o}
    BY <1>2, <1>6 DEF SubmitUnanswered
  <2> QED BY <1>0, <1>1, <2>1, SubmissionStep
<1> QED BY <1>3, <1>4, <1>5, <1>6

\* A list whose next order cannot be translated is given up.
LEMMA RaiseStep ==
  ASSUME ExecInv, NEW s \in Submissions, SubmitRaises(s)
  PROVE  ExecInv'
<1> USE DEF ExecInv, ExecTypeOK
<1>1. /\ todo' = [todo EXCEPT ![s] = <<>>]
      /\ UNCHANGED <<status, applied, total, known, book, queue, commands, unheard, unanswered>>
  BY DEF SubmitRaises, engine
<1>2. todo' \in [Submissions -> Seq(Orders)] /\ \A r \in Submissions : DOMAIN todo'[r] \subseteq DOMAIN todo[r]
      /\ \A q \in Submissions : \A i \in DOMAIN todo'[q] : todo'[q][i] = todo[q][i]
  BY <1>1
<1>3. SentOnce'
  <2>1. \A o \in Orders : ToSend(o)' => ToSend(o)
    BY <1>2 DEF ToSend
  <2>2. \A q, t \in Submissions : \A i \in DOMAIN todo'[q], j \in DOMAIN todo'[t] :
          todo'[q][i] = todo'[t][j] => q = t /\ i = j
    BY <1>2 DEF SentOnce
  <2> QED BY <1>1, <2>1, <2>2 DEF SentOnce
<1>4. ExecTypeOK'
  BY <1>1, <1>2
<1>5. BookOrderly' /\ ReportsTrue' /\ Matched' /\ VerdictsAreTrue' /\ TradesAccounted'
  BY <1>1 DEF BookOrderly, ReportsTrue, Matched, VerdictsAreTrue, TradesAccounted, Queued
<1> QED BY <1>3, <1>4, <1>5

\* A trade the engine has not applied, of an order it can match and no answer for
\* which was lost, is one the order still takes.
LEMMA StillTakes ==
  ASSUME ExecInv, NEW o \in Orders, o \notin unanswered, known[o],
         NEW n \in 1..book[o].dealt, n \notin applied[o]
  PROVE  /\ status[o] \in {"accepted", "canceled"}
         /\ book[o].dealt <= total[o]
<1> USE DEF ExecInv
<1>1. status[o] \in Statuses /\ book[o].dealt \in Nat /\ book[o].total \in Nat
  BY DEF ExecTypeOK
<1>2. book[o].dealt <= total[o]
  BY DEF Matched, BookOrderly
<1>3. status[o] # "filled"
  <2>1. SUFFICES ASSUME status[o] = "filled" PROVE FALSE
    OBVIOUS
  <2>2. applied[o] = 1..total[o] /\ total[o] \in Nat
    BY <2>1 DEF Matched, ExecTypeOK
  <2> QED BY <1>1, <1>2, <2>2
<1>4. book[o].state \notin {"none", "rejected"}
  BY <1>1 DEF BookOrderly
<1>5. status[o] # "rejected"
  BY <1>4 DEF VerdictsAreTrue
<1>6. status[o] \notin {"initialized", "submitted"}
  BY DEF Matched
<1> QED BY <1>1, <1>2, <1>3, <1>5, <1>6 DEF Statuses

\* An order that works at the venue, that the engine can match and no answer for
\* which was lost, is open for the engine.
LEMMA WorkingIsOpen ==
  ASSUME ExecInv, NEW o \in Orders, o \notin unanswered, known[o], book[o].state = "working"
  PROVE  status[o] = "accepted"
<1> USE DEF ExecInv
<1>1. status[o] \in Statuses /\ book[o].dealt \in Nat /\ total[o] \in Nat /\ total[o] > 0
  BY DEF ExecTypeOK
<1>2. book[o].dealt < total[o]
  BY DEF Matched, BookOrderly, Alive
<1>3. status[o] # "filled"
  <2>1. SUFFICES ASSUME status[o] = "filled" PROVE FALSE
    OBVIOUS
  <2>2. applied[o] = 1..total[o] /\ applied[o] \subseteq 1..book[o].dealt
    BY <2>1 DEF Matched, ReportsTrue
  <2>3. total[o] \in 1..book[o].dealt
    BY <1>1, <2>2
  <2> QED BY <1>1, <1>2, <2>3
<1>4. status[o] \notin {"rejected", "canceled"}
  BY DEF VerdictsAreTrue
<1>5. status[o] \notin {"initialized", "submitted"}
  BY DEF Matched
<1> QED BY <1>1, <1>3, <1>4, <1>5 DEF Statuses

\* A cancel or a modification that OpenD took, answered or not.
LEMMA CommandSteps ==
  ASSUME ExecInv, NEW c \in Command, RunCommand(c) \/ CommandUnanswered(c)
  PROVE  ExecInv'
<1> DEFINE o == c.order
<1>1. o \in Orders /\ c.quantity \in 0..MaxQuantity /\ MaxQuantity \in Nat
  BY ExecutionAssumption DEF Command
<1>2. /\ Running(c) /\ Takes(c) /\ AtVenue(c)
      /\ known[o] /\ book[o].state = "working"
      /\ c.cancel \/ c.quantity > book[o].dealt
      /\ UNCHANGED <<applied, known, todo, queue, unheard>>
      /\ commands' \subseteq commands
  BY DEF RunCommand, CommandUnanswered, Takes, Running
<1>3. ExecTypeOK
  BY DEF ExecInv
<1>4. /\ \A p \in Orders \ {o} : book'[p] = book[p]
      /\ book'[o].dealt = book[o].dealt
      /\ book'[o].state = (IF c.cancel THEN "cancelling" ELSE "working")
      /\ book'[o].total = (IF c.cancel THEN book[o].total ELSE c.quantity)
  BY <1>1, <1>2, <1>3 DEF AtVenue, ExecTypeOK
<1>5. book' = [p \in Orders |-> [state |-> book'[p].state, dealt |-> book'[p].dealt,
                                total |-> book'[p].total, account |-> book'[p].account]]
  <2>1. book' = [p \in Orders |-> book'[p]]
    BY <1>2, <1>3 DEF AtVenue, ExecTypeOK
  <2>2. \A p \in Orders : book[p] = [state |-> book[p].state, dealt |-> book[p].dealt,
                                   total |-> book[p].total, account |-> book[p].account]
    BY <1>3 DEF ExecTypeOK
  <2>3. book'[o] = [state |-> book'[o].state, dealt |-> book'[o].dealt,
                    total |-> book'[o].total, account |-> book'[o].account]
    <3>1. book'[o] = IF c.cancel THEN [book[o] EXCEPT !.state = "cancelling"]
                     ELSE [book[o] EXCEPT !.total = c.quantity]
      BY <1>1, <1>2, <1>3 DEF AtVenue, ExecTypeOK
    <3> QED BY <1>1, <2>2, <3>1
  <2>4. \A p \in Orders : book'[p] = [state |-> book'[p].state, dealt |-> book'[p].dealt,
                                    total |-> book'[p].total, account |-> book'[p].account]
    BY <1>4, <2>2, <2>3
  <2> QED BY <2>1, <2>4
<1>6. /\ \A p \in Orders \ {o} : status'[p] = status[p] /\ total'[p] = total[p]
      /\ status' \in [Orders -> Statuses]
      /\ total' \in [Orders -> Nat \ {0}]
      /\ status'[o] = status[o] \/ (status'[o] = "canceled" /\ c.cancel /\ status[o] \in OpenStatus)
      /\ unanswered \subseteq unanswered' /\ unanswered' \subseteq unanswered \cup {o}
      /\ total'[o] = total[o] \/ (~c.cancel /\ total'[o] = c.quantity /\ status[o] \in OpenStatus)
      /\ o \notin unanswered' => /\ status[o] \in OpenStatus /\ c.cancel => status'[o] = "canceled"
                                 /\ status[o] \in OpenStatus /\ ~c.cancel => total'[o] = c.quantity
  <2>1. c.quantity > book[o].dealt /\ book[o].dealt \in Nat => c.quantity \in Nat \ {0}
    BY <1>1
  <2>2. /\ status \in [Orders -> Statuses] /\ total \in [Orders -> Nat \ {0}] /\ book[o].dealt \in Nat
    BY <1>1, <1>3 DEF ExecTypeOK
  <2>3. CASE CommandUnanswered(c)
    BY <1>1, <2>2, <2>3 DEF CommandUnanswered
  <2>4. CASE RunCommand(c) /\ status[o] \notin OpenStatus
    BY <1>1, <2>2, <2>4 DEF RunCommand
  <2>5. CASE RunCommand(c) /\ status[o] \in OpenStatus /\ c.cancel
    BY <1>1, <2>2, <2>5 DEF RunCommand, Verdict, Statuses
  <2>6. CASE RunCommand(c) /\ status[o] \in OpenStatus /\ ~c.cancel
    BY <1>1, <1>2, <2>1, <2>2, <2>6 DEF RunCommand
  <2> QED BY <2>3, <2>4, <2>5, <2>6
<1>7. ExecTypeOK'
  BY <1>1, <1>2, <1>3, <1>4, <1>5, <1>6 DEF ExecTypeOK, States
<1>8. SentOnce'
  <2>1. status[o] # "initialized"
    BY <1>1, <1>2 DEF ExecInv, SentOnce
  <2>2. status'[o] # "initialized"
    BY <1>6, <2>1
  <2> QED BY <1>1, <1>2, <1>4, <1>6, <2>1, <2>2 DEF ExecInv, SentOnce, ToSend
<1>9. BookOrderly'
  <2>1. book[o].dealt \in Nat /\ book[o].total \in Nat /\ c.quantity \in Nat /\ book[o].dealt < book[o].total
    BY <1>1, <1>2, <1>3 DEF ExecInv, BookOrderly, Alive, ExecTypeOK
  <2> QED BY <1>2, <1>4, <2>1 DEF ExecInv, BookOrderly, Alive
<1>10. ReportsTrue'
  <2>1. \A p \in Orders : book'[p].dealt = book[p].dealt
    BY <1>4
  <2>2. \A i \in DOMAIN queue : /\ queue[i].order \in Orders
                                /\ queue[i].kind \in {"trade", "canceled", "rejected"}
    <3>1. TAKE i \in DOMAIN queue
    <3>2. queue \in Seq(Reports) /\ i \in 1..Len(queue)
      BY <1>3 DEF ExecTypeOK
    <3>3. queue[i] \in Reports
      BY <3>2, ElementOfSeq
    <3> QED BY <3>3 DEF Reports
  <2> QED BY <1>2, <1>4, <2>1, <2>2 DEF ExecInv, ReportsTrue
<1>11. Matched'
  <2>1. ASSUME NEW p \in Orders, known[p]
        PROVE  /\ status'[p] \notin {"initialized", "submitted"}
               /\ status'[p] = "filled" => applied[p] = 1..total'[p]
               /\ p \notin unanswered' => total'[p] = book'[p].total
    <3>1. CASE p # o
      BY <1>4, <1>6, <2>1, <3>1 DEF ExecInv, Matched
    <3>2. CASE p = o
      <4>1. p \notin unanswered' => status[o] = "accepted"
        BY <1>1, <1>2, <1>6, <3>2, WorkingIsOpen
      <4>2. p \notin unanswered' => total[o] = book[o].total
        BY <1>1, <1>2, <1>6, <3>2 DEF ExecInv, Matched
      <4>3. p \notin unanswered' => total'[p] = book'[p].total
        BY <1>4, <1>6, <3>2, <4>1, <4>2 DEF OpenStatus
      <4> QED BY <1>1, <1>2, <1>6, <3>2, <4>3 DEF ExecInv, Matched, OpenStatus
    <3> QED BY <3>1, <3>2
  <2> QED BY <1>2, <2>1 DEF Matched
<1>12. VerdictsAreTrue'
  BY <1>1, <1>2, <1>4, <1>6 DEF ExecInv, VerdictsAreTrue, OpenStatus
<1>13. TradesAccounted'
  BY <1>2, <1>4, <1>6 DEF ExecInv, TradesAccounted, Queued
<1> QED BY <1>7, <1>8, <1>9, <1>10, <1>11, <1>12, <1>13 DEF ExecInv

LEMMA QueuedAreReports ==
  ASSUME queue \in Seq(Reports)
  PROVE  \A i \in DOMAIN queue : /\ queue[i] \in Reports /\ queue[i].order \in Orders
                                 /\ queue[i].kind \in {"trade", "canceled", "rejected"}
                                 /\ queue[i].trade \in Nat
<1>1. TAKE i \in DOMAIN queue
<1>2. i \in 1..Len(queue)
  OBVIOUS
<1>3. queue[i] \in Reports
  BY <1>2, ElementOfSeq
<1> QED BY <1>3 DEF Reports

\* What a push leaves in the queue.
LEMMA Pushed ==
  ASSUME queue \in Seq(Reports), NEW r \in Reports, Push(r)
  PROVE  /\ queue' \in Seq(Reports)
         /\ \A i \in 1..Len(queue) : i \in 1..Len(queue') /\ queue'[i] = queue[i]
         /\ \A i \in DOMAIN queue' : queue'[i] = r \/ (i \in DOMAIN queue /\ queue'[i] = queue[i])
         /\ listening => \E i \in 1..Len(queue') : queue'[i] = r
<1>1. CASE ~listening
  BY <1>1 DEF Push
<1>2. CASE listening
  <2>1. queue' = Append(queue, r)
    BY <1>2 DEF Push
  <2>2. queue' \in Seq(Reports) /\ Len(queue') = Len(queue) + 1 /\ Len(queue) \in Nat
    BY <2>1, AppendProperties
  <2>3. \A i \in 1..Len(queue) : queue'[i] = queue[i]
    BY <2>1, AppendProperties
  <2>4. queue'[Len(queue) + 1] = r
    BY <2>1, AppendProperties
  <2>5. DOMAIN queue = 1..Len(queue) /\ DOMAIN queue' = 1..Len(queue')
    BY <2>2
  <2>6. \A n \in Nat : /\ n + 1 \in 1..(n + 1)
                       /\ \A i \in 1..n : i \in 1..(n + 1)
                       /\ \A i \in 1..(n + 1) : i \in 1..n \/ i = n + 1
    OBVIOUS
  <2> QED BY <2>2, <2>3, <2>4, <2>5, <2>6
<1> QED BY <1>1, <1>2

\* What fills and ends write into an order's entry of the book.
LEMMA EntryUpdated ==
  ASSUME NEW st, NEW d, NEW q, NEW a, NEW n, NEW end, NEW b,
         b = [[[state |-> st, dealt |-> d, total |-> q, account |-> a] EXCEPT !.dealt = n]
               EXCEPT !.state = end]
  PROVE  b = [state |-> end, dealt |-> n, total |-> q, account |-> a]
<1>1. [[state |-> st, dealt |-> d, total |-> q, account |-> a] EXCEPT !.dealt = n]
      = [state |-> st, dealt |-> n, total |-> q, account |-> a]
  OBVIOUS
<1>2. [[state |-> st, dealt |-> n, total |-> q, account |-> a] EXCEPT !.state = end]
      = [state |-> end, dealt |-> n, total |-> q, account |-> a]
  OBVIOUS
<1> QED BY <1>1, <1>2

\* The venue fills or ends an order, and pushes r about it.
LEMMA VenueStep ==
  ASSUME ExecInv, NEW o \in Orders, book[o].state \in Alive,
         NEW r \in Reports, r.order = o, Push(r),
         NEW n \in Nat, NEW end \in States,
         \/ /\ r.kind = "trade" /\ r.trade = n /\ n = book[o].dealt + 1
            /\ end = IF n = book[o].total THEN "filled" ELSE book[o].state
         \/ /\ n = book[o].dealt /\ r.kind = end /\ end \in {"canceled", "rejected"}
            /\ end = "rejected" => n = 0,
         book' = [book EXCEPT ![o].dealt = n, ![o].state = end],
         unheard' = IF listening THEN unheard ELSE unheard \cup {<<o, r.trade>>},
         UNCHANGED <<engine, todo, commands, unanswered>>
  PROVE  ExecInv'
<1>1. ExecTypeOK /\ UNCHANGED <<status, applied, total, known, todo, commands, unanswered>>
  BY DEF ExecInv, engine
<1>2. queue \in Seq(Reports)
  BY <1>1 DEF ExecTypeOK
<1>3. /\ queue' \in Seq(Reports)
      /\ \A i \in 1..Len(queue) : i \in 1..Len(queue') /\ queue'[i] = queue[i]
      /\ \A i \in DOMAIN queue' : queue'[i] = r \/ (i \in DOMAIN queue /\ queue'[i] = queue[i])
      /\ listening => \E i \in 1..Len(queue') : queue'[i] = r
  BY <1>2, Pushed
<1>4. /\ \A p \in Orders \ {o} : book'[p] = book[p]
      /\ book'[o].dealt = n /\ book'[o].state = end /\ book'[o].total = book[o].total
  <2>1. \A p \in Orders \ {o} : book'[p] = book[p]
    BY <1>1 DEF ExecTypeOK
  <2>2. book'[o] = [[book[o] EXCEPT !.dealt = n] EXCEPT !.state = end]
    BY <1>1 DEF ExecTypeOK
  <2>3. book[o] = [state |-> book[o].state, dealt |-> book[o].dealt,
                   total |-> book[o].total, account |-> book[o].account]
    BY <1>1 DEF ExecTypeOK
  <2>4. book'[o] = [state |-> end, dealt |-> n, total |-> book[o].total, account |-> book[o].account]
    BY ONLY <2>2, <2>3, EntryUpdated, Zenon
  <2>5. book'[o].dealt = n /\ book'[o].state = end /\ book'[o].total = book[o].total
    BY ONLY <2>4
  <2> QED BY ONLY <2>1, <2>5
<1>5. book[o].dealt \in Nat /\ book[o].total \in Nat /\ book[o].dealt < book[o].total
  BY <1>1 DEF ExecInv, ExecTypeOK, BookOrderly
<1>6. book' = [p \in Orders |-> [state |-> book'[p].state, dealt |-> book'[p].dealt,
                                total |-> book'[p].total, account |-> book'[p].account]]
  <2>1. book' = [p \in Orders |-> book'[p]]
    BY <1>1 DEF ExecTypeOK
  <2>2. \A p \in Orders : book[p] = [state |-> book[p].state, dealt |-> book[p].dealt,
                                   total |-> book[p].total, account |-> book[p].account]
    BY <1>1 DEF ExecTypeOK
  <2>3. book'[o] = [[book[o] EXCEPT !.dealt = n] EXCEPT !.state = end]
    BY <1>1 DEF ExecTypeOK
  <2>4. book'[o] = [state |-> book'[o].state, dealt |-> book'[o].dealt,
                    total |-> book'[o].total, account |-> book'[o].account]
    BY <2>2, <2>3
  <2>5. \A p \in Orders : book'[p] = [state |-> book'[p].state, dealt |-> book'[p].dealt,
                                    total |-> book'[p].total, account |-> book'[p].account]
    BY <1>4, <2>2, <2>4
  <2> QED BY <2>1, <2>5
<1>7. book[o].dealt <= n /\ n <= book[o].total
  BY <1>5
<1>8. ExecTypeOK'
  BY <1>1, <1>3, <1>4, <1>5, <1>6 DEF ExecTypeOK
<1>9. status[o] # "initialized"
  BY DEF ExecInv, SentOnce, Alive
<1>10. SentOnce'
  <2>1. \A p \in Orders : ToSend(p)' <=> ToSend(p)
    BY <1>1 DEF ToSend
  <2>2. \A p \in Orders : status[p] = "initialized" => p # o
    BY <1>9
  <2>3. \A p \in Orders : ToSend(p)' => status'[p] = "initialized"
    BY <1>1, <2>1 DEF ExecInv, SentOnce
  <2>4. \A p \in Orders : status'[p] = "initialized" =>
          book'[p].state = "none" /\ applied'[p] = {} /\ ~known'[p]
    BY <1>1, <1>4, <2>2 DEF ExecInv, SentOnce
  <2>5. \A q, t \in Submissions : \A i \in DOMAIN todo'[q], j \in DOMAIN todo'[t] :
          todo'[q][i] = todo'[t][j] => q = t /\ i = j
    BY <1>1 DEF ExecInv, SentOnce
  <2> QED BY <2>3, <2>4, <2>5 DEF SentOnce
<1>11. BookOrderly'
  <2>1. /\ end \in {"none", "rejected"} => n = 0
        /\ end \in Alive => n < book[o].total
        /\ end = "filled" => n = book[o].total
    BY <1>5 DEF Alive
  <2>2. ASSUME NEW p \in Orders
        PROVE  /\ book'[p].state \in {"none", "rejected"} => book'[p].dealt = 0
               /\ book'[p].dealt <= book'[p].total
               /\ book'[p].state \in Alive => book'[p].dealt < book'[p].total
               /\ book'[p].state = "filled" => book'[p].dealt = book'[p].total
    <3>1. CASE p = o
      BY <1>4, <1>7, <2>1, <3>1
    <3>2. CASE p # o
      BY <1>4, <3>2 DEF ExecInv, BookOrderly
    <3> QED BY <3>1, <3>2
  <2> QED BY <2>2 DEF BookOrderly
<1>12. ReportsTrue'
  <2>1. \A p \in Orders : applied[p] \subseteq 1..book'[p].dealt
    <3>1. \A p \in Orders : applied[p] \subseteq 1..book[p].dealt
      BY DEF ExecInv, ReportsTrue
    <3>2. 1..book[o].dealt \subseteq 1..n
      BY <1>5, <1>7
    <3> QED BY <1>4, <3>1, <3>2
  <2>2. ASSUME NEW i \in DOMAIN queue'
        PROVE  LET b == book'[queue'[i].order]
               IN IF queue'[i].kind = "trade" THEN queue'[i].trade \in 1..b.dealt
                  ELSE b.state = queue'[i].kind
    <3>1. CASE queue'[i] = r
      <4>1. CASE r.kind = "trade"
        <5>1. r.trade = n /\ n \in 1..n
          BY <1>5, <4>1
        <5> QED BY <1>4, <3>1, <4>1, <5>1
      <4>2. CASE r.kind # "trade"
        BY <1>4, <3>1, <4>2
      <4> QED BY <4>1, <4>2
    <3>2. CASE i \in DOMAIN queue /\ queue'[i] = queue[i]
      <4>1. /\ queue[i].order \in Orders
            /\ queue[i].kind \in {"trade", "canceled", "rejected"} /\ queue[i].trade \in Nat
        BY <1>2, <3>2, QueuedAreReports
      <4>2. CASE queue[i].order = o
        <5>1. queue[i].kind = "trade" /\ queue[i].trade \in 1..book[o].dealt
          BY <3>2, <4>1, <4>2 DEF ExecInv, ReportsTrue, Alive
        <5>2. queue[i].trade \in 1..n
          BY <1>5, <1>7, <5>1
        <5> QED BY <1>4, <3>2, <4>2, <5>1, <5>2
      <4>3. CASE queue[i].order # o
        <5>1. book'[queue[i].order] = book[queue[i].order]
          BY <1>4, <4>1, <4>3
        <5>2. IF queue[i].kind = "trade" THEN queue[i].trade \in 1..book[queue[i].order].dealt
              ELSE book[queue[i].order].state = queue[i].kind
          BY <3>2 DEF ExecInv, ReportsTrue
        <5> QED BY <3>2, <5>1, <5>2
      <4> QED BY <4>2, <4>3
    <3> QED BY <1>3, <3>1, <3>2
  <2> QED BY <1>1, <2>1, <2>2 DEF ReportsTrue
<1>13. Matched'
  BY <1>1, <1>4 DEF ExecInv, Matched
<1>14. VerdictsAreTrue'
  BY <1>1, <1>4 DEF ExecInv, VerdictsAreTrue, Alive
<1>15. TradesAccounted'
  <2>1. unheard \subseteq unheard'
    OBVIOUS
  <2>2. \A p \in Orders : \A k \in Nat : Queued(p, k) => Queued(p, k)'
    BY <1>3 DEF Queued
  <2>3. ASSUME NEW p \in Orders \ unanswered, known[p], NEW k \in 1..book'[p].dealt
        PROVE  k \in applied[p] \/ Queued(p, k)' \/ <<p, k>> \in unheard'
    <3>1. CASE k \in 1..book[p].dealt
      <4>1. k \in Nat
        BY <3>1, <1>1 DEF ExecTypeOK
      <4> QED BY <2>1, <2>2, <2>3, <3>1, <4>1 DEF ExecInv, TradesAccounted
    <3>2. CASE k \notin 1..book[p].dealt
      <4>1. p = o
        BY <1>4, <2>3, <3>2
      <4>2. k = n /\ n = book[o].dealt + 1
        BY <1>4, <1>5, <2>3, <3>2, <4>1
      <4>3. r.kind = "trade" /\ r.trade = n
        BY <1>5, <4>2
      <4>4. r = Report(o, "trade", n)
        BY <4>3 DEF Reports, Report
      <4>5. CASE listening
        BY <1>3, <4>1, <4>2, <4>4, <4>5 DEF Queued
      <4>6. CASE ~listening
        BY <4>1, <4>2, <4>3, <4>6
      <4> QED BY <4>5, <4>6
    <3> QED BY <3>1, <3>2
  <2> QED BY <1>1, <2>3 DEF TradesAccounted
<1> QED BY <1>8, <1>10, <1>11, <1>12, <1>13, <1>14, <1>15 DEF ExecInv

LEMMA VenueSteps ==
  ASSUME ExecInv, NEW o \in Orders,
         VenueFills(o) \/ \E end \in {"canceled", "rejected"} : VenueEnds(o, end)
  PROVE  ExecInv'
<1>1. book[o].dealt \in Nat /\ book[o].total \in Nat /\ book[o].state \in States
      /\ book = [p \in Orders |-> [state |-> book[p].state, dealt |-> book[p].dealt,
                                  total |-> book[p].total, account |-> book[p].account]]
  BY DEF ExecInv, ExecTypeOK
<1>2. CASE VenueFills(o)
  <2> DEFINE n == book[o].dealt + 1
             end == IF n = book[o].total THEN "filled" ELSE book[o].state
             r == Report(o, "trade", n)
  <2>1. /\ r \in Reports /\ r.order = o /\ r.kind = "trade" /\ r.trade = n
        /\ n \in Nat /\ end \in States
    BY <1>1 DEF Report, Reports, States
  <2>2. /\ book[o].state \in Alive /\ Push(r)
        /\ unheard' = IF listening THEN unheard ELSE unheard \cup {<<o, n>>}
        /\ UNCHANGED <<engine, todo, commands, unanswered>>
    BY <1>2 DEF VenueFills
  <2>3. book' = [book EXCEPT ![o].dealt = n, ![o].state = end]
    BY <1>1, <1>2 DEF VenueFills
  <2> QED BY <2>1, <2>2, <2>3, VenueStep
<1>3. ASSUME NEW end \in {"canceled", "rejected"}, VenueEnds(o, end) PROVE ExecInv'
  <2> DEFINE r == Report(o, end, 0)
  <2>1. /\ r \in Reports /\ r.order = o /\ r.kind = end /\ r.trade = 0 /\ end \in States
    BY DEF Report, Reports, States
  <2>2. /\ book[o].state \in Alive /\ Push(r)
        /\ end = "rejected" => book[o].dealt = 0
        /\ unheard' = IF listening THEN unheard ELSE unheard \cup {<<o, 0>>}
        /\ UNCHANGED <<engine, todo, commands, unanswered>>
    BY <1>3 DEF VenueEnds
  <2>3. book' = [book EXCEPT ![o].dealt = book[o].dealt, ![o].state = end]
    BY <1>1, <1>3 DEF VenueEnds
  <2> QED BY <1>1, <2>1, <2>2, <2>3, VenueStep
<1> QED BY <1>2, <1>3

\* What the engine applies of an order the venue has more of: the step adds trades of
\* the venue to what is applied, and the status says how many there are now.
LEMMA AppliedStep ==
  ASSUME ExecInv, NEW o \in Orders, NEW now \in SUBSET (1..book[o].dealt), TakesTrades(o, now),
         applied[o] \subseteq now, now # {},
         applied' = [applied EXCEPT ![o] = now],
         NEW s \in Statuses,
         s = "filled" <=> Cardinality(now) = total[o],
         s \in {"filled", "accepted"} \/ (s = "canceled" /\ book[o].state = "canceled"),
         status' = [status EXCEPT ![o] = s],
         UNCHANGED <<total, known, todo, commands, book, unanswered>>
  PROVE  /\ applied' \in [Orders -> SUBSET (Nat \ {0})] /\ status' \in [Orders -> Statuses]
         /\ SentOnce' /\ Matched' /\ VerdictsAreTrue'
         /\ \A p \in Orders : applied[p] \subseteq applied'[p] /\ applied'[p] \subseteq 1..book[p].dealt
<1>1. ExecTypeOK
  BY DEF ExecInv
<1>2. /\ applied'[o] = now /\ status'[o] = s
      /\ \A p \in Orders \ {o} : applied'[p] = applied[p] /\ status'[p] = status[p]
  BY <1>1 DEF ExecTypeOK
<1>3. now \subseteq Nat \ {0}
  BY <1>1 DEF ExecTypeOK
<1>4. applied' \in [Orders -> SUBSET (Nat \ {0})] /\ status' \in [Orders -> Statuses]
  BY <1>1, <1>3 DEF ExecTypeOK
<1>5. known[o] /\ now \in SUBSET (1..total[o]) /\ total[o] \in Nat /\ status[o] \in {"accepted", "canceled"}
  BY <1>1 DEF TakesTrades, ExecTypeOK
<1>6. s = "filled" => now = 1..total[o]
  BY <1>5, TradesCounted
<1>7. book[o].state \notin {"none", "rejected"}
  <2>1. book[o].dealt # 0
    <3>1. PICK n \in now : TRUE
      OBVIOUS
    <3>2. n \in 1..book[o].dealt
      OBVIOUS
    <3> QED BY <3>2
  <2> QED BY <2>1 DEF ExecInv, BookOrderly
<1>8. SentOnce'
  <2>1. \A p \in Orders : ToSend(p)' <=> ToSend(p)
    BY DEF ToSend
  <2>2. \A p \in Orders : status'[p] = "initialized" <=> status[p] = "initialized"
    BY <1>2, <1>5
  <2>3. \A p \in Orders : ToSend(p)' => status'[p] = "initialized"
    BY <2>1, <2>2 DEF ExecInv, SentOnce
  <2>4. \A p \in Orders : status'[p] = "initialized" =>
          book'[p].state = "none" /\ applied'[p] = {} /\ ~known'[p]
    BY <1>2, <1>5, <2>2 DEF ExecInv, SentOnce
  <2>5. \A q, t \in Submissions : \A i \in DOMAIN todo'[q], j \in DOMAIN todo'[t] :
          todo'[q][i] = todo'[t][j] => q = t /\ i = j
    BY DEF ExecInv, SentOnce
  <2> QED BY <2>3, <2>4, <2>5 DEF SentOnce
<1>9. Matched'
  BY <1>2, <1>6 DEF ExecInv, Matched
<1>10. VerdictsAreTrue'
  BY <1>2, <1>7 DEF ExecInv, VerdictsAreTrue, OpenStatus
<1>11. \A p \in Orders : applied[p] \subseteq applied'[p] /\ applied'[p] \subseteq 1..book[p].dealt
  BY <1>2 DEF ExecInv, ReportsTrue
<1> QED BY <1>4, <1>8, <1>9, <1>10, <1>11

\* The end of an order reaches the engine: closed, if it is open and matched.
LEMMA ClosedStep ==
  ASSUME ExecInv, NEW o \in Orders, NEW end \in States,
         book[o].state = end,
         status' = [status EXCEPT ![o] = Closed(o, end, @)],
         UNCHANGED <<applied, total, known, todo, commands, book, unanswered>>
  PROVE  /\ applied' \in [Orders -> SUBSET (Nat \ {0})] /\ status' \in [Orders -> Statuses]
         /\ SentOnce' /\ Matched' /\ VerdictsAreTrue'
<1>1. ExecTypeOK
  BY DEF ExecInv
<1>2. \/ status' = status
      \/ /\ status[o] \in OpenStatus /\ known[o] /\ end \in {"canceled", "rejected"}
         /\ status' = [status EXCEPT ![o] = end]
  BY <1>1 DEF ExecTypeOK, Closed
<1>3. CASE status' = status
  BY <1>1, <1>3 DEF ExecInv, ExecTypeOK, SentOnce, ToSend, Matched, VerdictsAreTrue
<1>4. CASE /\ status[o] \in OpenStatus /\ known[o] /\ end \in {"canceled", "rejected"}
           /\ status' = [status EXCEPT ![o] = end]
  <2>1. status'[o] = end /\ \A p \in Orders \ {o} : status'[p] = status[p]
    BY <1>1, <1>4 DEF ExecTypeOK
  <2>2. status' \in [Orders -> Statuses]
    BY <1>1, <1>4 DEF ExecTypeOK, Statuses
  <2>3. \A p \in Orders : status'[p] = "initialized" <=> status[p] = "initialized"
    BY <1>4, <2>1 DEF OpenStatus
  <2>4. SentOnce'
    BY <2>3 DEF ExecInv, SentOnce, ToSend
  <2>5. Matched'
    BY <1>4, <2>1 DEF ExecInv, Matched
  <2>6. VerdictsAreTrue'
    BY <1>4, <2>1 DEF ExecInv, VerdictsAreTrue, OpenStatus
  <2> QED BY <1>1, <2>2, <2>4, <2>5, <2>6 DEF ExecTypeOK
<1> QED BY <1>2, <1>3, <1>4

\* What one item leaves in a queue.
LEMMA TakenFromQueue ==
  ASSUME NEW S, NEW q \in Seq(S), q # <<>>
  PROVE  /\ Tail(q) \in Seq(S) /\ Head(q) \in S /\ 1 \in DOMAIN q /\ Head(q) = q[1]
         /\ \A i \in DOMAIN Tail(q) : i + 1 \in DOMAIN q /\ Tail(q)[i] = q[i + 1]
         /\ \A i \in DOMAIN q : q[i] = Head(q) \/ \E j \in DOMAIN Tail(q) : Tail(q)[j] = q[i]
<1>1. Tail(q) \in Seq(S) /\ Len(Tail(q)) = Len(q) - 1 /\ Head(q) = q[1] /\ Head(q) \in S
  <2>1. Tail(q) \in Seq(S) /\ Len(Tail(q)) = Len(q) - 1 /\ Head(q) \in S
    BY HeadTailProperties
  <2>2. Head(q) = q[1]
    OBVIOUS
  <2> QED BY <2>1, <2>2
<1>2. \A i \in 1..Len(Tail(q)) : Tail(q)[i] = q[i + 1]
  BY HeadTailProperties
<1>3. DOMAIN q = 1..Len(q) /\ DOMAIN Tail(q) = 1..Len(Tail(q))
  BY <1>1
<1>4. Len(q) \in Nat /\ Len(q) # 0
  OBVIOUS
<1>5. \A n \in Nat \ {0} : /\ 1 \in 1..n
                           /\ \A i \in 1..(n - 1) : i + 1 \in 1..n
                           /\ \A i \in 1..n : i = 1 \/ (i - 1 \in 1..(n - 1) /\ (i - 1) + 1 = i)
  OBVIOUS
<1>6. 1 \in DOMAIN q /\ \A i \in DOMAIN Tail(q) : i + 1 \in DOMAIN q
  BY <1>1, <1>3, <1>4, <1>5
<1>7. ASSUME NEW i \in DOMAIN q, i # 1 PROVE \E j \in DOMAIN Tail(q) : Tail(q)[j] = q[i]
  <2>1. i - 1 \in DOMAIN Tail(q) /\ (i - 1) + 1 = i
    BY <1>1, <1>3, <1>4, <1>5, <1>7
  <2>2. Tail(q)[i - 1] = q[(i - 1) + 1]
    BY <1>2, <1>3, <2>1
  <2> QED BY <2>1, <2>2
<1>8. \A i \in DOMAIN Tail(q) : Tail(q)[i] = q[i + 1]
  BY <1>2, <1>3
<1>9. \A i \in DOMAIN q : q[i] = Head(q) \/ \E j \in DOMAIN Tail(q) : Tail(q)[j] = q[i]
  BY <1>1, <1>7
<1> QED BY <1>1, <1>6, <1>8, <1>9

\* The push loop takes an item.
LEMMA RunPushStep ==
  ASSUME ExecInv, RunPush
  PROVE  ExecInv'
<1> DEFINE r == Head(queue)
           o == r.order
           now == applied[o] \cup {r.trade}
<1>1. /\ queue # <<>> /\ queue' = Tail(queue)
      /\ UNCHANGED <<total, known, todo, commands, book, unheard, unanswered>>
      /\ IF r.kind = "trade" THEN ApplyTrade(o, r.trade) ELSE ApplyEnd(o, r.kind)
  BY DEF RunPush
<1>2. ExecTypeOK /\ queue \in Seq(Reports)
  BY DEF ExecInv, ExecTypeOK
<1>3. /\ queue' \in Seq(Reports) /\ r \in Reports /\ 1 \in DOMAIN queue /\ r = queue[1]
      /\ \A i \in DOMAIN queue' : i + 1 \in DOMAIN queue /\ queue'[i] = queue[i + 1]
      /\ \A i \in DOMAIN queue : queue[i] = r \/ \E j \in DOMAIN queue' : queue'[j] = queue[i]
  BY <1>1, <1>2, TakenFromQueue, Zenon
<1>4. o \in Orders /\ r.kind \in {"trade", "canceled", "rejected"} /\ r.trade \in Nat
  BY <1>3 DEF Reports
<1>5. /\ r.kind = "trade" => r.trade \in 1..book[o].dealt
      /\ r.kind # "trade" => book[o].state = r.kind
  BY <1>3 DEF ExecInv, ReportsTrue
\* What is applied, closed or left alone keeps the parts about the orders.
<1> DEFINE OrdersPart ==
      /\ applied' \in [Orders -> SUBSET (Nat \ {0})] /\ status' \in [Orders -> Statuses]
      /\ SentOnce' /\ Matched' /\ VerdictsAreTrue'
      /\ \A p \in Orders : applied[p] \subseteq applied'[p] /\ applied'[p] \subseteq 1..book[p].dealt
      /\ r.kind = "trade" /\ known[o] /\ o \notin unanswered => r.trade \in applied'[o]
<1>6. ASSUME r.kind = "trade" /\ r.trade \notin applied[o] /\ TakesTrades(o, now)
      PROVE  OrdersPart
  <2>1. /\ applied' = [applied EXCEPT ![o] = now]
        /\ status' = [status EXCEPT ![o] = Filled(o, now)]
    BY <1>1, <1>6 DEF ApplyTrade
  <2>2. now \in SUBSET (1..book[o].dealt) /\ now # {} /\ applied[o] \subseteq now
    BY <1>4, <1>5, <1>6 DEF ExecInv, ReportsTrue
  <2>3. /\ Filled(o, now) \in Statuses
        /\ Filled(o, now) = "filled" <=> Cardinality(now) = total[o]
        /\ Filled(o, now) \in {"filled", "accepted"}
    BY DEF Filled, Statuses
  <2>4. /\ applied' \in [Orders -> SUBSET (Nat \ {0})] /\ status' \in [Orders -> Statuses]
        /\ SentOnce' /\ Matched' /\ VerdictsAreTrue'
        /\ \A p \in Orders : applied[p] \subseteq applied'[p] /\ applied'[p] \subseteq 1..book[p].dealt
    <3> HIDE DEF o, now
    <3> QED BY <1>1, <1>4, <1>6, <2>1, <2>2, <2>3, AppliedStep
  <2>5. r.trade \in applied'[o]
    BY <1>2, <1>4, <2>1 DEF ExecTypeOK
  <2> QED BY <2>4, <2>5, Zenon
<1>7. ASSUME r.kind = "trade" /\ ~(r.trade \notin applied[o] /\ TakesTrades(o, now))
      PROVE  OrdersPart
  <2>1. UNCHANGED <<applied, status>>
    BY <1>1, <1>7 DEF ApplyTrade
  <2>2. SentOnce' /\ Matched' /\ VerdictsAreTrue'
    BY <1>1, <2>1 DEF ExecInv, SentOnce, ToSend, Matched, VerdictsAreTrue
  <2>3. \A p \in Orders : applied[p] \subseteq 1..book[p].dealt
    BY DEF ExecInv, ReportsTrue
  <2>4. ASSUME known[o], o \notin unanswered, r.trade \notin applied[o] PROVE FALSE
    <3>1. status[o] \in {"accepted", "canceled"} /\ book[o].dealt <= total[o]
      BY <1>4, <1>5, <1>7, <2>4, StillTakes
    <3>2. book[o].dealt \in Nat /\ total[o] \in Nat
      BY <1>2, <1>4 DEF ExecTypeOK
    <3>3. now \subseteq 1..book[o].dealt
      BY <1>4, <1>5, <1>7, <2>3
    <3>4. now \subseteq 1..total[o]
      BY <3>1, <3>2, <3>3
    <3> QED BY <1>7, <2>4, <3>1, <3>4 DEF TakesTrades
  <2>5. /\ applied' \in [Orders -> SUBSET (Nat \ {0})] /\ status' \in [Orders -> Statuses]
        /\ \A p \in Orders : applied[p] \subseteq applied'[p] /\ applied'[p] \subseteq 1..book[p].dealt
        /\ known[o] /\ o \notin unanswered => r.trade \in applied'[o]
    BY <1>2, <2>1, <2>3, <2>4 DEF ExecTypeOK
  <2> QED BY <2>2, <2>5, Zenon
<1>8. ASSUME r.kind # "trade"
      PROVE  OrdersPart
  <2>1. UNCHANGED applied /\ status' = [status EXCEPT ![o] = Closed(o, r.kind, @)]
    BY <1>1, <1>8 DEF ApplyEnd
  <2>2. r.kind \in States /\ book[o].state = r.kind
    BY <1>4, <1>5, <1>8 DEF States
  <2>3. /\ applied' \in [Orders -> SUBSET (Nat \ {0})] /\ status' \in [Orders -> Statuses]
        /\ SentOnce' /\ Matched' /\ VerdictsAreTrue'
    <3> HIDE DEF o, now
    <3> QED BY <1>1, <1>4, <2>1, <2>2, ClosedStep
  <2>4. \A p \in Orders : applied[p] \subseteq applied'[p] /\ applied'[p] \subseteq 1..book[p].dealt
    BY <2>1 DEF ExecInv, ReportsTrue
  <2> QED BY <1>8, <2>3, <2>4, Zenon
<1>9. OrdersPart
  BY <1>6, <1>7, <1>8, Zenon
<1>10. ExecTypeOK'
  BY <1>1, <1>2, <1>3, <1>9 DEF ExecTypeOK
<1>11. BookOrderly'
  BY <1>1 DEF ExecInv, BookOrderly
<1>12. ReportsTrue'
  <2>1. \A p \in Orders : applied'[p] \subseteq 1..book'[p].dealt
    BY <1>1, <1>9
  <2>2. ASSUME NEW i \in DOMAIN queue'
        PROVE  LET b == book'[queue'[i].order]
               IN IF queue'[i].kind = "trade" THEN queue'[i].trade \in 1..b.dealt
                  ELSE b.state = queue'[i].kind
    <3>1. i + 1 \in DOMAIN queue /\ queue'[i] = queue[i + 1] /\ book' = book
      BY <1>1, <1>3
    <3>2. IF queue[i + 1].kind = "trade" THEN queue[i + 1].trade \in 1..book[queue[i + 1].order].dealt
          ELSE book[queue[i + 1].order].state = queue[i + 1].kind
      BY <3>1 DEF ExecInv, ReportsTrue
    <3> QED BY <3>1, <3>2
  <2> QED BY <2>1, <2>2 DEF ReportsTrue
<1>13. TradesAccounted'
  <2>1. ASSUME NEW p \in Orders \ unanswered, known[p], NEW n \in 1..book[p].dealt
        PROVE  n \in applied'[p] \/ Queued(p, n)' \/ <<p, n>> \in unheard
    <3>1. n \in applied[p] \/ Queued(p, n) \/ <<p, n>> \in unheard
      BY <2>1 DEF ExecInv, TradesAccounted
    <3>2. ASSUME Queued(p, n) PROVE n \in applied'[p] \/ Queued(p, n)'
      <4>1. PICK i \in 1..Len(queue) : queue[i] = Report(p, "trade", n)
        BY <3>2 DEF Queued
      <4>2. i \in DOMAIN queue
        BY <1>2, <4>1
      <4>3. CASE queue[i] = r
        <5>1. r = Report(p, "trade", n)
          BY <4>1, <4>3
        <5>2. r.kind = "trade" /\ o = p /\ r.trade = n
          BY <5>1 DEF Report
        <5> QED BY <1>9, <2>1, <5>2
      <4>4. CASE \E j \in DOMAIN queue' : queue'[j] = queue[i]
        <5>1. DOMAIN queue' = 1..Len(queue')
          BY <1>3
        <5> QED BY <4>1, <4>4, <5>1 DEF Queued
      <4> QED BY <1>3, <4>2, <4>3, <4>4
    <3>3. applied[p] \subseteq applied'[p]
      BY <1>9
    <3> QED BY <3>1, <3>2, <3>3
  <2> QED BY <1>1, <2>1 DEF TradesAccounted
<1> QED BY <1>9, <1>10, <1>11, <1>12, <1>13 DEF ExecInv

\* The engine reconciles an order with the reports it asked for.
LEMMA ReconcileStep ==
  ASSUME ExecInv, NEW o \in Orders, Reconcile(o)
  PROVE  ExecInv'
<1> DEFINE b == book[o]
           now == applied[o] \cup FillReports(o)
<1>1. /\ known[o]
      /\ UNCHANGED <<total, known, todo, commands, book, queue, unanswered>>
      /\ unheard' = {u \in unheard : u[1] # o}
  BY DEF Reconcile, session, counters
<1>2. ExecTypeOK
  BY DEF ExecInv
<1>3. b.state \in States /\ b.dealt \in Nat /\ total[o] \in Nat /\ now = 1..b.dealt
  BY <1>2 DEF ExecInv, ReportsTrue, ExecTypeOK, FillReports
<1> DEFINE OrdersPart ==
      /\ applied' \in [Orders -> SUBSET (Nat \ {0})] /\ status' \in [Orders -> Statuses]
      /\ SentOnce' /\ Matched' /\ VerdictsAreTrue'
      /\ \A p \in Orders : applied[p] \subseteq applied'[p] /\ applied'[p] \subseteq 1..book[p].dealt
      /\ o \notin unanswered => applied'[o] = now
<1>4. ASSUME now = applied[o] \/ ~TakesTrades(o, now)
      PROVE  OrdersPart
  <2>1. UNCHANGED applied /\ status' = [status EXCEPT ![o] = Closed(o, b.state, @)]
    BY <1>4 DEF Reconcile
  <2>2. /\ applied' \in [Orders -> SUBSET (Nat \ {0})] /\ status' \in [Orders -> Statuses]
        /\ SentOnce' /\ Matched' /\ VerdictsAreTrue'
    BY <1>1, <1>3, <2>1, ClosedStep
  <2>3. ASSUME o \notin unanswered, now # applied[o] PROVE FALSE
    <3>1. PICK n \in 1..b.dealt : n \notin applied[o]
      BY <1>3, <2>3 DEF ExecInv, ReportsTrue
    <3>2. status[o] \in {"accepted", "canceled"} /\ b.dealt <= total[o]
      BY <1>1, <2>3, <3>1, StillTakes
    <3>3. now \subseteq 1..total[o]
      BY <1>3, <3>2
    <3> QED BY <1>1, <1>4, <2>3, <3>2, <3>3 DEF TakesTrades
  <2>4. /\ \A p \in Orders : applied[p] \subseteq applied'[p] /\ applied'[p] \subseteq 1..book[p].dealt
        /\ o \notin unanswered => applied'[o] = now
    BY <2>1, <2>3 DEF ExecInv, ReportsTrue
  <2> QED BY <2>2, <2>4, Zenon
<1>5. ASSUME now # applied[o] /\ TakesTrades(o, now)
      PROVE  OrdersPart
  <2> DEFINE s == Closed(o, b.state, Filled(o, now))
  <2>1. applied' = [applied EXCEPT ![o] = now] /\ status' = [status EXCEPT ![o] = s]
    BY <1>5 DEF Reconcile
  <2>2. now \in SUBSET (1..book[o].dealt) /\ now # {} /\ applied[o] \subseteq now
    BY <1>3, <1>5 DEF ExecInv, ReportsTrue
  <2>3. b.state # "rejected"
    <3>1. b.dealt # 0
      BY <1>3, <2>2
    <3> QED BY <3>1 DEF ExecInv, BookOrderly
  <2>4. /\ s \in Statuses /\ (s = "filled" <=> Cardinality(now) = total[o])
        /\ s \in {"filled", "accepted"} \/ (s = "canceled" /\ book[o].state = "canceled")
    BY <1>1, <2>3 DEF Filled, Closed, Statuses, OpenStatus
  <2>5. /\ applied' \in [Orders -> SUBSET (Nat \ {0})] /\ status' \in [Orders -> Statuses]
        /\ SentOnce' /\ Matched' /\ VerdictsAreTrue'
        /\ \A p \in Orders : applied[p] \subseteq applied'[p] /\ applied'[p] \subseteq 1..book[p].dealt
    <3> HIDE DEF now, s, b
    <3> QED BY <1>1, <1>5, <2>1, <2>2, <2>4, AppliedStep
  <2>6. applied'[o] = now
    BY <1>2, <2>1 DEF ExecTypeOK
  <2> QED BY <2>5, <2>6, Zenon
<1>6. OrdersPart
  BY <1>4, <1>5, Zenon
<1>7. ExecTypeOK'
  BY <1>1, <1>2, <1>6 DEF ExecTypeOK
<1>8. BookOrderly'
  BY <1>1 DEF ExecInv, BookOrderly
<1>9. ReportsTrue'
  BY <1>1, <1>6 DEF ExecInv, ReportsTrue
<1>10. TradesAccounted'
  <2>1. ASSUME NEW p \in Orders \ unanswered, known[p], NEW n \in 1..book[p].dealt
        PROVE  n \in applied'[p] \/ Queued(p, n) \/ <<p, n>> \in unheard'
    <3>1. CASE p = o
      BY <1>3, <1>6, <2>1, <3>1
    <3>2. CASE p # o
      <4>1. n \in applied[p] \/ Queued(p, n) \/ <<p, n>> \in unheard
        BY <2>1 DEF ExecInv, TradesAccounted
      <4>2. <<p, n>>[1] = p
        OBVIOUS
      <4> QED BY <1>1, <1>6, <3>2, <4>1, <4>2
    <3> QED BY <3>1, <3>2
  <2>2. \A p \in Orders : \A n \in Nat : Queued(p, n)' <=> Queued(p, n)
    BY <1>1 DEF Queued
  <2>3. \A p \in Orders : \A n \in 1..book[p].dealt : n \in Nat
    BY <1>2 DEF ExecTypeOK
  <2> QED BY <1>1, <2>1, <2>2, <2>3 DEF TradesAccounted
<1> QED BY <1>6, <1>7, <1>8, <1>9, <1>10 DEF ExecInv

LEMMA ExecNext ==
  ASSUME ExecInv, [Next]_vars
  PROVE  ExecInv'
<1>1. commands \subseteq Command
  BY DEF ExecInv, ExecTypeOK
<1>2. CASE UNCHANGED vars
  BY <1>1, <1>2, UnrelatedStep DEF vars
<1>3. CASE Connect \/ Disconnect \/ SessionDrops
  BY <1>1, <1>3, UnrelatedStep DEF Connect, Disconnect, SessionDrops, engine
<1>4. CASE RunPush
  BY <1>4, RunPushStep
<1>5. ASSUME NEW s \in Submissions, Start(s) \/ SubmitRaises(s) PROVE ExecInv'
  <2>1. CASE Start(s)
    BY <1>1, <2>1, UnrelatedStep DEF Start, engine
  <2> QED BY <1>1, <1>5, <2>1, RaiseStep
<1>6. ASSUME NEW s \in Submissions, NEW o \in Orders,
             \/ SubmitRejected(s, o) \/ SubmitAccepted(s, o)
             \/ SubmitUnnumbered(s, o) \/ SubmitUnanswered(s, o)
      PROVE  ExecInv'
  BY <1>6, SendSteps
<1>7. ASSUME NEW c \in Command, Give(c) \/ CommandRefused(c) PROVE ExecInv'
  <2>1. commands' \subseteq Command
    BY <1>1, <1>7 DEF Give, CommandRefused, Running
  <2> QED BY <1>7, <2>1, UnrelatedStep DEF Give, CommandRefused, Running, engine
<1>8. ASSUME NEW c \in Command, RunCommand(c) \/ CommandUnanswered(c) PROVE ExecInv'
  BY <1>8, CommandSteps
<1>9. ASSUME NEW o \in Orders, VenueFills(o) \/ \E end \in {"canceled", "rejected"} : VenueEnds(o, end)
      PROVE  ExecInv'
  BY <1>9, VenueSteps
<1>10. ASSUME NEW o \in Orders, Reconcile(o) PROVE ExecInv'
  BY <1>10, ReconcileStep
<1> QED BY <1>2, <1>3, <1>4, <1>5, <1>6, <1>7, <1>8, <1>9, <1>10 DEF Next

LEMMA ExecInitially ==
  ASSUME Init
  PROVE  ExecInv
<1> USE ExecutionAssumption DEF Init
<1>1. todo \in [Submissions -> Seq(Orders)]
  OBVIOUS
<1>2. ExecTypeOK
  <2>1. MaxQuantity \in Nat \ {0}
    OBVIOUS
  <2>2. book = [o \in Orders |-> [state |-> book[o].state, dealt |-> book[o].dealt,
                                 total |-> book[o].total, account |-> book[o].account]]
    BY DEF NotThere
  <2> QED BY <1>1, <2>1, <2>2 DEF ExecTypeOK, Statuses, States, NotThere
<1>3. SentOnce
  BY DEF SentOnce, ToSend, NotThere
<1>4. BookOrderly /\ ReportsTrue /\ Matched /\ VerdictsAreTrue /\ TradesAccounted
  BY DEF BookOrderly, ReportsTrue, Matched, VerdictsAreTrue, TradesAccounted, NotThere, Alive, OpenStatus
<1> QED BY <1>2, <1>3, <1>4 DEF ExecInv

\* The invariant of the execution client (execution.py).
THEOREM ExecInvariant == Spec => []ExecInv
<1>1. Init => ExecInv
  BY ExecInitially
<1>2. ExecInv /\ [Next]_vars => ExecInv'
  BY ExecNext
<1> QED BY <1>1, <1>2, PTL DEF Spec

\* For any orders and submissions: an order the client reports rejected is not
\* working at the venue, one it reports canceled is not simply working there and one
\* it reports open or filled is there, unless an answer of OpenD was lost.
THEOREM VerdictsHold == Spec => []VerdictsAreTrue
<1>1. ExecInv => VerdictsAreTrue
  BY DEF ExecInv
<1> QED BY <1>1, ExecInvariant, PTL

\* For any orders and any length of the queue: no trade is lost between the SDK's
\* thread and the engine, over disconnects, lost sessions and reconnects.
THEOREM TradesAreKept == Spec => []TradesAccounted
<1>1. ExecInv => TradesAccounted
  BY DEF ExecInv
<1> QED BY <1>1, ExecInvariant, PTL

-----------------------------------------------------------------------------
(* The client implements the order life cycle *)

Filling == [o \in Orders |-> Cardinality(applied[o])]

\* Trades the venue has of an order are applied to it: the life cycle's fill.
LEMMA AppliedFills ==
  ASSUME ExecInv, NEW o \in Orders, NEW now \in SUBSET (1..book[o].dealt), TakesTrades(o, now),
         applied[o] \subseteq now, now # applied[o],
         applied' = [applied EXCEPT ![o] = now],
         NEW s \in {"filled", "accepted", "canceled"},
         s = "filled" <=> Cardinality(now) = total[o],
         status' = [status EXCEPT ![o] = s],
         UNCHANGED total
  PROVE  Lifecycle!CycleNext
<1> DEFINE n == Cardinality(now)
<1>1. ExecTypeOK
  BY DEF ExecInv
<1>2. total[o] \in Nat /\ now \in SUBSET (1..total[o]) /\ status[o] \in {"accepted", "canceled"}
  BY <1>1 DEF ExecTypeOK, TakesTrades
<1>3. IsFiniteSet(now) /\ n \in Nat /\ n <= total[o]
  BY <1>2, TradesCounted
<1>4. Cardinality(applied[o]) \in Nat /\ Cardinality(applied[o]) < n
  <2>1. /\ IsFiniteSet(applied[o])
        /\ Cardinality(applied[o]) <= n /\ n # Cardinality(applied[o])
    BY <1>3, FS_Subset
  <2> QED BY <1>3, <2>1, FS_CardinalityType
<1>5. n \in 1..total[o]
  BY <1>2, <1>3, <1>4
<1>6. Filling' = [Filling EXCEPT ![o] = n]
  BY <1>1 DEF Filling, ExecTypeOK
<1>7. Filling[o] = Cardinality(applied[o])
  BY DEF Filling
<1> HIDE DEF n
<1>8. \E t \in IF n = total[o] THEN {"filled"} ELSE {"accepted", "canceled"} :
        status' = [status EXCEPT ![o] = t]
  BY DEF n
<1>9. Lifecycle!Fill(o, n)
  BY <1>2, <1>3, <1>4, <1>5, <1>6, <1>7, <1>8 DEF Lifecycle!Fill, Filling
<1> QED BY <1>5, <1>9 DEF Lifecycle!CycleNext

\* The end of an order reaches the engine: a rejection of what is unfilled, or a cancel.
LEMMA ClosingIsACycleStep ==
  ASSUME ExecInv, NEW o \in Orders, NEW end \in States, book[o].state = end,
         status' = [status EXCEPT ![o] = Closed(o, end, @)],
         UNCHANGED <<applied, total>>
  PROVE  UNCHANGED <<status, applied, total>> \/ Lifecycle!CycleNext
<1>1. ExecTypeOK
  BY DEF ExecInv
<1>2. \/ status' = status
      \/ status[o] \in OpenStatus /\ end \in {"canceled", "rejected"} /\ status' = [status EXCEPT ![o] = end]
  BY <1>1 DEF ExecTypeOK, Closed
<1>3. UNCHANGED Filling
  BY DEF Filling
<1>4. CASE status[o] \in OpenStatus /\ end = "rejected" /\ status' = [status EXCEPT ![o] = end]
  <2>1. book[o].dealt = 0
    BY <1>4 DEF ExecInv, BookOrderly
  <2>2. applied[o] = {}
    BY <2>1 DEF ExecInv, ReportsTrue
  <2>3. Filling[o] = 0
    BY <2>2, FS_EmptySet DEF Filling
  <2>4. Lifecycle!Reject(o)
    BY <1>3, <1>4, <2>3 DEF Lifecycle!Reject, Lifecycle!Become, Lifecycle!Open, OpenStatus, Filling
  <2> QED BY <2>4 DEF Lifecycle!CycleNext
<1>5. CASE status[o] \in OpenStatus /\ end = "canceled" /\ status' = [status EXCEPT ![o] = end]
  <2>1. Lifecycle!Cancel(o)
    BY <1>3, <1>5 DEF Lifecycle!Cancel, Lifecycle!Become, Lifecycle!Open, OpenStatus, Filling
  <2> QED BY <2>1 DEF Lifecycle!CycleNext
<1> QED BY <1>2, <1>4, <1>5

LEMMA LifecycleStep ==
  ASSUME ExecInv, [Next]_vars
  PROVE  [Lifecycle!CycleNext]_(Lifecycle!cycleVars)
<1>1. ExecTypeOK
  BY DEF ExecInv
<1> DEFINE Idle == UNCHANGED <<status, applied, total>>
<1>2. ASSUME Idle PROVE UNCHANGED Lifecycle!cycleVars
  BY <1>2 DEF Lifecycle!cycleVars
<1>3. CASE UNCHANGED vars \/ Connect \/ Disconnect \/ SessionDrops
  BY <1>2, <1>3 DEF vars, engine, Connect, Disconnect, SessionDrops
<1>4. CASE RunPush
  <2> DEFINE r == Head(queue)
             o == r.order
             now == applied[o] \cup {r.trade}
  <2>1. /\ queue # <<>> /\ UNCHANGED total
        /\ IF r.kind = "trade" THEN ApplyTrade(o, r.trade) ELSE ApplyEnd(o, r.kind)
    BY <1>4 DEF RunPush
  <2>2. queue \in Seq(Reports)
    BY <1>1 DEF ExecTypeOK
  <2>3. r \in Reports /\ 1 \in DOMAIN queue /\ r = queue[1]
    BY <2>1, <2>2, TakenFromQueue, Zenon
  <2>4. o \in Orders /\ r.kind \in {"trade", "canceled", "rejected"} /\ r.trade \in Nat
    BY <2>3 DEF Reports
  <2>5. /\ r.kind = "trade" => r.trade \in 1..book[o].dealt
        /\ r.kind # "trade" => book[o].state = r.kind
    BY <2>3 DEF ExecInv, ReportsTrue
  <2>6. CASE r.kind = "trade" /\ r.trade \notin applied[o] /\ TakesTrades(o, now)
    <3>1. /\ applied' = [applied EXCEPT ![o] = now]
          /\ status' = [status EXCEPT ![o] = Filled(o, now)]
      BY <2>1, <2>6 DEF ApplyTrade
    <3>2. now \in SUBSET (1..book[o].dealt) /\ now # applied[o] /\ applied[o] \subseteq now
      BY <2>4, <2>5, <2>6 DEF ExecInv, ReportsTrue
    <3>3. /\ Filled(o, now) \in {"filled", "accepted", "canceled"}
          /\ Filled(o, now) = "filled" <=> Cardinality(now) = total[o]
      BY DEF Filled
    <3> HIDE DEF o, now
    <3> QED BY <2>1, <2>4, <2>6, <3>1, <3>2, <3>3, AppliedFills
  <2>7. CASE r.kind = "trade" /\ ~(r.trade \notin applied[o] /\ TakesTrades(o, now))
    BY <1>2, <2>1, <2>7 DEF ApplyTrade
  <2>8. CASE r.kind # "trade"
    <3>1. UNCHANGED <<applied, total>> /\ status' = [status EXCEPT ![o] = Closed(o, r.kind, @)]
      BY <2>1, <2>8 DEF ApplyEnd
    <3>2. r.kind \in States /\ book[o].state = r.kind
      BY <2>4, <2>5, <2>8 DEF States
    <3> HIDE DEF o
    <3> QED BY <1>2, <2>4, <3>1, <3>2, ClosingIsACycleStep
  <2> QED BY <2>6, <2>7, <2>8
<1>5. ASSUME NEW s \in Submissions, Start(s) \/ SubmitRaises(s) PROVE Idle
  BY <1>5 DEF Start, SubmitRaises, engine
<1>6. ASSUME NEW s \in Submissions, NEW o \in Orders,
             \/ SubmitRejected(s, o) \/ SubmitAccepted(s, o)
             \/ SubmitUnnumbered(s, o) \/ SubmitUnanswered(s, o)
      PROVE  Lifecycle!CycleNext
  <2>1. status[o] = "initialized" /\ applied[o] = {}
    BY <1>6, SendSteps
  <2>2. Filling[o] = 0
    BY <2>1, FS_EmptySet DEF Filling
  <2>3. UNCHANGED <<Filling, total>>
    BY <1>6 DEF SubmitRejected, SubmitAccepted, SubmitUnnumbered, SubmitUnanswered, Sending, Filling
  <2>4. CASE status' = [status EXCEPT ![o] = "rejected"]
    <3>1. Lifecycle!Reject(o)
      BY <2>1, <2>2, <2>3, <2>4 DEF Lifecycle!Reject, Lifecycle!Become, Filling
    <3> QED BY <3>1 DEF Lifecycle!CycleNext
  <2>5. CASE \E v \in {"submitted", "accepted"} : status' = [status EXCEPT ![o] = v]
    <3>1. Lifecycle!Place(o)
      BY <2>1, <2>3, <2>5 DEF Lifecycle!Place, Lifecycle!Become, Lifecycle!Open, Filling
    <3> QED BY <3>1 DEF Lifecycle!CycleNext
  <2> QED BY <1>6, <2>4, <2>5
          DEF SubmitRejected, SubmitAccepted, SubmitUnnumbered, SubmitUnanswered, Verdict
<1>7. ASSUME NEW c \in Command, Give(c) \/ CommandRefused(c) \/ CommandUnanswered(c) PROVE Idle
  BY <1>7 DEF Give, CommandRefused, CommandUnanswered, Running, engine
<1>8. ASSUME NEW c \in Command, RunCommand(c) PROVE Idle \/ Lifecycle!CycleNext
  <2> DEFINE o == c.order
  <2>1. o \in Orders /\ c.quantity \in Nat
    BY ExecutionAssumption DEF Command
  <2>2. UNCHANGED Filling /\ UNCHANGED applied
    BY <1>8 DEF RunCommand, Running, Filling
  <2>3. CASE status[o] \notin OpenStatus
    BY <1>8, <2>2, <2>3 DEF RunCommand
  <2>4. CASE status[o] \in OpenStatus /\ c.cancel
    <3>1. status' = [status EXCEPT ![o] = "canceled"] /\ UNCHANGED total
      BY <1>8, <2>4 DEF RunCommand, Verdict
    <3>2. Lifecycle!Cancel(o)
      BY <2>2, <2>4, <3>1 DEF Lifecycle!Cancel, Lifecycle!Become, Lifecycle!Open, OpenStatus, Filling
    <3> QED BY <2>1, <3>2 DEF Lifecycle!CycleNext
  <2>5. CASE status[o] \in OpenStatus /\ ~c.cancel
    <3>1. total' = [total EXCEPT ![o] = c.quantity] /\ UNCHANGED status /\ c.quantity > book[o].dealt
      BY <1>8, <2>5 DEF RunCommand, Takes
    <3>2. book[o].dealt \in Nat /\ applied[o] \in SUBSET (1..book[o].dealt) /\ total \in [Orders -> Nat]
      BY <1>1, <2>1 DEF ExecTypeOK, ExecInv, ReportsTrue
    <3>3. Filling[o] \in Nat /\ Filling[o] <= book[o].dealt
      BY <2>1, <3>2, TradesCounted DEF Filling
    <3>4. total' \in [Orders -> Nat] /\ total'[o] = c.quantity
          /\ \A p \in Orders \ {o} : total'[p] = total[p]
      BY <2>1, <3>1, <3>2
    <3>5. total'[o] > Filling[o]
      BY <2>1, <3>1, <3>2, <3>3, <3>4
    <3>6. Lifecycle!Resize(o)
      BY <2>2, <2>5, <3>1, <3>4, <3>5 DEF Lifecycle!Resize, Lifecycle!Open, OpenStatus, Filling
    <3> QED BY <2>1, <3>6 DEF Lifecycle!CycleNext
  <2> QED BY <2>3, <2>4, <2>5
<1>9. ASSUME NEW o \in Orders, VenueFills(o) \/ \E end \in {"canceled", "rejected"} : VenueEnds(o, end)
      PROVE  Idle
  BY <1>9 DEF VenueFills, VenueEnds, engine
<1>10. ASSUME NEW o \in Orders, Reconcile(o) PROVE Idle \/ Lifecycle!CycleNext
  <2> DEFINE b == book[o]
             now == applied[o] \cup FillReports(o)
             s == Closed(o, b.state, Filled(o, now))
  <2>1. /\ b.state \in States /\ b.dealt \in Nat /\ now = 1..b.dealt /\ known[o] /\ UNCHANGED total
    BY <1>1, <1>10 DEF ExecInv, ReportsTrue, ExecTypeOK, FillReports, Reconcile
  <2>2. CASE now = applied[o] \/ ~TakesTrades(o, now)
    <3>1. UNCHANGED applied /\ status' = [status EXCEPT ![o] = Closed(o, b.state, @)]
      BY <1>10, <2>2 DEF Reconcile
    <3> QED BY <2>1, <3>1, ClosingIsACycleStep
  <2>3. CASE now # applied[o] /\ TakesTrades(o, now)
    <3>1. applied' = [applied EXCEPT ![o] = now] /\ status' = [status EXCEPT ![o] = s]
      BY <1>10, <2>3 DEF Reconcile
    <3>2. now \in SUBSET (1..book[o].dealt) /\ now # {} /\ applied[o] \subseteq now
      BY <2>1, <2>3 DEF ExecInv, ReportsTrue
    <3>3. b.state # "rejected"
      <4>1. b.dealt # 0
        BY <2>1, <3>2
      <4> QED BY <4>1 DEF ExecInv, BookOrderly
    <3>4. s \in {"filled", "accepted", "canceled"} /\ (s = "filled" <=> Cardinality(now) = total[o])
      BY <2>1, <3>3 DEF Filled, Closed, OpenStatus
    <3> HIDE DEF now, s, b
    <3> QED BY <2>1, <2>3, <3>1, <3>2, <3>4, AppliedFills
  <2> QED BY <2>2, <2>3
<1> HIDE DEF Idle
<1> QED BY <1>2, <1>3, <1>4, <1>5, <1>6, <1>7, <1>8, <1>9, <1>10 DEF Next

\* For any orders, quantities and commands: the client behaves as the life cycle
\* says, one verdict for each order, fills only after it and within the quantity.
THEOREM LifecycleImplemented == Spec => ImplementsLifecycle
<1>1. Init => Lifecycle!CycleInit
  <2>1. ASSUME Init PROVE Lifecycle!CycleInit
    <3>1. MaxQuantity \in Nat \ {0}
      BY ExecutionAssumption
    <3>2. \A o \in Orders : Cardinality(applied[o]) = 0
      BY <2>1, FS_EmptySet DEF Init
    <3> QED BY <2>1, <3>1, <3>2 DEF Init, Lifecycle!CycleInit
  <2> QED BY <2>1
<1>2. ExecInv /\ [Next]_vars => [Lifecycle!CycleNext]_(Lifecycle!cycleVars)
  BY LifecycleStep
<1> QED BY <1>1, <1>2, ExecInvariant, PTL DEF Spec, ImplementsLifecycle, Lifecycle!CycleSpec

-----------------------------------------------------------------------------
(* The connection cache *)

TypeAndAccount == CacheTypeOK /\ ContextsAccounted

\* Opening another context closes the one that was cached under the key.
LEMMA GetAnewStep ==
  ASSUME TypeAndAccount, NEW t \in Threads, NEW k \in CtxKeys, NEW c \in Contexts, GetAnew(t, k, c)
  PROVE TypeAndAccount'
<1> USE DEF TypeAndAccount, CacheTypeOK
<1>1. /\ ctxState' = [x \in Contexts |-> IF x = c THEN "connecting"
                                         ELSE IF x = cached[k] THEN "closed" ELSE ctxState[x]]
      /\ ctxKey' = [ctxKey EXCEPT ![c] = k] /\ cached' = [cached EXCEPT ![k] = c]
      /\ getter' = [getter EXCEPT ![t] = [at |-> "wait", ctx |-> c]]
      /\ UNCHANGED <<watched, held, notices, closing>>
  BY DEF GetAnew, Replaced
<1>2. CacheTypeOK'
  BY <1>1 DEF CtxStates
<1>3. ContextsAccounted'
  <2> SUFFICES ASSUME NEW d \in Contexts, ctxState'[d] \in Connected
               PROVE cached'[ctxKey'[d]] = d \/ d \in closing'
    BY DEF ContextsAccounted
  <2>1. CASE d = c
    BY <1>1, <2>1
  <2>2. CASE d # c
    <3>1. ctxState[d] \in Connected /\ d # cached[k] /\ ctxKey'[d] = ctxKey[d]
      BY <1>1, <2>2 DEF Connected
    <3>2. cached[ctxKey[d]] = d \/ d \in closing
      BY <3>1 DEF ContextsAccounted
    <3> QED BY <1>1, <3>1, <3>2
  <2> QED BY <2>1, <2>2
<1> QED BY <1>2, <1>3

\* A disconnect takes out what is cached under the key, and leaves it to be closed.
LEMMA OnRecvRspStep ==
  ASSUME TypeAndAccount, NEW c \in Contexts, OnRecvRsp(c)
  PROVE TypeAndAccount'
<1> USE DEF TypeAndAccount, CacheTypeOK
<1>1. /\ notices' = notices \ {c}
      /\ closing' = closing \cup ({cached[ctxKey[c]]} \ {NoContext})
      /\ cached' = [cached EXCEPT ![ctxKey[c]] = NoContext]
      /\ UNCHANGED <<ctxState, ctxKey, watched, getter, held>>
  BY DEF OnRecvRsp, Popped
<1>2. ctxKey[c] \in CtxKeys /\ cached[ctxKey[c]] \in Contexts \cup {NoContext}
  OBVIOUS
<1>3. CacheTypeOK'
  BY <1>1, <1>2
<1>4. ContextsAccounted'
  BY <1>1, <1>2, CacheAssumption DEF ContextsAccounted
<1> QED BY <1>3, <1>4

LEMMA CloseFutuContextsStep ==
  ASSUME TypeAndAccount, CloseFutuContexts
  PROVE TypeAndAccount'
<1> USE DEF TypeAndAccount, CacheTypeOK
<1>1. /\ closing' = closing \cup {cached[k] : k \in {j \in CtxKeys : cached[j] # NoContext}}
      /\ cached' = [k \in CtxKeys |-> NoContext]
      /\ UNCHANGED <<ctxState, ctxKey, watched, getter, held, notices>>
  BY DEF CloseFutuContexts
<1>2. CacheTypeOK'
  BY <1>1
<1>3. ContextsAccounted'
  BY <1>1, CacheAssumption DEF ContextsAccounted
<1> QED BY <1>2, <1>3

LEMMA CacheStep == TypeAndAccount /\ [CacheNext]_cacheVars => TypeAndAccount'
<1> SUFFICES ASSUME TypeAndAccount, [CacheNext]_cacheVars PROVE TypeAndAccount'
  OBVIOUS
<1> USE DEF TypeAndAccount, CacheTypeOK
<1>1. ASSUME NEW t \in Threads, NEW k \in CtxKeys, GetReady(t, k) PROVE TypeAndAccount'
  BY <1>1 DEF GetReady, ContextsAccounted
<1>2. ASSUME NEW t \in Threads, NEW k \in CtxKeys, NEW c \in Contexts, GetAnew(t, k, c) PROVE TypeAndAccount'
  BY <1>2, GetAnewStep
<1>3. ASSUME NEW t \in Threads, Ready(t) PROVE TypeAndAccount'
  <2>1. getter[t] \in [at : {"wait", "watch"}, ctx : Contexts]
    BY <1>3 DEF Ready, Resting
  <2> QED BY <1>3, <2>1 DEF Ready, ContextsAccounted
<1>4. ASSUME NEW t \in Threads, GivesUp(t) PROVE TypeAndAccount'
  BY <1>4 DEF GivesUp, Resting, ContextsAccounted
<1>5. ASSUME NEW t \in Threads, SetHandler(t) PROVE TypeAndAccount'
  <2>1. getter[t].ctx \in Contexts
    BY <1>5 DEF SetHandler, Resting
  <2> QED BY <1>5, <2>1 DEF SetHandler, Resting, ContextsAccounted
<1>6. ASSUME NEW t \in Threads, ClientCloses(t) PROVE TypeAndAccount'
  BY <1>6 DEF ClientCloses, CtxStates, Connected, ContextsAccounted
<1>7. ASSUME NEW c \in Contexts, OnRecvRsp(c) PROVE TypeAndAccount'
  BY <1>7, OnRecvRspStep
<1>8. ASSUME NEW c \in Contexts, CloseContext(c) PROVE TypeAndAccount'
  BY <1>8 DEF CloseContext, CtxStates, Connected, ContextsAccounted
<1>9. ASSUME NEW c \in Contexts, Connects(c) PROVE TypeAndAccount'
  BY <1>9 DEF Connects, CtxStates, Connected, ContextsAccounted
<1>10. ASSUME NEW c \in Contexts, Drops(c) PROVE TypeAndAccount'
  BY <1>10 DEF Drops, CtxStates, Connected, ContextsAccounted
<1>11. CASE CloseFutuContexts
  BY <1>11, CloseFutuContextsStep
<1>12. CASE UNCHANGED cacheVars
  BY <1>12 DEF cacheVars, ContextsAccounted
<1> QED
  BY <1>1, <1>2, <1>3, <1>4, <1>5, <1>6, <1>7, <1>8, <1>9, <1>10, <1>11, <1>12 DEF CacheNext

\* Every context that uses a connection to OpenD is cached under its key or about to be
\* closed: _CACHE_LOCK, the late disconnects and the clients lose none of them.
THEOREM AccountHolds == CacheSpec => []ContextsAccounted
<1>1. CacheInit => TypeAndAccount
  BY CacheAssumption DEF CacheInit, TypeAndAccount, CacheTypeOK, ContextsAccounted, CtxStates, Connected, Resting
<1>2. TypeAndAccount => ContextsAccounted
  BY DEF TypeAndAccount
<1> QED BY <1>1, CacheStep, <1>2, PTL DEF CacheSpec
=============================================================================
