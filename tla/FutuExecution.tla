----------------------------- MODULE FutuExecution -----------------------------
(* The Futu execution client (adapters/futu/execution.py, parsing/orders.py):    *)
(* orders on their way from the engine to OpenD and the reports on their way     *)
(* back.  Submissions, cancels and modifications are tasks on the node's loop    *)
(* that block it while they call OpenD, so each call and the events it emits are *)
(* one step; a submission suspends in the rate limiter before every order.       *)
(* Pushes come from an SDK thread and pass through _queue.  OpenD and the        *)
(* engine's handling of events and reports (Nautilus) are external.              *)
EXTENDS Integers, Sequences, FiniteSets

LOCAL INSTANCE SequencesExt

CONSTANTS
  Orders,
  Submissions,      \* commands: each a sequence of distinct orders, all disjoint
  MaxQuantity,
  VenueOf,          \* per order
  Unmapped,         \* orders whose instrument, side or type Futu has no word for
  Placeholder, NoAccount,
  Configured,       \* FUTU_ACCOUNT_ID or FUTU_PAPER_ACCOUNT_ID, or NoAccount
  Real,             \* trd_env = "REAL"
  Listed,           \* matching accounts of get_acc_list, in order: [id, venues]
  MaxCommands, MaxFaults, MaxDrops    \* bounds

ASSUME ExecutionAssumption ==
  /\ IsFiniteSet(Orders)
  /\ {MaxQuantity, MaxCommands, MaxFaults, MaxDrops} \subseteq Nat /\ MaxQuantity > 0
  /\ Submissions \subseteq Seq(Orders)
  /\ \A s, t \in Submissions : \A i \in DOMAIN s, j \in DOMAIN t :
       s[i] = t[j] => s = t /\ i = j
  /\ Unmapped \subseteq Orders
  /\ Real \in BOOLEAN /\ Placeholder # NoAccount

VARIABLES
  status, applied, total,  \* the engine's view: status, trades applied, quantity
  known,        \* the engine has the venue's id of the order
  todo,         \* per submission: the orders still to send
  started,      \* submissions whose task exists
  commands,     \* cancels and modifications whose task has not run
  book,         \* the venue's view: [state, dealt, total, account]
  ctx,          \* _trade_ctx: "none", "ready" or "lost"
  connected,    \* between _connect and _disconnect
  listening,    \* the push handlers are on the session
  queue,        \* _queue
  account, aliases,        \* _account_id and _venue_account_aliases
  unheard,      \* trades made while no handler was on the session (history)
  unanswered,   \* orders that changed at the venue without an answer (history)
  given, faults, drops     \* counters for the bounds

engine == <<status, applied, total, known>>
session == <<ctx, connected, listening, account, aliases>>
counters == <<given, faults, drops>>
vars == <<status, applied, total, known, todo, started, commands, book, ctx, connected,
          listening, queue, account, aliases, unheard, unanswered, given, faults, drops>>

Venues == {VenueOf[o] : o \in Orders}
OpenStatus == {"submitted", "accepted"}
Alive == {"working", "cancelling"}
Command == [order : Orders, quantity : 0..MaxQuantity, cancel : BOOLEAN]

NotThere == [state |-> "none", dealt |-> 0, total |-> 0, account |-> NoAccount]

Init ==
  /\ status = [o \in Orders |-> "initialized"]
  /\ applied = [o \in Orders |-> {}]
  /\ total = [o \in Orders |-> MaxQuantity]
  /\ known = [o \in Orders |-> FALSE]
  /\ todo = [s \in Submissions |-> s]
  /\ started = {} /\ commands = {}
  /\ book = [o \in Orders |-> NotThere]
  /\ ctx = "none" /\ connected = FALSE /\ listening = FALSE
  /\ queue = <<>>
  /\ account = Placeholder
  /\ aliases = [v \in Venues |-> NoAccount]
  /\ unheard = {} /\ unanswered = {}
  /\ given = 0 /\ faults = 0 /\ drops = 0

-----------------------------------------------------------------------------
(* Accounts *)

\* _register_venue_account_aliases: for a venue the last account counts, and the
\* first account becomes the default unless there is one already.
RegisterAliases(accounts) ==
  /\ aliases' = [v \in Venues |->
       LET authorised == SelectSeq(accounts, LAMBDA a : v \in a.venues)
       IN IF authorised = <<>> THEN aliases[v] ELSE Last(authorised).id]
  /\ account' = IF account = Placeholder THEN Head(accounts).id ELSE account

\* The fallback, and the REAL environment: the configured id, if there is one.
UseConfigured ==
  /\ account' = IF Configured = NoAccount THEN account ELSE Configured
  /\ UNCHANGED aliases

DiscoverAccounts ==
  IF Real \/ Listed = <<>> THEN UseConfigured ELSE UseConfigured \/ RegisterAliases(Listed)

AccountFor(o) == IF aliases[VenueOf[o]] = NoAccount THEN account ELSE aliases[VenueOf[o]]

-----------------------------------------------------------------------------
(* Connection *)

\* A session from the cache, the accounts, then the handlers and the push loop.
\* What was queued before is still there.
Connect ==
  /\ ~connected
  /\ connected' = TRUE /\ ctx' = "ready" /\ listening' = TRUE
  /\ DiscoverAccounts
  /\ UNCHANGED <<engine, todo, started, commands, book, queue, unheard, unanswered, counters>>

\* The push loop ends, the context is let go and the handlers stay on the session.
DisconnectDeaf ==                                        \* mutant: the queue goes too
  /\ connected
  /\ connected' = FALSE /\ ctx' = "none" /\ queue' = <<>>
  /\ UNCHANGED <<engine, todo, started, commands, book, listening, account, aliases,
                 unheard, unanswered, counters>>
Disconnect ==
  /\ connected
  /\ connected' = FALSE /\ ctx' = "none"
  /\ UNCHANGED <<engine, todo, started, commands, book, listening, queue, account, aliases,
                 unheard, unanswered, counters>>

\* The session ends; its handlers are gone with it.
SessionDrops ==
  /\ listening /\ drops < MaxDrops
  /\ drops' = drops + 1
  /\ listening' = FALSE
  /\ ctx' = IF ctx = "ready" THEN "lost" ELSE ctx
  /\ UNCHANGED <<engine, todo, started, commands, book, connected, queue, account, aliases,
                 unheard, unanswered, given, faults>>

-----------------------------------------------------------------------------
(* Submission *)

Start(s) ==
  /\ s \notin started
  /\ started' = started \cup {s}
  /\ UNCHANGED <<engine, todo, commands, book, session, queue, unheard, unanswered, counters>>

\* _submit_order for the next order of s, once the limiter lets it through.
Sending(s, o) ==
  /\ s \in started /\ todo[s] # <<>> /\ o = Head(todo[s]) /\ o \notin Unmapped
  /\ todo' = [todo EXCEPT ![s] = Tail(@)]
  /\ UNCHANGED <<applied, total, started, commands, session, queue, unheard, given, drops>>

Verdict(o, s) == status' = [status EXCEPT ![o] = s]
Stands(o) ==
  book' = [book EXCEPT ![o] = [state |-> "working", dealt |-> 0, total |-> total[o],
                               account |-> AccountFor(o)]]
MayPlace(o) == ctx = "ready" /\ AccountFor(o) # Placeholder

\* No context, a dead one, or OpenD refuses.  The rest of a list is sent all the same.
SubmitRejectedStops(s, o) ==                             \* mutant: the rest is dropped
  /\ s \in started /\ todo[s] # <<>> /\ o = Head(todo[s]) /\ o \notin Unmapped
  /\ todo' = [todo EXCEPT ![s] = <<>>]
  /\ Verdict(o, "rejected")
  /\ UNCHANGED <<applied, total, started, commands, session, queue, unheard, given, drops,
                 known, book, unanswered, faults>>
SubmitRejected(s, o) ==
  /\ Sending(s, o)
  /\ Verdict(o, "rejected")
  /\ UNCHANGED <<known, book, unanswered, faults>>

\* The order is translated before the try: what Futu has no word for raises, and the task
\* of the whole list ends there.  The order stays without a verdict, and so do those
\* behind it, which are never sent.
SubmitRaises(s) ==
  /\ s \in started /\ todo[s] # <<>> /\ Head(todo[s]) \in Unmapped
  /\ todo' = [todo EXCEPT ![s] = <<>>]
  /\ UNCHANGED <<engine, started, commands, book, session, queue, unheard, unanswered, counters>>

\* The answer carries the order's id: submitted and accepted at once.
SubmitAccepted(s, o) ==
  /\ Sending(s, o) /\ MayPlace(o)
  /\ Verdict(o, "accepted")
  /\ known' = [known EXCEPT ![o] = TRUE]
  /\ Stands(o)
  /\ UNCHANGED <<unanswered, faults>>

\* The answer carries no id: submitted only, and nothing will ever match it.
SubmitUnnumbered(s, o) ==
  /\ Sending(s, o) /\ MayPlace(o) /\ faults < MaxFaults
  /\ faults' = faults + 1
  /\ Verdict(o, "submitted")
  /\ Stands(o)
  /\ UNCHANGED <<known, unanswered>>

\* The call raises although OpenD took the order.
SubmitUnanswered(s, o) ==
  /\ Sending(s, o) /\ MayPlace(o) /\ faults < MaxFaults
  /\ faults' = faults + 1
  /\ Verdict(o, "rejected")
  /\ Stands(o)
  /\ unanswered' = unanswered \cup {o}
  /\ UNCHANGED known

-----------------------------------------------------------------------------
(* Cancels and modifications *)

\* The engine commands only open orders; the task runs later.  A quantity of 0
\* stands for a modification that names none.
Give(c) ==
  /\ given < MaxCommands
  /\ status[c.order] \in OpenStatus /\ c \notin commands
  /\ (c.cancel => c.quantity = 0)
  /\ given' = given + 1
  /\ commands' = commands \cup {c}
  /\ UNCHANGED <<engine, todo, started, book, session, queue, unheard, unanswered, faults, drops>>

Running(c) ==
  /\ c \in commands
  /\ commands' = commands \ {c}
  /\ UNCHANGED <<applied, known, todo, started, session, queue, unheard, given, drops>>

Takes(c) ==
  LET b == book[c.order]
  IN /\ ctx = "ready" /\ known[c.order]
     /\ b.state = "working"
     /\ c.cancel \/ c.quantity > b.dealt
AtVenue(c) ==
  book' = [book EXCEPT ![c.order] = IF c.cancel THEN [@ EXCEPT !.state = "cancelling"]
                                    ELSE [@ EXCEPT !.total = c.quantity]]

\* _cancel_order: canceled as soon as OpenD has taken the request.  _modify_order:
\* updated likewise.  The engine drops events an order can no longer take.
RunCommand(c) ==
  /\ Running(c) /\ Takes(c)
  /\ AtVenue(c)
  /\ IF status[c.order] \notin OpenStatus THEN UNCHANGED <<status, total>>
     ELSE IF c.cancel THEN Verdict(c.order, "canceled") /\ UNCHANGED total
     ELSE total' = [total EXCEPT ![c.order] = c.quantity] /\ UNCHANGED status
  /\ UNCHANGED <<unanswered, faults>>

\* Refused, or no context: cancel_rejected or modify_rejected, which change nothing.
CommandRefusedCancels(c) ==                              \* mutant: canceled all the same
  /\ Running(c)
  /\ Verdict(c.order, IF c.cancel /\ status[c.order] \in OpenStatus THEN "canceled"
                      ELSE status[c.order])
  /\ UNCHANGED <<total, book, unanswered, faults>>
CommandRefusedRejects(c) ==                              \* mutant: the order is rejected
  /\ Running(c)
  /\ Verdict(c.order, IF status[c.order] \in OpenStatus THEN "rejected" ELSE status[c.order])
  /\ UNCHANGED <<total, book, unanswered, faults>>
CommandRefused(c) ==
  /\ Running(c)
  /\ UNCHANGED <<status, total, book, unanswered, faults>>

\* The call raises although OpenD took the request.
CommandUnanswered(c) ==
  /\ Running(c) /\ Takes(c) /\ faults < MaxFaults
  /\ faults' = faults + 1
  /\ AtVenue(c)
  /\ unanswered' = unanswered \cup {c.order}
  /\ UNCHANGED <<status, total>>

-----------------------------------------------------------------------------
(* The venue *)

\* Status reports that only repeat what fills or verdicts say are left out.
Report(o, kind, n) == [order |-> o, kind |-> kind, trade |-> n]
Push(r) == queue' = IF listening THEN Append(queue, r) ELSE queue

VenueFills(o) ==
  LET n == book[o].dealt + 1
  IN /\ book[o].state \in Alive
     /\ book' = [book EXCEPT ![o].dealt = n,
                             ![o].state = IF n = book[o].total THEN "filled" ELSE @]
     /\ Push(Report(o, "trade", n))
     /\ unheard' = IF listening THEN unheard ELSE unheard \cup {<<o, n>>}
     /\ UNCHANGED <<engine, todo, started, commands, session, unanswered, counters>>

\* Canceled on request or by the venue itself, or failed.
VenueEnds(o, end) ==
  /\ book[o].state \in Alive
  /\ end = "canceled" \/ (end = "rejected" /\ book[o].dealt = 0 /\ book[o].state = "working")
  /\ book' = [book EXCEPT ![o].state = end]
  /\ Push(Report(o, end, 0))
  /\ unheard' = IF listening THEN unheard ELSE unheard \cup {<<o, 0>>}
  /\ UNCHANGED <<engine, todo, started, commands, session, unanswered, counters>>

-----------------------------------------------------------------------------
(* Reports to the engine *)

\* The engine applies trades it has not seen to orders it can match, opening a
\* canceled order again, and drops what exceeds the quantity.
TakesTrades(o, trades) ==
  known[o] /\ trades \subseteq 1..total[o] /\ status[o] \in {"accepted", "canceled"}
Filled(o, trades) == IF Cardinality(trades) = total[o] THEN "filled" ELSE "accepted"
Closed(o, end, now) ==
  IF known[o] /\ now \in OpenStatus /\ end \in {"canceled", "rejected"} THEN end ELSE now

ApplyTrade(o, n) ==
  LET now == applied[o] \cup {n}
  IN IF n \notin applied[o] /\ TakesTrades(o, now)
     THEN /\ applied' = [applied EXCEPT ![o] = now]
          /\ status' = [status EXCEPT ![o] = Filled(o, now)]
     ELSE UNCHANGED <<applied, status>>
ApplyEnd(o, end) ==
  /\ status' = [status EXCEPT ![o] = Closed(o, end, @)]
  /\ UNCHANGED applied

\* _run_push_loop, one item.
RunPushTradesOnly ==                                     \* mutant: no order reports
  LET r == Head(queue)
  IN /\ connected /\ queue # <<>>
     /\ queue' = Tail(queue)
     /\ IF r.kind = "trade" THEN ApplyTrade(r.order, r.trade) ELSE UNCHANGED <<applied, status>>
     /\ UNCHANGED <<total, known, todo, started, commands, book, session, unheard,
                    unanswered, counters>>
RunPush ==
  LET r == Head(queue)
  IN /\ connected /\ queue # <<>>
     /\ queue' = Tail(queue)
     /\ IF r.kind = "trade" THEN ApplyTrade(r.order, r.trade) ELSE ApplyEnd(r.order, r.kind)
     /\ UNCHANGED <<total, known, todo, started, commands, book, session, unheard,
                    unanswered, counters>>

\* Nautilus asks for the reports of the default account and reconciles each order:
\* its trades, then its end.
FillReports(o) == 1..book[o].dealt

Reconcile(o) ==
  LET b == book[o]
      now == applied[o] \cup FillReports(o)
  IN /\ connected /\ ctx = "ready"
     /\ known[o] /\ b.account = account
     /\ IF now = applied[o] \/ ~TakesTrades(o, now)
        THEN /\ status' = [status EXCEPT ![o] = Closed(o, b.state, @)]
             /\ UNCHANGED applied
        ELSE /\ applied' = [applied EXCEPT ![o] = now]
             /\ status' = [status EXCEPT ![o] = Closed(o, b.state, Filled(o, now))]
     /\ unheard' = {u \in unheard : u[1] # o}
     /\ UNCHANGED <<total, known, todo, started, commands, book, session, queue, unanswered, counters>>

-----------------------------------------------------------------------------

Next ==
  \/ Connect \/ Disconnect \/ SessionDrops \/ RunPush
  \/ \E s \in Submissions :
       \/ Start(s) \/ SubmitRaises(s)
       \/ \E o \in Orders : \/ SubmitRejected(s, o) \/ SubmitAccepted(s, o)
                            \/ SubmitUnnumbered(s, o) \/ SubmitUnanswered(s, o)
  \/ \E c \in Command : Give(c) \/ RunCommand(c) \/ CommandRefused(c) \/ CommandUnanswered(c)
  \/ \E o \in Orders :
       \/ VenueFills(o) \/ Reconcile(o)
       \/ \E end \in {"canceled", "rejected"} : VenueEnds(o, end)

\* Tasks on the loop run: the limiter lets every order through in the end, and
\* while it is connected the push loop empties the queue.
Fairness ==
  /\ WF_vars(RunPush)
  /\ \A s \in Submissions :
       WF_vars(SubmitRaises(s) \/ \E o \in Orders :
                 \/ SubmitRejected(s, o) \/ SubmitAccepted(s, o)
                 \/ SubmitUnnumbered(s, o) \/ SubmitUnanswered(s, o))

Spec == Init /\ [][Next]_vars /\ Fairness

-----------------------------------------------------------------------------
(* Properties *)

\* What the engine is told of an order is true of the venue's book: one it calls
\* rejected or canceled is not simply working there, one it calls accepted is there,
\* unless an answer of OpenD for that order was lost.
VerdictsAreTrue ==
  \A o \in Orders \ unanswered :
    /\ status[o] \in {"initialized", "rejected"} => book[o].state \in {"none", "rejected"}
    /\ status[o] = "canceled" => book[o].state \notin {"none", "working"}
    /\ status[o] \in OpenStatus \cup {"filled"} => book[o].state # "none"

\* No trade is lost between the SDK thread and the engine, over disconnects and
\* reconnects: for an order the engine can match, each trade of the venue is
\* applied, queued, or was made while no handler was on a session.
Queued(o, n) == \E i \in 1..Len(queue) : queue[i] = Report(o, "trade", n)
TradesAccounted ==
  \A o \in Orders \ unanswered : known[o] =>
    \A n \in 1..book[o].dealt : n \in applied[o] \/ Queued(o, n) \/ <<o, n>> \in unheard

\* The client is an order life cycle: a verdict once, fills after acceptance only and
\* within the quantity, nothing after an end but the fills that were under way.
Lifecycle == INSTANCE OrderLifecycle WITH filled <- [o \in Orders |-> Cardinality(applied[o])]
ImplementsLifecycle == Lifecycle!CycleSpec

\* Every order of a submission gets a verdict, also those behind a rejected one, unless
\* it or one before it in the list could not be translated.
VerdictComes ==
  \A s \in Submissions : \A i \in DOMAIN s :
    (\A j \in 1..i : s[j] \notin Unmapped) =>
      (s \in started ~> status[s[i]] # "initialized")

\* The end of an order at the venue reaches the engine, if the client stays
\* connected and nothing of the order went unheard or unanswered.
Missed(o) == ~connected \/ o \in unanswered \/ \E n \in 0..MaxQuantity : <<o, n>> \in unheard
EndIsLearned ==
  \A o \in Orders :
    known[o] /\ book[o].state \in {"filled", "canceled", "rejected"}
      ~> status[o] \notin OpenStatus \/ Missed(o)
=============================================================================
