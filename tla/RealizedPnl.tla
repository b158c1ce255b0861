------------------------------ MODULE RealizedPnl ------------------------------
(* The realized P&L of one strategy (actors/realized_pnl.py): fills are matched *)
(* first in, first out against the lots they close, and the day's total goes to *)
(* Redis, where the daily-loss breaker reads it (services/safety.py).  A fill   *)
(* starts a task on the node's loop; tasks start in order and run up to their   *)
(* write without interruption, but every write has a connection of its own, so  *)
(* that two writes in flight can land in either order.                          *)
EXTENDS Integers, Sequences

LOCAL INSTANCE FiniteSetsExt

CONSTANTS Instruments, NoDate, NoTotal,
          Prices, Quantities,              \* of the fills, in integer units
          MaxFills, MaxDay, MaxStops, MaxRestarts, MaxFaults   \* bounds

ASSUME PnlAssumption ==
  /\ Prices \subseteq Int /\ Quantities \subseteq Nat \ {0}
  /\ {MaxFills, MaxDay, MaxStops, MaxRestarts, MaxFaults} \subseteq Nat
  /\ NoDate \notin Nat /\ NoTotal \notin Int

VARIABLES
  lots,         \* per instrument: the open lots, oldest first
  realized,     \* per instrument
  current,      \* _current_date, or NoDate
  connected,    \* _redis is set
  tasks,        \* fills whose task has not started
  writes,       \* totals on their way to Redis
  stored,       \* sam:pnl:{strategy}:{date}, per date
  day,          \* the UTC date
  flows, held,  \* cash and signed quantity of the fills since the last reset (history)
  clean,        \* no write overlapped another or was lost (history)
  fills, stops, restarts, faults

memory == <<lots, realized, current, flows, held>>
counts == <<fills, stops, restarts, faults>>
vars == <<lots, realized, current, connected, tasks, writes, stored, day, flows, held, clean,
          fills, stops, restarts, faults>>

Dates == 0..MaxDay
FillType == [instrument : Instruments, side : {-1, 1}, qty : Quantities, price : Prices,
             date : Dates]
Zero == [i \in Instruments |-> 0]
NoLots == [i \in Instruments |-> <<>>]

Init ==
  /\ lots = NoLots /\ realized = Zero /\ current = NoDate
  /\ connected = FALSE
  /\ tasks = <<>> /\ writes = <<>>
  /\ stored = [d \in Dates |-> NoTotal]
  /\ day = 0
  /\ flows = Zero /\ held = Zero
  /\ clean = TRUE
  /\ fills = 0 /\ stops = 0 /\ restarts = 0 /\ faults = 0

-----------------------------------------------------------------------------
(* Matching a fill *)

\* The loop stops at the first lot it does not use up, so what was kept keeps
\* everything behind it.
ConsumeWhole(fill, acc, lot) ==                          \* mutant: takes the lot whole
  IF acc.kept # <<>> \/ acc.left = 0 \/ lot.side = fill.side
  THEN [acc EXCEPT !.kept = Append(@, lot)]
  ELSE LET matched == IF acc.left < lot.qty THEN acc.left ELSE lot.qty
       IN [acc EXCEPT !.left = @ - matched,
                      !.gain = @ + (fill.price - lot.price) * matched * lot.side]
Consume(fill, acc, lot) ==
  IF acc.kept # <<>> \/ acc.left = 0 \/ lot.side = fill.side
  THEN [acc EXCEPT !.kept = Append(@, lot)]
  ELSE LET matched == IF acc.left < lot.qty THEN acc.left ELSE lot.qty
       IN [left |-> acc.left - matched,
           gain |-> acc.gain + (fill.price - lot.price) * matched * lot.side,
           kept |-> IF matched = lot.qty THEN <<>>
                    ELSE <<[lot EXCEPT !.qty = @ - matched]>>]

Match(fill, open) ==
  LET after[k \in 0..Len(open)] ==
        IF k = 0 THEN [left |-> fill.qty, gain |-> 0, kept |-> <<>>]
        ELSE Consume(fill, after[k - 1], open[k])
  IN after[Len(open)]

\* What is left of the fill opens a lot in its own direction.
Opened(fill, m) ==
  IF m.left = 0 THEN m.kept
  ELSE Append(m.kept, [price |-> fill.price, qty |-> m.left, side |-> fill.side])

Total(of) == MapThenSumSet(LAMBDA i : of[i], Instruments)

-----------------------------------------------------------------------------
(* The actor *)

\* on_start, up to the first step of _connect_redis.
OnStart ==
  /\ ~connected
  /\ connected' = TRUE
  /\ UNCHANGED <<memory, tasks, writes, stored, day, clean, counts>>

\* on_stop drops the client; memory and the tasks stay.
OnStop ==
  /\ connected /\ stops < MaxStops
  /\ stops' = stops + 1
  /\ connected' = FALSE
  /\ UNCHANGED <<memory, tasks, writes, stored, day, clean, fills, restarts, faults>>

\* A fill, of today or reported late; without a client it is dropped.
OnOrderFilled(fill) ==
  /\ fills < MaxFills
  /\ fill.date \in {day, day - 1}
  /\ fills' = fills + 1
  /\ tasks' = IF connected THEN Append(tasks, fill) ELSE tasks
  /\ UNCHANGED <<memory, connected, writes, stored, day, clean, stops, restarts, faults>>

\* The totals in flight, with that of this task; without a client it cannot be sent.
SendsStale(date, total) ==                               \* mutant: the total before the fill
  /\ writes' = IF connected THEN Append(writes, [date |-> date, total |-> Total(realized)])
               ELSE writes
  /\ clean' = (clean /\ connected /\ writes = <<>>)
SendsTotal(date, total) ==
  /\ writes' = IF connected THEN Append(writes, [date |-> date, total |-> total]) ELSE writes
  /\ clean' = (clean /\ connected /\ writes = <<>>)

\* _process_fill, up to its write.  A fill of another date than the last one's
\* forgets the lots and the results first.
AsOf(date) ==
  IF current \in {NoDate, date}
  THEN [lots |-> lots, realized |-> realized, flows |-> flows, held |-> held]
  ELSE [lots |-> NoLots, realized |-> Zero, flows |-> Zero, held |-> Zero]

ProcessFill ==
  LET fill == Head(tasks)
      i == fill.instrument
      m == Match(fill, AsOf(fill.date).lots[i])
      start == AsOf(fill.date)
  IN /\ tasks # <<>>
     /\ tasks' = Tail(tasks)
     /\ current' = fill.date
     /\ lots' = [start.lots EXCEPT ![i] = Opened(fill, m)]
     /\ realized' = [start.realized EXCEPT ![i] = @ + m.gain]
     /\ flows' = [start.flows EXCEPT ![i] = @ - fill.side * fill.qty * fill.price]
     /\ held' = [start.held EXCEPT ![i] = @ + fill.side * fill.qty]
     /\ SendsTotal(fill.date, Total(realized'))
     /\ UNCHANGED <<connected, stored, day, counts>>

\* The reply to a write, in any order.
Others(n) == SubSeq(writes, 1, n - 1) \o SubSeq(writes, n + 1, Len(writes))

WriteLands(n) ==
  /\ writes' = Others(n)
  /\ stored' = [stored EXCEPT ![writes[n].date] = writes[n].total]
  /\ UNCHANGED <<memory, connected, tasks, day, clean, counts>>

\* Redis refuses it: logged, and never tried again.
WriteFails(n) ==
  /\ faults < MaxFaults
  /\ faults' = faults + 1
  /\ writes' = Others(n)
  /\ clean' = FALSE
  /\ UNCHANGED <<memory, connected, tasks, stored, day, fills, stops, restarts>>

\* A new process remembers nothing.
Restart ==
  /\ restarts < MaxRestarts
  /\ restarts' = restarts + 1
  /\ lots' = NoLots /\ realized' = Zero /\ current' = NoDate
  /\ flows' = Zero /\ held' = Zero
  /\ connected' = FALSE
  /\ tasks' = <<>> /\ writes' = <<>>
  /\ clean' = (clean /\ tasks = <<>> /\ writes = <<>>)
  /\ UNCHANGED <<stored, day, fills, stops, faults>>

Midnight ==
  /\ day < MaxDay
  /\ day' = day + 1
  /\ UNCHANGED <<memory, connected, tasks, writes, stored, clean, counts>>

-----------------------------------------------------------------------------

Next ==
  \/ OnStart \/ OnStop \/ ProcessFill \/ Restart \/ Midnight
  \/ \E fill \in FillType : OnOrderFilled(fill)
  \/ \E n \in 1..Len(writes) : WriteLands(n) \/ WriteFails(n)

Spec == Init /\ [][Next]_vars

-----------------------------------------------------------------------------
(* Properties *)

\* Matching neither loses quantity nor money.  The lots of an instrument are all long or
\* all short and make up the quantity that was filled, also after a fill that closes one
\* side and opens the other; what is booked as realized is the cash the fills moved,
\* with the lots still open taken at their cost.
With(worth, lot) == [qty |-> worth.qty + lot.side * lot.qty,
                     cost |-> worth.cost + lot.side * lot.qty * lot.price]
Worth(open) ==
  LET ofFirst[k \in 0..Len(open)] ==
        IF k = 0 THEN [qty |-> 0, cost |-> 0] ELSE With(ofFirst[k - 1], open[k])
  IN ofFirst[Len(open)]
LotsAreThePosition(i) ==
  /\ \A k \in 1..(Len(lots[i]) - 1) : lots[i][k].side = lots[i][k + 1].side
  /\ Worth(lots[i]).qty = held[i]
RealizedIsCashFlow(i) == realized[i] = flows[i] + Worth(lots[i]).cost
LotsMatchTheFills == \A i \in Instruments : LotsAreThePosition(i) /\ RealizedIsCashFlow(i)

\* Once no write is in flight, the breaker reads the total the actor has for the date
\* of its last fill, over midnights, stops and restarts, unless two writes were in
\* flight at once or one was lost.
StoredKeepsUp ==
  clean /\ writes = <<>> /\ current # NoDate => stored[current] = Total(realized)
=============================================================================
