----------------------------- MODULE OrbStrategy -----------------------------
(* One Opening Range Breakout strategy (strategies/orb.py), the orders it has   *)
(* at the venue, and the lifecycle the trader puts it through.  The strategy    *)
(* runs on one event loop, so a handler is one step; bars, order reports, the   *)
(* clock, lunch alerts, saves and restarts interleave freely between steps.     *)
(*                                                                             *)
(* Prices are abstracted to what the strategy decides with them: which side of  *)
(* the range a bar breaks, whether it confirms, whether the range is too        *)
(* narrow, whether a closing fill loses money.  Order ids are never reused in   *)
(* the code; here a group of orders (an entry with its exits, or a closing      *)
(* order) is reused once all its orders are done, and an id that can no longer  *)
(* match is dropped from the strategy's id-valued fields.                       *)
EXTENDS Integers, FiniteSets

CONSTANTS
  Groups,                    \* order groups that can be live at once (a bound)
  NoGroup,                   \* no entry order tracked
  NoState,                   \* nothing saved
  EntryMode,                 \* "BRACKET" (MARKET and LIMIT) or "STOP_MARKET"
  Contingent,                \* venue holds bracket exits for the entry, and OCOs them
  ReduceOnly,                \* venue honours reduce_only on closing orders
  LegsMayReject,             \* venue may reject an exit on its own
  FirstCandleBars, ConfirmationBars, TradeSize, MaxPosition,
  MaxTradesPerDay, MaxConsecutiveRejections,
  LossLimit,                 \* losing fills that exhaust max_daily_loss
  Cooldown, AtrFilter,       \* trade_cooldown_seconds > 0, min_range_atr_multiple > 0
  LunchPause,                \* lunch_pause_enabled
  MaxCloses, MaxTrades, MaxStops, MaxRestarts, MaxDays
    \* bounds: closing orders live at once, entries sent, operator stops,
    \* process restarts, days

ASSUME OrbAssumption ==
  /\ IsFiniteSet(Groups) /\ NoGroup \notin Groups
  /\ EntryMode \in {"BRACKET", "STOP_MARKET"}
  /\ {Contingent, ReduceOnly, LegsMayReject, Cooldown, AtrFilter,
      LunchPause} \subseteq BOOLEAN
  /\ {FirstCandleBars, ConfirmationBars, TradeSize, LossLimit} \subseteq Nat \ {0}
  /\ {MaxPosition, MaxTradesPerDay, MaxConsecutiveRejections,
      MaxCloses, MaxTrades, MaxStops, MaxRestarts, MaxDays} \subseteq Nat

VARIABLES
  mem,       \* the fields on_save persists
  pending,   \* _pending_entry_order_ids
  entry,     \* _entry_order
  life,      \* component state: "running", "paused" or "stopped"
  saved,     \* the pickled state, or NoState
  orders,    \* venue: the orders of each group
  net,       \* portfolio.net_position
  phase,     \* part of the trading day, PreOpen..PastHardStop
  stops,     \* operator stops so far
  restarts,  \* process restarts so far
  day        \* trading days so far

strategy == <<mem, pending, entry, life, saved>>
venue    == <<orders, net>>
world    == <<phase, stops, restarts, day>>
vars     == <<mem, pending, entry, life, saved, orders, net, phase,
              stops, restarts, day>>

PreOpen == 0
Morning == 1
Lunch == 2
Afternoon == 3
PastMaxTradeTime == 4
PastHardStop == 5

Sides == {-1, 1}
Roles == {"entry", "sl", "tp", "close"}
Order == [status : {"idle", "sent", "held", "open"}, side : Sides,
          leaves : Nat, cancel : BOOLEAN]
Memory == [barsSeen : Nat, direction : Sides \cup {0}, count : Nat,
           trades : Nat, loss : Nat, position : Int, cooling : BOOLEAN,
           rejections : Nat, disabled : BOOLEAN]

Abs(n) == IF n < 0 THEN -n ELSE n
ExitSide(n) == IF n > 0 THEN -1 ELSE 1   \* the order side that closes position n
Closes(side, n) == n # 0 /\ side = ExitSide(n)
Least(a, b) == IF a < b THEN a ELSE b

FreshMemory == [barsSeen |-> 0, direction |-> 0, count |-> 0, trades |-> 0,
                loss |-> 0, position |-> 0, cooling |-> FALSE,
                rejections |-> 0, disabled |-> FALSE]

Idle == [status |-> "idle", side |-> 1, leaves |-> 0, cancel |-> FALSE]
Sent(side, qty) == [status |-> "sent", side |-> side, leaves |-> qty, cancel |-> FALSE]
NoOrders == [r \in Roles |-> Idle]
Live(g, r) == orders[g][r].status # "idle"
IsFree(g) == \A r \in Roles : ~Live(g, r)
CanClose(g) ==
  /\ ~Live(g, "close")
  /\ Cardinality({h \in Groups : Live(h, "close")}) < MaxCloses

Init ==
  /\ mem = FreshMemory
  /\ pending = {}
  /\ entry = NoGroup
  /\ life = "running"
  /\ saved = NoState
  /\ orders = [g \in Groups |-> NoOrders]
  /\ net = 0
  /\ phase = PreOpen
  /\ stops = 0
  /\ restarts = 0
  /\ day = 0

-----------------------------------------------------------------------------
(* Guards of on_bar *)

RangeEstablished == mem.barsSeen >= FirstCandleBars
MaxTradesReached == MaxTradesPerDay > 0 /\ mem.trades >= MaxTradesPerDay
LossExceeded == mem.loss >= LossLimit
PositionAllowed == Abs(net) + TradeSize <= MaxPosition

\* A bar reaches the strategy only while it runs, and on_bar returns at once
\* while the rejection breaker is tripped.
TakesBars == life = "running" /\ ~mem.disabled

\* The bar is past every early return up to "already in a position".
LooksForEntry == TakesBars /\ phase # PastHardStop /\ RangeEstablished /\ net = 0

-----------------------------------------------------------------------------
(* Orders the strategy submits *)

\* close_all_positions: one reduce-only market order for the whole position.

CloseAll(os, g) ==
  IF net = 0 THEN os
  ELSE [os EXCEPT ![g]["close"] = Sent(ExitSide(net), Abs(net))]

\* cancel_all_orders: a cancel is requested for every order working at the venue.
CancelAll(os) ==
  [g \in Groups |-> [r \in Roles |->
     [os[g][r] EXCEPT !.cancel = @ \/ os[g][r].status \in {"held", "open"}]]]

\* A bracket: an entry with a stop loss and a take profit on the other side.
Legs(entrySide, exitSide, exitQty) ==
  [r \in Roles |-> CASE r = "entry" -> Sent(entrySide, TradeSize)
                     [] r = "close" -> Idle
                     [] OTHER       -> Sent(exitSide, exitQty)]
Bracket(d) == Legs(d, ExitSide(d), TradeSize)

\* The entry's id is remembered until the venue accepts it.
TrackEntry(g) == pending' = pending \cup {g}

\* _enter_long/_enter_short: a bracket's three orders go out together, a
\* stop-market entry goes out alone and is remembered in _entry_order.
Enter(d) ==
  IF LossExceeded \/ ~PositionAllowed
  THEN UNCHANGED <<orders, pending, entry>>
  ELSE \E g \in Groups :
         /\ IsFree(g)
         /\ mem.trades + Cardinality(pending) < MaxTrades
         /\ TrackEntry(g)
         /\ IF EntryMode = "STOP_MARKET"
            THEN /\ orders' = [orders EXCEPT ![g]["entry"] = Sent(d, TradeSize)]
                 /\ entry' = g
            ELSE /\ orders' = [orders EXCEPT ![g] = Bracket(d)]
                 /\ UNCHANGED entry

\* A confirmation sequence at c bars: enter and reset once it is long enough.
Confirm(d, c) ==
  IF c >= ConfirmationBars
  THEN /\ mem' = [mem EXCEPT !.direction = 0, !.count = 0]
       /\ Enter(d)
  ELSE /\ mem' = [mem EXCEPT !.direction = d, !.count = c]
       /\ UNCHANGED <<orders, pending, entry>>

-----------------------------------------------------------------------------
(* on_bar, one action per way through it that changes state *)

HardStopBarNoClose ==                                    \* mutant
  /\ TakesBars
  /\ phase = PastHardStop
  /\ net # 0
  /\ orders' = CancelAll(orders)
  /\ UNCHANGED <<strategy, net, world>>

\* Every bar past the hard stop closes the whole position once more and cancels what
\* works, earlier closes included.
HardStopBar ==
  /\ TakesBars
  /\ phase = PastHardStop
  /\ net # 0
  /\ \E g \in Groups : CanClose(g) /\ orders' = CancelAll(CloseAll(orders, g))
  /\ UNCHANGED <<strategy, net, world>>

\* A range bar; the last one runs the ATR filter, which may stop the strategy.
RangeBar ==
  /\ TakesBars
  /\ phase \in Morning..PastMaxTradeTime
  /\ ~RangeEstablished
  /\ mem' = [mem EXCEPT !.barsSeen = @ + 1]
  /\ \/ UNCHANGED <<life, orders>>
     \/ /\ AtrFilter
        /\ mem.barsSeen + 1 >= FirstCandleBars
        /\ \E g \in Groups : CanClose(g) /\ orders' = CloseAll(CancelAll(orders), g)
        /\ life' = "stopped"
  /\ UNCHANGED <<pending, entry, saved, net, world>>

BreakoutBar ==
  /\ LooksForEntry
  /\ mem.direction = 0
  /\ phase # PastMaxTradeTime
  /\ ~MaxTradesReached
  /\ ~mem.cooling
  /\ \E d \in Sides : Confirm(d, 1)
  /\ UNCHANGED <<life, saved, net, world>>

ConfirmationBar ==
  /\ LooksForEntry
  /\ mem.direction # 0
  /\ \/ Confirm(mem.direction, mem.count + 1)
     \/ /\ mem' = [mem EXCEPT !.direction = 0, !.count = 0]
        /\ UNCHANGED <<orders, pending, entry>>
  /\ UNCHANGED <<life, saved, net, world>>

-----------------------------------------------------------------------------
(* Reports from the venue.  The venue's own step and the strategy's handler are *)
(* one action; a strategy that is not running does not get the event.           *)

Delivered == life = "running"

\* Exits of a contingent bracket wait until their entry is done.
ExitsHeld(g) == Contingent /\ EntryMode = "BRACKET" /\ Live(g, "entry")

OnOrderAcceptedAnyLeg(g, r) ==                          \* mutant
  LET counted == g \in pending
  IN IF Delivered
     THEN mem' = [mem EXCEPT !.rejections = 0,
                             !.trades = IF counted THEN @ + 1 ELSE @]
     ELSE UNCHANGED mem
OnOrderAccepted(g, r) ==
  LET counted == r = "entry" /\ g \in pending
  IN IF Delivered
     THEN mem' = [mem EXCEPT !.rejections = 0,
                             !.trades = IF counted THEN @ + 1 ELSE @]
     ELSE UNCHANGED mem

Accept(g, r) ==
  /\ orders[g][r].status = "sent"
  /\ orders' = [orders EXCEPT ![g][r].status =
                  IF r \in {"sl", "tp"} /\ ExitsHeld(g) THEN "held" ELSE "open"]
  /\ OnOrderAccepted(g, r)
  /\ pending' = IF r = "entry" THEN pending \ {g} ELSE pending
  /\ UNCHANGED <<entry, life, saved, net, world>>

OnOrderRejected ==
  IF Delivered /\ MaxConsecutiveRejections > 0
  THEN mem' = [mem EXCEPT
         !.rejections = Least(@ + 1, MaxConsecutiveRejections),
         !.disabled = @ \/ mem.rejections + 1 >= MaxConsecutiveRejections]
  ELSE UNCHANGED mem

\* An entry that ends takes the exits a contingent venue still holds with it.
EndOrder(g, r) ==
  IF r = "entry" /\ ExitsHeld(g) THEN [orders EXCEPT ![g] = [NoOrders EXCEPT !["close"] = orders[g]["close"]]]
  ELSE [orders EXCEPT ![g][r] = Idle]

Forget(g, r) ==
  /\ pending' = IF r = "entry" THEN pending \ {g} ELSE pending
  /\ entry' = IF r = "entry" /\ entry = g THEN NoGroup ELSE entry

Reject(g, r) ==
  /\ orders[g][r].status = "sent"
  /\ r \in {"sl", "tp"} => LegsMayReject
  /\ orders' = EndOrder(g, r)
  /\ Forget(g, r)
  /\ OnOrderRejected
  /\ UNCHANGED <<life, saved, net, world>>

Cancel(g, r) ==
  /\ orders[g][r].status \in {"held", "open"}
  /\ orders[g][r].cancel
  /\ orders' = EndOrder(g, r)
  /\ Forget(g, r)
  /\ UNCHANGED <<mem, life, saved, net, world>>

\* What the venue does with an order that fills q: the order shrinks or ends, a
\* contingent entry that is done releases its exits, and one exit shrinks the other.
Shrink(o, q) == IF o.leaves <= q THEN Idle ELSE [o EXCEPT !.leaves = @ - q]
Release(o) == IF o.status = "held" THEN [o EXCEPT !.status = "open"] ELSE o
VenueFill(g, r, q) ==
  [s \in Roles |->
     IF s = r THEN Shrink(orders[g][s], q)
     ELSE IF {r, s} = {"sl", "tp"} /\ Contingent /\ EntryMode = "BRACKET"
          THEN Shrink(orders[g][s], q)
     ELSE IF r = "entry" /\ orders[g][r].leaves = q THEN Release(orders[g][s])
     ELSE orders[g][s]]

\* _submit_protective_orders: a stop and a limit for the whole tracked position.
Protect(group, pos) ==
  IF pos = 0 THEN group
  ELSE [group EXCEPT !["sl"] = Sent(ExitSide(pos), Abs(pos)),
                     !["tp"] = Sent(ExitSide(pos), Abs(pos))]

\* on_order_filled: loss, position, protective orders, entry tracking, cooldown.
OnOrderFilled(g, r, q, loses) ==
  LET side   == orders[g][r].side
      pos    == mem.position + side * q
      closes == Closes(side, mem.position)
      mine   == r = "entry" /\ entry = g
  IN IF Delivered
     THEN /\ mem' = [mem EXCEPT
               !.position = pos,
               !.loss = IF closes /\ loses THEN Least(@ + 1, LossLimit) ELSE @,
               !.cooling = (pos = 0 /\ Cooldown) \/ @]
          /\ orders' = [orders EXCEPT ![g] =
               IF mine THEN Protect(VenueFill(g, r, q), pos) ELSE VenueFill(g, r, q)]
          /\ entry' = IF mine \/ pos = 0 THEN NoGroup ELSE entry
     ELSE /\ orders' = [orders EXCEPT ![g] = VenueFill(g, r, q)]
          /\ entry' = IF r = "entry" /\ entry = g /\ q = orders[g][r].leaves
                      THEN NoGroup ELSE entry
          /\ UNCHANGED mem

CanFill(g, r, q) ==
  /\ orders[g][r].status = "open"
  /\ q \in 1..orders[g][r].leaves
  /\ r = "close" /\ ReduceOnly
       => Closes(orders[g][r].side, net) /\ q <= Abs(net)

Fill(g, r, q) ==
  /\ CanFill(g, r, q)
  /\ \E loses \in BOOLEAN : OnOrderFilled(g, r, q, loses)
  /\ net' = net + orders[g][r].side * q
  /\ UNCHANGED <<pending, life, saved, world>>

\* A venue that honours reduce_only cancels a closing order with nothing to close.
DropReduceOnly(g) ==
  /\ ReduceOnly
  /\ orders[g]["close"].status = "open"
  /\ ~Closes(orders[g]["close"].side, net)
  /\ orders' = [orders EXCEPT ![g]["close"] = Idle]
  /\ UNCHANGED <<strategy, net, world>>

-----------------------------------------------------------------------------
(* Clock, lunch alerts, lifecycle, persistence *)

\* The clock moves on; at lunch_start and lunch_end the alerts of
\* _schedule_lunch_alerts pause and resume the strategy.
Tick ==
  /\ phase < PastHardStop
  /\ phase' = phase + 1
  /\ life' = IF LunchPause /\ phase' = Lunch /\ life = "running" THEN "paused"
             ELSE IF phase' = Afternoon /\ life = "paused" THEN "running"
             ELSE life
  /\ UNCHANGED <<mem, pending, entry, saved, venue, stops, restarts, day>>

\* Overnight: DAY orders (the default time in force) expire; nothing resets the
\* strategy's session state.
NextDay ==
  /\ phase = PastHardStop
  /\ day < MaxDays
  /\ phase' = PreOpen
  /\ day' = day + 1
  /\ orders' = [g \in Groups |-> NoOrders]
  /\ pending' = {}
  /\ entry' = NoGroup
  /\ UNCHANGED <<mem, life, saved, net, stops, restarts>>

CooldownElapses ==
  /\ mem.cooling
  /\ mem' = [mem EXCEPT !.cooling = FALSE]
  /\ UNCHANGED <<pending, entry, life, saved, venue, world>>

OnStop ==
  /\ life # "stopped"
  /\ stops < MaxStops
  /\ stops' = stops + 1
  /\ \E g \in Groups : CanClose(g) /\ orders' = CloseAll(CancelAll(orders), g)
  /\ life' = "stopped"
  /\ UNCHANGED <<mem, pending, entry, saved, net, phase, restarts, day>>

OnReset ==
  /\ life = "stopped"
  /\ mem' = FreshMemory
  /\ pending' = {}
  /\ entry' = NoGroup
  /\ UNCHANGED <<life, saved, venue, world>>

OnStart ==
  /\ life = "stopped"
  /\ life' = "running"
  /\ UNCHANGED <<mem, pending, entry, saved, venue, world>>

OnSave ==
  /\ restarts < MaxRestarts           \* a state nobody loads is of no interest
  /\ saved' = mem
  /\ UNCHANGED <<mem, pending, entry, life, venue, world>>

\* on_load
OnLoadUntripped ==                                       \* mutant
  IF saved = NoState THEN FreshMemory ELSE [saved EXCEPT !.disabled = FALSE]
OnLoad == IF saved = NoState THEN FreshMemory ELSE saved

\* The process dies and boots again: on_load restores what was saved; the
\* order ids being tracked are not part of it.
Restart ==
  /\ restarts < MaxRestarts
  /\ restarts' = restarts + 1
  /\ mem' = OnLoad
  /\ pending' = {}
  /\ entry' = NoGroup
  /\ life' = "running"
  /\ UNCHANGED <<saved, venue, phase, stops, day>>

-----------------------------------------------------------------------------

OnBar == HardStopBar \/ RangeBar \/ BreakoutBar \/ ConfirmationBar

Report(g, r) ==
  \/ Accept(g, r)
  \/ Reject(g, r)
  \/ Cancel(g, r)
  \/ \E q \in 1..orders[g][r].leaves : Fill(g, r, q)

Lifecycle == OnStop \/ OnReset \/ OnStart \/ OnSave \/ Restart

Next ==
  \/ OnBar
  \/ \E g \in Groups, r \in Roles : Report(g, r)
  \/ \E g \in Groups : DropReduceOnly(g)
  \/ Tick \/ NextDay \/ CooldownElapses
  \/ Lifecycle

Spec == Init /\ [][Next]_vars

\* Past the hard stop bars keep coming and the venue answers: it takes or
\* refuses every order, carries out cancels, does not refuse closing orders for
\* ever, and executes a market order it keeps working.
Fairness ==
  /\ WF_vars(HardStopBar)
  /\ \A g \in Groups :
       /\ WF_vars(DropReduceOnly(g))
       /\ SF_vars(Accept(g, "close"))
       /\ SF_vars(\E q \in 1..orders[g]["close"].leaves : Fill(g, "close", q))
       /\ \A r \in Roles : WF_vars(Accept(g, r)) /\ WF_vars(Cancel(g, r))

FairSpec == Spec /\ Fairness

-----------------------------------------------------------------------------
(* Properties *)

TypeOK ==
  /\ mem \in Memory
  /\ pending \subseteq Groups
  /\ entry \in Groups \cup {NoGroup}
  /\ life \in {"running", "paused", "stopped"}
  /\ saved \in Memory \cup {NoState}
  /\ orders \in [Groups -> [Roles -> Order]]
  /\ net \in Int
  /\ phase \in PreOpen..PastHardStop
  /\ stops \in Nat /\ restarts \in Nat /\ day \in Nat

\* A full streak of rejections means the breaker is tripped, in memory and in
\* every saved state a later boot may load: a streak cannot come back without it.
Tripped(m) ==
  MaxConsecutiveRejections > 0 /\ m.rejections >= MaxConsecutiveRejections => m.disabled
BreakerLatched == Tripped(mem) /\ (saved # NoState => Tripped(saved))

\* Entries are counted when the venue accepts them, so breakout bars in between see
\* the old count and max_trades_per_day can be exceeded; but only by what was under
\* way when the count reached it: from then on nothing new is begun, and an entry on
\* its way or a confirmation is counted at most once, whichever way reports, refusals,
\* pauses and resets fall.
UnderWay == Cardinality(pending) + (IF mem.direction = 0 THEN 0 ELSE 1)
OvershootWasUnderWay ==
  [][MaxTradesReached /\ restarts' = restarts
       => mem'.trades + UnderWay' <= mem.trades + UnderWay]_vars

\* A closing order only ever makes the position smaller.  "Close any open position at
\* this time", says the code of session_hard_stop; every bar past it sends a close for
\* the whole position while exits and earlier closes may still fill.
ClosesOnlyClose ==
  [][\A g \in Groups : net' # net /\ orders[g]["close"]' # orders[g]["close"]
       => Abs(net') < Abs(net)]_vars

\* "session_hard_stop: Close any open position at this time": whatever part of the
\* position is filled, cancelled or closed twice, it is flat in the end.
HardStopFlattens ==
  (phase = PastHardStop /\ net # 0) ~> (net = 0 \/ phase # PastHardStop)
=============================================================================
