--------------------------- MODULE MomentumStrategy ---------------------------
(* One momentum strategy (strategies/momentum.py), its orders at the venue and   *)
(* its lifecycle.  Unlike the ORB strategy it reverses: a bar against the        *)
(* position closes it and enters the other way at once, and nothing cancels the  *)
(* exits of the position it leaves.  Prices are abstracted to the sign of the    *)
(* momentum and to whether a closing fill loses; _trades_today is only counted,  *)
(* never read, and is left out.  Orders are independent of each other, as at Futu,  *)
(* where the exits of a bracket neither wait nor cancel.  An order is live or done: a live one may be      *)
(* accepted, more than once here, rejected while nothing of it is filled, or      *)
(* filled in parts.  Handlers run to completion on one event loop.               *)
EXTENDS Integers, FiniteSets, Sequences

CONSTANTS
  MomGroups,            \* groups of orders that can be live at once (a bound)
  NoMomGroup,
  MomEntryType,         \* "BRACKET" (MARKET and LIMIT) or "STOP_MARKET"
  Directions,           \* allowed_directions, as signs
  Window, MomSize, MomMaxPosition, MomMaxRejections,
  MomLossLimit,         \* losing fills that exhaust max_daily_loss
  MaxEntries, MaxInterruptions, MaxClosings, MaxHeard
    \* bounds: entries, operator stops and process restarts, closing orders live at once,
    \* answers of the venue heard by one strategy

ASSUME MomentumAssumption ==
  /\ IsFiniteSet(MomGroups) /\ NoMomGroup \notin MomGroups
  /\ MomEntryType \in {"BRACKET", "STOP_MARKET"} /\ Directions \subseteq {-1, 1}
  /\ {Window, MomSize, MomLossLimit} \subseteq Nat \ {0}
  /\ {MomMaxPosition, MomMaxRejections, MaxEntries, MaxInterruptions,
      MaxClosings, MaxHeard} \subseteq Nat

VARIABLES
  mom,         \* the fields on_save persists
  momEntry,    \* _entry_order
  momLife,     \* "running", "paused" or "stopped"
  working,     \* venue: the orders of each group
  momNet,      \* portfolio.net_position
  heard,       \* acceptances and rejections told since its state was fresh (history)
  entries, interruptions     \* counters for the bounds

momStrategy == <<mom, momEntry, momLife>>
momCounters == <<entries, interruptions>>
momVars == <<mom, momEntry, momLife, working, momNet, heard,
             entries, interruptions>>

MomRoles == {"entry", "sl", "tp", "close"}
MomFresh == [closes |-> 0,   \* closes: Window or more look alike
          loss |-> 0, position |-> 0, rejections |-> 0, disabled |-> FALSE]
NoOrder == [side |-> 1, leaves |-> 0]
New(side, n) == [side |-> side, leaves |-> n]
Alive(g, r) == working[g][r] # NoOrder
Nothing == [r \in MomRoles |-> NoOrder]
Free(g) ==
  /\ working[g] = Nothing
  /\ momNet = 0 \/ Cardinality({h \in MomGroups : Alive(h, "close")}) < MaxClosings
Size(n) == IF n < 0 THEN -n ELSE n
Against(n) == IF n > 0 THEN -1 ELSE 1

MomInit ==
  /\ mom = MomFresh /\ momEntry = NoMomGroup /\ momLife = "running"
  /\ working = [g \in MomGroups |-> Nothing] /\ momNet = 0 /\ heard = <<>>
  /\ entries = 0 /\ interruptions = 0

-----------------------------------------------------------------------------
(* on_bar *)

MaxLossReached == mom.loss >= MomLossLimit
RoomFor(n) == Size(momNet) + n <= MomMaxPosition

\* close_all_positions: a market order for what the portfolio holds.
Closing(os, g) ==
  IF momNet = 0 THEN os ELSE [os EXCEPT ![g]["close"] = New(Against(momNet), Size(momNet))]

\* _enter_long and _enter_short, into the orders os: a bracket, or a stop-market
\* entry whose exits follow its first fill.
Entering(os, g, d) ==
  [os EXCEPT ![g]["entry"] = New(d, MomSize),
             ![g]["sl"] = IF MomEntryType = "BRACKET" THEN New(-d, MomSize) ELSE @,
             ![g]["tp"] = IF MomEntryType = "BRACKET" THEN New(-d, MomSize) ELSE @]
MayEnter(d) == d \in Directions /\ ~MaxLossReached /\ RoomFor(MomSize)

TakesBar == momLife = "running" /\ ~mom.disabled

\* The window is still filling: the close is only remembered.
WarmUpBar ==
  /\ TakesBar /\ mom.closes < Window
  /\ mom' = [mom EXCEPT !.closes = @ + 1]
  /\ UNCHANGED <<momEntry, momLife, working, momNet, heard, momCounters>>

\* Momentum of sign d, from flat or against the position; otherwise a bar does nothing,
\* as it does outside the session.
MomentumBar(d) ==
  /\ TakesBar /\ mom.closes >= Window
  /\ momNet = 0 \/ d = Against(momNet)
  /\ \E g \in MomGroups :
       /\ Free(g)
       /\ IF MayEnter(d)
          THEN /\ entries < MaxEntries /\ entries' = entries + 1
               /\ working' = Entering(Closing(working, g), g, d)
               /\ momEntry' = IF MomEntryType = "STOP_MARKET" THEN g ELSE momEntry
          ELSE /\ working' = Closing(working, g)
               /\ UNCHANGED <<momEntry, entries>>
  /\ UNCHANGED <<mom, momLife, momNet, heard, interruptions>>

-----------------------------------------------------------------------------
(* Order events; a strategy that is not running does not get them *)

Told == momLife = "running"

Hears(answer) ==
  IF Told THEN Len(heard) < MaxHeard /\ heard' = Append(heard, answer) ELSE UNCHANGED heard

MomAccepted(g, r) ==
  /\ Alive(g, r) /\ Told
  /\ mom' = [mom EXCEPT !.rejections = 0]
  /\ Hears("accepted")
  /\ UNCHANGED <<momEntry, momLife, working, momNet, momCounters>>

MomRejected(g, r) ==
  /\ Alive(g, r) /\ (r = "close" \/ working[g][r].leaves = MomSize)
  /\ working' = [working EXCEPT ![g][r] = NoOrder]
  /\ mom' = IF Told /\ MomMaxRejections > 0
            THEN [mom EXCEPT !.rejections = IF @ < MomMaxRejections THEN @ + 1 ELSE @,
                             !.disabled = @ \/ mom.rejections + 1 >= MomMaxRejections]
            ELSE mom
  /\ momEntry' = IF r = "entry" /\ momEntry = g THEN NoMomGroup ELSE momEntry
  /\ Hears("rejected")
  /\ UNCHANGED <<momLife, momNet, momCounters>>

Left(o, n) == IF o.leaves = n THEN NoOrder ELSE [o EXCEPT !.leaves = @ - n]

\* _submit_protective_orders, for the whole tracked position.
Protected(group, pos) ==
  IF pos = 0 THEN group
  ELSE [group EXCEPT !["sl"] = New(Against(pos), Size(pos)),
                     !["tp"] = New(Against(pos), Size(pos))]

Position(side, n) == mom.position + side * n
MomFilled(g, r, n) ==
  LET o == working[g][r]
      pos == Position(o.side, n)
      closes == mom.position # 0 /\ o.side = Against(mom.position)
      mine == r = "entry" /\ momEntry = g
      venue == [working[g] EXCEPT ![r] = Left(o, n)]
  IN /\ Alive(g, r) /\ n \in 1..o.leaves
     /\ momNet' = momNet + o.side * n
     /\ IF Told
        THEN /\ \E loses \in BOOLEAN :
                  mom' = [mom EXCEPT !.position = pos,
                            !.loss = IF closes /\ loses /\ ~MaxLossReached THEN @ + 1 ELSE @]
             /\ working' = [working EXCEPT ![g] = IF mine THEN Protected(venue, pos) ELSE venue]
             /\ momEntry' = IF mine \/ pos = 0 THEN NoMomGroup ELSE momEntry
        ELSE /\ working' = [working EXCEPT ![g] = venue]
             /\ momEntry' = IF mine /\ n = o.leaves THEN NoMomGroup ELSE momEntry
             /\ UNCHANGED mom
     /\ UNCHANGED <<momLife, heard, momCounters>>

-----------------------------------------------------------------------------
(* Lunch, lifecycle *)

OnLunchPause ==
  /\ momLife = "running" /\ momLife' = "paused"
  /\ UNCHANGED <<mom, momEntry, working, momNet, heard, momCounters>>
OnLunchResume ==
  /\ momLife = "paused" /\ momLife' = "running"
  /\ UNCHANGED <<mom, momEntry, working, momNet, heard, momCounters>>

\* cancel_all_orders, which reaches the orders of some groups in time, then
\* close_all_positions.
MomOnStop ==
  /\ momLife # "stopped" /\ interruptions < MaxInterruptions
  /\ interruptions' = interruptions + 1 /\ momLife' = "stopped"
  /\ \E reached \in SUBSET MomGroups, g \in MomGroups :
       LET left == [h \in MomGroups |-> IF h \in reached THEN Nothing ELSE working[h]]
       IN /\ left[g] = Nothing /\ \A h \in MomGroups : left[h]["close"] = NoOrder
          /\ working' = Closing(left, g)
          /\ momEntry' = IF momEntry \in reached THEN NoMomGroup ELSE momEntry
  /\ UNCHANGED <<mom, momNet, heard, entries>>

\* The tracked position restarts from nothing, whatever the portfolio holds.
MomOnReset ==
  /\ momLife = "stopped"
  /\ mom' = MomFresh /\ momEntry' = NoMomGroup /\ heard' = <<>>
  /\ UNCHANGED <<momLife, working, momNet, momCounters>>
MomOnStart ==
  /\ momLife = "stopped" /\ momLife' = "running"
  /\ UNCHANGED <<mom, momEntry, working, momNet, heard, momCounters>>

\* on_save on the way down and on_load at boot bring back the fields of mom.  After a
\* crash an older state is loaded: the oldest stands for all of them.
SavedWithoutCount == [mom EXCEPT !.rejections = 0]       \* mutant: the streak is not saved
Saved == mom

MomRestart ==
  /\ interruptions < MaxInterruptions /\ interruptions' = interruptions + 1
  /\ \/ mom' = Saved /\ UNCHANGED heard
     \/ mom' = MomFresh /\ heard' = <<>>
  /\ momEntry' = NoMomGroup /\ momLife' = "running"
  /\ UNCHANGED <<working, momNet, entries>>

-----------------------------------------------------------------------------

MomNext ==
  \/ WarmUpBar \/ \E d \in {-1, 1} : MomentumBar(d)
  \/ \E g \in MomGroups, r \in MomRoles :
       \/ MomAccepted(g, r) \/ MomRejected(g, r)
       \/ \E n \in 1..working[g][r].leaves : MomFilled(g, r, n)
  \/ OnLunchPause \/ OnLunchResume
  \/ MomOnStop \/ MomOnReset \/ MomOnStart \/ MomRestart

MomSpec == MomInit /\ [][MomNext]_momVars

-----------------------------------------------------------------------------
(* Properties *)

\* Counting as it goes finds the streak, across lunch pauses, stops, resets and the
\* saves and loads of restarts: the strategy is disabled exactly when, of the answers it
\* heard since its state was fresh, MomMaxRejections rejections came one after the other,
\* over all its orders and however fills and acceptances of others fall between them.
Streak(i) == \A j \in (i - MomMaxRejections + 1)..i : heard[j] = "rejected"
BreakerIsEarned ==
  mom.disabled <=>
    MomMaxRejections > 0 /\ \E i \in DOMAIN heard : i >= MomMaxRejections /\ Streak(i)
=============================================================================
