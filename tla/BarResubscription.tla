---------------------------- MODULE BarResubscription ----------------------------
(* The actor that subscribes silent bars again (actors/bar_resubscription.py),   *)
(* for one bar type: an alert at the market's open subscribes where no bar was   *)
(* counted, and a check every interval where none came for too long in market    *)
(* hours.  Alerts are one-shot: each handler sets the next.  The clock stops for *)
(* an alert that is due.  A subscription may or may not deliver.                 *)
EXTENDS Naturals, FiniteSets

CONSTANTS
  DayLength, OpensAt, ClosesAt, Holiday,     \* Holiday: a set of days
  StaleTimeout, CheckInterval,
  MaxClock                                   \* bound

ASSUME ResubscriptionAssumption ==
  /\ OpensAt < ClosesAt /\ ClosesAt < DayLength
  /\ {DayLength, OpensAt, ClosesAt, StaleTimeout, MaxClock} \subseteq Nat
  /\ CheckInterval \in Nat \ {0} /\ Holiday \subseteq Nat

VARIABLES
  moment,
  startedAt,                     \* of on_start, or Never
  barCount, lastBar,             \* _bar_counts, _last_bar_times
  openAlert, staleAlert,         \* when the two alerts are due
  subscribers                    \* who of "actor" and "strategy" has the bars

resubscriptionVars == <<moment, startedAt, barCount, lastBar, openAlert, staleAlert, subscribers>>

Never == MaxClock + 3 * DayLength
DayOf(t) == t \div DayLength
InHours(t) == DayOf(t) \notin Holiday /\ t % DayLength \in OpensAt..(ClosesAt - 1)

\* _next_market_open with a calendar: next_trading_day names a day after today's, so
\* today's open is not among them.
NextTradingDayFrom(n) == CHOOSE d \in (n + 1)..(n + 3) : d \notin Holiday /\ \A c \in (n + 1)..(d - 1) : c \in Holiday
NextMarketOpen(t) == NextTradingDayFrom(DayOf(t)) * DayLength + OpensAt

ResubscriptionInit ==
  /\ moment = 0 /\ startedAt = Never /\ barCount = 0 /\ lastBar = 0
  /\ openAlert = Never /\ staleAlert = Never /\ subscribers = {"strategy"}

ResubscriptionStarts ==
  /\ startedAt = Never /\ startedAt' = moment
  /\ subscribers' = subscribers \cup {"actor"} /\ barCount' = 0 /\ lastBar' = moment
  /\ openAlert' = NextMarketOpen(moment) /\ staleAlert' = moment + CheckInterval
  /\ UNCHANGED moment

\* Bars are counted only where the actor has them; what matters is whether any were.
OnBar ==
  /\ "actor" \in subscribers /\ barCount' = 1 /\ lastBar' = moment
  /\ UNCHANGED <<moment, startedAt, openAlert, staleAlert, subscribers>>

\* All leave and come back; where the strategy's part raises, it is logged.
ForceResubscription == subscribers' \in {{"actor"}, {"actor", "strategy"}}

OnMarketOpen ==
  /\ openAlert <= moment
  /\ IF DayOf(moment) \in Holiday THEN UNCHANGED <<barCount, subscribers>>
     ELSE /\ IF barCount = 0 THEN ForceResubscription ELSE UNCHANGED subscribers
          /\ barCount' = 0
  /\ openAlert' = NextMarketOpen(moment)
  /\ UNCHANGED <<moment, startedAt, lastBar, staleAlert>>

OnStalenessCheckEnds ==                       \* mutant: not rescheduled out of hours
  /\ staleAlert <= moment
  /\ IF InHours(moment) /\ moment - lastBar > StaleTimeout
     THEN ForceResubscription /\ lastBar' = moment /\ barCount' = 0
     ELSE UNCHANGED <<subscribers, lastBar, barCount>>
  /\ staleAlert' = IF InHours(moment) THEN moment + CheckInterval ELSE Never
  /\ UNCHANGED <<moment, startedAt, openAlert>>
OnStalenessCheck ==
  /\ staleAlert <= moment
  /\ IF InHours(moment) /\ moment - lastBar > StaleTimeout
     THEN ForceResubscription /\ lastBar' = moment /\ barCount' = 0
     ELSE UNCHANGED <<subscribers, lastBar, barCount>>
  /\ staleAlert' = moment + CheckInterval
  /\ UNCHANGED <<moment, startedAt, openAlert>>

\* on_stop cancels the alerts and the actor's own subscription.
ResubscriptionStops ==
  /\ startedAt # Never /\ startedAt' = Never
  /\ openAlert' = Never /\ staleAlert' = Never /\ subscribers' = subscribers \ {"actor"}
  /\ UNCHANGED <<moment, barCount, lastBar>>

ClockTicks ==
  /\ moment < MaxClock /\ moment < openAlert /\ moment < staleAlert
  /\ moment' = moment + 1
  /\ UNCHANGED <<startedAt, barCount, lastBar, openAlert, staleAlert, subscribers>>

ResubscriptionNext ==
  \/ ResubscriptionStarts \/ OnBar \/ OnMarketOpen \/ OnStalenessCheck \/ ResubscriptionStops
  \/ ClockTicks

ResubscriptionSpec == ResubscriptionInit /\ [][ResubscriptionNext]_resubscriptionVars

\* In market hours no silence goes unnoticed, over nights, holidays and restarts of
\* the actor: since the last bar, resubscription, start or open, no more than the
\* timeout and one interval have passed.
Latest(times) == CHOOSE t \in times : \A u \in times : u <= t
SilenceNoticed ==
  startedAt # Never /\ InHours(moment) =>
    moment - Latest({lastBar, startedAt, DayOf(moment) * DayLength + OpensAt}) <= StaleTimeout + CheckInterval
=============================================================================
