----------------------------- MODULE MarketCalendar -----------------------------
(* The market calendar of one market (services/market_calendar.py).  Answers are *)
(* kept in Redis for a day, and an answer about trading days or hours is made    *)
(* from other answers, which may come from Redis themselves.  The holidays and   *)
(* early closes a process knows come from its environment and change when the    *)
(* processes are deployed again; the answers in Redis stay.                      *)
EXTENDS Integers, FiniteSets

CONSTANTS
  Days,                 \* consecutive days, from 0
  Weekends,
  Holidays, EarlyCloses,     \* what the configuration may name: sets of sets of days
  Ttl,                  \* _REDIS_TTL
  DayBeforeHolidayIsShort,   \* of the US market
  NoAnswer,
  AskedDays, MaxNow, MaxDeployments     \* bounds

LastDay == CHOOSE d \in Days : \A e \in Days : e <= d

ASSUME CalendarAssumption ==
  /\ LastDay \in Nat /\ Days = 0..LastDay /\ Weekends \subseteq Days
  /\ \A h \in Holidays : h \subseteq Days \ {LastDay}
  /\ \A e \in EarlyCloses : e \subseteq Days
  /\ LastDay \notin Weekends          \* the search below ends on a trading day
  /\ Ttl \in Nat \ {0} /\ DayBeforeHolidayIsShort \in BOOLEAN
  /\ AskedDays \subseteq Days /\ {MaxNow, MaxDeployments} \subseteq Nat

VARIABLES
  now,
  environment,          \* [holidays, early] of the processes
  holidayKey, earlyKey, hoursKey, nextKey,
                        \* the answers in Redis, per day: [answer, at], or NoAnswer
  past,                 \* per instant so far: the environments in force (history)
  deployments

calendarVars == <<now, environment, holidayKey, earlyKey, hoursKey, nextKey, past, deployments>>

CalendarInit ==
  /\ now = 0
  /\ environment \in [holidays : Holidays, early : EarlyCloses]
  /\ holidayKey = [d \in Days |-> NoAnswer] /\ earlyKey = [d \in Days |-> NoAnswer]
  /\ hoursKey = [d \in Days |-> NoAnswer] /\ nextKey = [d \in Days |-> NoAnswer]
  /\ past = <<{environment}>>
  /\ deployments = 0

\* _is_holiday_uncached; is_early_close, which asks nothing but the environment.
Closed(env, d) == d \in env.holidays
Short(env, d) == \/ d \in env.early
                 \/ DayBeforeHolidayIsShort /\ d + 1 \in Days \ Weekends /\ Closed(env, d + 1)

\* _cache_get and _cache_set: one answer, kept as it was given first.
Kept(key, d, answer) == IF key[d] # NoAnswer THEN key ELSE [key EXCEPT ![d] = [answer |-> answer, at |-> now]]
Answer(key, d, computed) == IF key[d] # NoAnswer THEN key[d].answer ELSE computed

IsHoliday(d) ==
  /\ holidayKey' = Kept(holidayKey, d, Closed(environment, d))
  /\ UNCHANGED <<now, environment, earlyKey, hoursKey, nextKey, past, deployments>>

IsEarlyClose(d) ==
  /\ earlyKey' = Kept(earlyKey, d, Short(environment, d))
  /\ UNCHANGED <<now, environment, holidayKey, hoursKey, nextKey, past, deployments>>

\* market_hours: only a computed answer asks is_early_close.
Hours(short, d) == IF ~short THEN "full" ELSE IF d \in environment.early THEN "configured" ELSE "13:00"
MarketHours(d) ==
  /\ hoursKey' = Kept(hoursKey, d, Hours(Answer(earlyKey, d, Short(environment, d)), d))
  /\ earlyKey' = IF hoursKey[d] # NoAnswer THEN earlyKey ELSE Kept(earlyKey, d, Short(environment, d))
  /\ UNCHANGED <<now, environment, holidayKey, nextKey, past, deployments>>

\* next_trading_day: day by day; weekends are not looked up, every other day is.
OpenOn(d) == d \notin Weekends /\ ~Answer(holidayKey, d, Closed(environment, d))
TradingDayAfter(d) == CHOOSE e \in Days : e > d /\ OpenOn(e) /\ \A c \in Days : d < c /\ c < e => ~OpenOn(c)
NextTradingDay(d) ==
  LET found == TradingDayAfter(d)
  IN /\ d < LastDay
     /\ nextKey' = Kept(nextKey, d, found)
     /\ holidayKey' = IF nextKey[d] # NoAnswer THEN holidayKey
                      ELSE [c \in Days |-> IF d < c /\ c <= found /\ c \notin Weekends
                                           THEN Kept(holidayKey, c, Closed(environment, c))[c]
                                           ELSE holidayKey[c]]
     /\ UNCHANGED <<now, environment, earlyKey, hoursKey, past, deployments>>

Deploy ==
  /\ deployments < MaxDeployments /\ deployments' = deployments + 1
  /\ environment' \in [holidays : Holidays, early : EarlyCloses] \ {environment}
  /\ past' = [past EXCEPT ![now + 1] = @ \cup {environment'}]
  /\ UNCHANGED <<now, holidayKey, earlyKey, hoursKey, nextKey>>

\* Redis drops what is a day old; it may also drop, or fail to store, anything.
AliveAnyTime(entry, time) == entry # NoAnswer                      \* mutant: SET instead of SETEX
Alive(entry, time) == entry # NoAnswer /\ time - entry.at < Ttl
Surviving(key, time) == [d \in Days |-> IF Alive(key[d], time) THEN key[d] ELSE NoAnswer]
TimePasses ==
  /\ now < MaxNow /\ now' = now + 1
  /\ holidayKey' = Surviving(holidayKey, now + 1) /\ earlyKey' = Surviving(earlyKey, now + 1)
  /\ hoursKey' = Surviving(hoursKey, now + 1) /\ nextKey' = Surviving(nextKey, now + 1)
  /\ past' = [i \in 1..(now + 2) |-> IF i = now + 2 THEN {environment} ELSE past[i]]
  /\ UNCHANGED <<environment, deployments>>
RedisForgets ==
  /\ holidayKey' = [d \in Days |-> NoAnswer] /\ earlyKey' = [d \in Days |-> NoAnswer]
  /\ hoursKey' = [d \in Days |-> NoAnswer] /\ nextKey' = [d \in Days |-> NoAnswer]
  /\ UNCHANGED <<now, environment, past, deployments>>

CalendarNext ==
  \/ \E d \in AskedDays : IsHoliday(d) \/ IsEarlyClose(d) \/ MarketHours(d) \/ NextTradingDay(d)
  \/ Deploy \/ TimePasses \/ RedisForgets

CalendarSpec == CalendarInit /\ [][CalendarNext]_calendarVars

-----------------------------------------------------------------------------
(* Property *)

Lately(age) == UNION {past[i] : i \in {k \in DOMAIN past : k - 1 + age > now}}
HeldLately(P(_), age) == \E env \in Lately(age) : P(env)

\* How stale the calendar can be: what it says of a day was so in the environment
\* of the last Ttl, but what it builds on other answers only in that of the last two:
\* each day it skips was closed, and the day it names open, at some time within them
\* (not necessarily the same time).
AnswersAreRecent ==
  \A d \in Days :
    /\ holidayKey[d] # NoAnswer =>
         HeldLately(LAMBDA env : Closed(env, d) = holidayKey[d].answer, Ttl)
    /\ earlyKey[d] # NoAnswer => HeldLately(LAMBDA env : Short(env, d) = earlyKey[d].answer, Ttl)
    /\ hoursKey[d] # NoAnswer =>
         HeldLately(LAMBDA env : Short(env, d) = (hoursKey[d].answer # "full"), 2 * Ttl)
    /\ nextKey[d] # NoAnswer =>
         \A c \in (d + 1)..nextKey[d].answer : c \notin Weekends =>
           HeldLately(LAMBDA env : Closed(env, c) = (c # nextKey[d].answer), 2 * Ttl)
=============================================================================
