------------------------------ MODULE TraderHealth ------------------------------
(* How the trader tells that it is well: the heartbeat (actors/health_monitor.py) *)
(* with the breaker that reads it (services/safety.py), and the readiness check   *)
(* at the start of the day (actors/readiness_checker.py).  Alerts are one-shot:   *)
(* each handler sets the next.  The clock stops for an alert that is due; a write *)
(* to Redis, a task of its own, and a readiness check take up to a tick.  The     *)
(* telemetry of bars and connections, which only a dashboard shows, is left out.  *)
EXTENDS Naturals, FiniteSets

CONSTANTS
  Watched,                       \* instrument_ids of the readiness check
  Beat,                          \* interval of the heartbeat
  BeatTimeout,                   \* connectivity_timeout_secs
  FreshFor,                      \* _quote_stale_threshold
  BundlesLoaded,                 \* bundle_count > 0
  DayTicks, CheckAt,             \* sod_readiness_time
  TradingDays,
  MaxSecond, MaxHealthFaults, MaxHealthStops     \* bounds

\* A heartbeat's write is over before the next is sent, so none overtakes another.
ASSUME HealthAssumption ==
  /\ IsFiniteSet(Watched) /\ BundlesLoaded \in BOOLEAN
  /\ {Beat, DayTicks} \subseteq Nat \ {0, 1} /\ Beat + 1 <= BeatTimeout /\ CheckAt + 1 < DayTicks
  /\ {BeatTimeout, FreshFor, CheckAt, MaxSecond, MaxHealthFaults, MaxHealthStops} \subseteq Nat
  /\ TradingDays \subseteq Nat

VARIABLES
  second,
  actors,                        \* "up", "stopped", or "down" with the process
  beatAlert, checkAlert,         \* when the alerts are due
  account, resolved,             \* of the cache: an account, with its balances; instruments
  quoteAge,                      \* per instrument; any age that is not fresh is one
  flying,                        \* heartbeats on their way, by their timestamps
  beatShown,                     \* sam:heartbeat:last
  checking,                      \* the readiness check under way: [at, step, passed]
  readiness,                     \* per day: the report of sam:readiness
  since,                         \* when the actors started or stopped (history)
  faultAt,                       \* the last write that failed (history)
  healthFaults, healthStops

healthVars == <<second, actors, beatAlert, checkAlert, account, resolved, quoteAge, flying,
                beatShown, checking, readiness, since, faultAt, healthFaults, healthStops>>
healthCache == <<account, resolved, quoteAge>>
healthHistory == <<since, faultAt, healthFaults, healthStops>>

NoTime == MaxSecond + 2 * DayTicks
Date(t) == t \div DayTicks
Stale == FreshFor + 1
NoCheck == [at |-> NoTime, step |-> "none", passed |-> FALSE]

HealthInit ==
  /\ second = 0 /\ actors = "down"
  /\ beatAlert = NoTime /\ checkAlert = NoTime
  /\ account = FALSE /\ resolved = {}
  /\ quoteAge = [i \in Watched |-> Stale]
  /\ flying = {} /\ beatShown = NoTime
  /\ checking = NoCheck /\ readiness = [d \in 0..Date(MaxSecond) |-> "none"]
  /\ since = 0 /\ faultAt = 0 /\ healthFaults = 0 /\ healthStops = 0

-----------------------------------------------------------------------------
(* Lifecycle, and what the actors are told *)

\* _compute_next_alert_utc: a time of today that is not past yet.
NextCheck(t) == IF t % DayTicks < CheckAt THEN Date(t) * DayTicks + CheckAt
                ELSE (Date(t) + 1) * DayTicks + CheckAt

\* At boot the clients have connected, whatever they brought.
HealthStarts ==
  /\ actors # "up" /\ actors' = "up" /\ since' = second
  /\ beatAlert' = second + Beat /\ checkAlert' = NextCheck(second)
  /\ IF actors = "down" THEN account' \in BOOLEAN /\ resolved' \in SUBSET Watched
     ELSE UNCHANGED <<account, resolved>>
  /\ UNCHANGED <<second, quoteAge, flying, beatShown, checking, readiness, faultAt,
                 healthFaults, healthStops>>

HealthStops ==
  /\ actors = "up" /\ healthStops < MaxHealthStops /\ healthStops' = healthStops + 1
  /\ actors' = "stopped" /\ since' = second
  /\ beatAlert' = NoTime /\ checkAlert' = NoTime
  /\ UNCHANGED <<second, healthCache, flying, beatShown, checking, readiness, faultAt,
                 healthFaults>>

\* The process takes the memory, the tasks and the cache with it.
HealthDies ==
  /\ actors # "down" /\ healthStops < MaxHealthStops /\ healthStops' = healthStops + 1
  /\ actors' = "down" /\ since' = second
  /\ beatAlert' = NoTime /\ checkAlert' = NoTime
  /\ account' = FALSE /\ resolved' = {}
  /\ quoteAge' = [i \in Watched |-> Stale]
  /\ flying' = {} /\ checking' = NoCheck
  /\ UNCHANGED <<second, beatShown, readiness, faultAt, healthFaults>>

AccountArrives ==
  /\ actors # "down" /\ ~account
  /\ account' = TRUE
  /\ UNCHANGED <<second, actors, beatAlert, checkAlert, resolved, quoteAge, flying,
                 beatShown, checking, readiness, healthHistory>>
OnQuoteTick(i) ==
  /\ actors = "up" /\ i \in resolved /\ quoteAge' = [quoteAge EXCEPT ![i] = 0]
  /\ UNCHANGED <<second, actors, beatAlert, checkAlert, account, resolved, flying,
                 beatShown, checking, readiness, healthHistory>>

-----------------------------------------------------------------------------
(* The heartbeat *)

OnHeartbeatOnce ==                                      \* mutant: the alert is not set again
  /\ beatAlert <= second
  /\ flying' = flying \cup {second}
  /\ beatAlert' = NoTime
  /\ UNCHANGED <<second, actors, checkAlert, healthCache, beatShown, checking, readiness,
                 healthHistory>>
OnHeartbeat ==
  /\ beatAlert <= second
  /\ flying' = flying \cup {second}
  /\ beatAlert' = second + Beat
  /\ UNCHANGED <<second, actors, checkAlert, healthCache, beatShown, checking, readiness,
                 healthHistory>>

WriteArrives(w) ==
  /\ flying' = flying \ {w} /\ beatShown' = w
  /\ UNCHANGED <<second, actors, beatAlert, checkAlert, healthCache, checking, readiness,
                 healthHistory>>
WriteIsLost(w) ==
  /\ healthFaults < MaxHealthFaults /\ healthFaults' = healthFaults + 1
  /\ flying' = flying \ {w} /\ faultAt' = second
  /\ UNCHANGED <<second, actors, beatAlert, checkAlert, healthCache, beatShown, checking,
                 readiness, since, healthStops>>

\* check_connectivity_breaker
Breaker == IF beatShown = NoTime THEN "no_heartbeat"
           ELSE IF second - beatShown > BeatTimeout THEN "timeout" ELSE "fresh"

-----------------------------------------------------------------------------
(* The readiness check *)

\* All but the last two checks.  Without instruments theirs are skipped, which counts as passed.
QuotesFlow == Watched = {} \/ \E i \in Watched : quoteAge[i] <= FreshFor
FirstChecks == account /\ QuotesFlow /\ Watched \subseteq resolved /\ BundlesLoaded

OnReadinessCheck ==
  /\ checkAlert <= second /\ checkAlert' = NextCheck(second)
  /\ checking' = [at |-> second, step |-> "pinging", passed |-> FirstChecks]
  /\ UNCHANGED <<second, actors, beatAlert, healthCache, flying, beatShown, readiness,
                 healthHistory>>

\* Redis and PostgreSQL answer or not; the day is the one the check began on.
PingsEnd ==
  /\ checking.step = "pinging"
  /\ \E healthy \in BOOLEAN :
       checking' = [checking EXCEPT !.step = "writing",
                      !.passed = @ /\ healthy /\ Date(checking.at) \in TradingDays]
  /\ UNCHANGED <<second, actors, beatAlert, checkAlert, healthCache, flying, beatShown,
                 readiness, healthHistory>>
ReportArrives ==
  /\ checking.step = "writing" /\ checking' = NoCheck
  /\ readiness' = [readiness EXCEPT ![Date(checking.at)] =
                     IF checking.passed THEN "PASS" ELSE "FAIL"]
  /\ UNCHANGED <<second, actors, beatAlert, checkAlert, healthCache, flying, beatShown,
                 healthHistory>>
ReportIsLost ==
  /\ checking.step = "writing" /\ checking' = NoCheck
  /\ healthFaults < MaxHealthFaults /\ healthFaults' = healthFaults + 1 /\ faultAt' = second
  /\ UNCHANGED <<second, actors, beatAlert, checkAlert, healthCache, flying, beatShown,
                 readiness, since, healthStops>>

SecondPasses ==
  /\ second < MaxSecond /\ second < beatAlert /\ second < checkAlert
  /\ \A w \in flying : w = second
  /\ checking # NoCheck => checking.at = second
  /\ second' = second + 1
  /\ quoteAge' = [i \in Watched |-> IF quoteAge[i] < Stale THEN quoteAge[i] + 1 ELSE Stale]
  /\ UNCHANGED <<actors, beatAlert, checkAlert, account, resolved, flying, beatShown,
                 checking, readiness, healthHistory>>

HealthNext ==
  \/ HealthStarts \/ HealthStops \/ HealthDies \/ AccountArrives
  \/ OnHeartbeat \/ OnReadinessCheck \/ PingsEnd \/ ReportArrives \/ ReportIsLost \/ SecondPasses
  \/ \E i \in Watched : OnQuoteTick(i)
  \/ \E w \in flying : WriteArrives(w) \/ WriteIsLost(w)

HealthSpec == HealthInit /\ [][HealthNext]_healthVars

-----------------------------------------------------------------------------
(* Properties *)

\* The breaker is silent about a trader that has been up for an interval, since its
\* start or the last write that failed, and speaks up once one is gone for longer than
\* the timeout, through stops, crashes and late writes.
Since(t, n) == second > t + n
AlarmIsTrue ==
  /\ actors = "up" /\ Since(since, Beat + 1) /\ Since(faultAt, Beat + 1) => Breaker = "fresh"
  /\ actors # "up" /\ Since(since, BeatTimeout) => Breaker # "fresh"

\* Every day whose time of the check the actors saw has a report, where no write failed;
\* and none passes on a day without trading.
DaysAreChecked ==
  \A d \in DOMAIN readiness :
    LET due == d * DayTicks + CheckAt IN
    /\ actors = "up" /\ since < due /\ Since(due, 1) /\ healthFaults = 0 =>
         readiness[d] # "none"
    /\ readiness[d] = "PASS" => d \in TradingDays /\ BundlesLoaded

HealthIsTold == AlarmIsTrue /\ DaysAreChecked
=============================================================================
