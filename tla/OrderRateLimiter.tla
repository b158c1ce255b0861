--------------------------- MODULE OrderRateLimiter ---------------------------
(* The sliding-window throttle in front of Futu order placement                 *)
(* (adapters/futu/execution.py, class OrderRateLimiter).  Every strategy's      *)
(* submission task awaits acquire(); the code runs without interruption except  *)
(* while it sleeps, so an acquire is one step up to the sleep and one after it. *)
(* Time is in the units of WindowSeconds; several steps can share an instant.   *)
EXTENDS Integers, Sequences, FiniteSets

CONSTANTS Callers,        \* submission tasks
          MaxOrders, WindowSeconds,
          MaxThrottleDelay,
          Instants,       \* the times the clock is read at (a bound)
          MaxAcquires     \* bound on the calls of acquire()

ASSUME LimiterAssumption ==
  /\ {MaxOrders, WindowSeconds, MaxThrottleDelay, MaxAcquires} \subseteq Nat \ {0}
  /\ Instants \subseteq Nat \ {0} /\ 1 \in Instants

VARIABLES now,
          timestamps,     \* _timestamps, oldest first
          wakeAt,         \* per caller: when its sleep ends, or Awake
          placed          \* every time at which an order was let through

limiterVars == <<now, timestamps, wakeAt, placed>>

Awake == 0

LimiterInit ==
  /\ now = 1
  /\ timestamps = <<>>
  /\ wakeAt = [c \in Callers |-> Awake]
  /\ placed = <<>>

\* "Expire timestamps outside the window": from the left, while the oldest is before
\* the cutoff; what is kept.
PastCutoffAll(t) == t <= now                            \* mutant
PastCutoff(t) == t < now - WindowSeconds
Expired == {n \in 0..Len(timestamps) :
  /\ \A k \in 1..n : PastCutoff(timestamps[k])
  /\ n < Len(timestamps) => ~PastCutoff(timestamps[n + 1])}
Unexpired == {SubSeq(timestamps, n + 1, Len(timestamps)) : n \in Expired}

LetThrough(ts) ==
  /\ timestamps' = Append(ts, now)
  /\ placed' = Append(placed, now)

\* The sleep: until the oldest slot expires, but never longer than the cap.
Delay(ts) ==
  LET wait == Head(ts) + WindowSeconds - now
  IN IF wait <= 0 THEN 0 ELSE IF wait < MaxThrottleDelay THEN wait ELSE MaxThrottleDelay

\* acquire(), up to its return or its sleep.
Acquire(c) ==
  /\ wakeAt[c] = Awake
  /\ Len(placed) + Cardinality({d \in Callers : wakeAt[d] # Awake}) < MaxAcquires
  /\ \E kept \in Unexpired :
       IF Len(kept) < MaxOrders \/ Delay(kept) = 0
       THEN LetThrough(kept) /\ UNCHANGED wakeAt
       ELSE /\ timestamps' = kept
            /\ wakeAt' = [wakeAt EXCEPT ![c] = now + Delay(kept)]
            /\ UNCHANGED placed
  /\ UNCHANGED now

\* acquire(), after its sleep: the slot is taken whether or not one is free.
Resume(c) ==
  /\ wakeAt[c] # Awake
  /\ now >= wakeAt[c]
  /\ \E kept \in Unexpired : LetThrough(kept)
  /\ wakeAt' = [wakeAt EXCEPT ![c] = Awake]
  /\ UNCHANGED now

TimePasses ==
  /\ \E t \in Instants :
       /\ t > now
       /\ \A u \in Instants : u <= now \/ u >= t
       /\ now' = t
  /\ UNCHANGED <<timestamps, wakeAt, placed>>

LimiterNext ==
  \/ \E c \in Callers : Acquire(c) \/ Resume(c)
  \/ TimePasses

LimiterSpec == LimiterInit /\ [][LimiterNext]_limiterVars

-----------------------------------------------------------------------------

\* "Maximum orders allowed within window_seconds": no window of that length, open
\* at its start, lets more orders through than the limit.
PlacedIn(from, to) == {n \in DOMAIN placed : from < placed[n] /\ placed[n] <= to}
WindowRespected ==
  \A from \in Instants \cup {0} : Cardinality(PlacedIn(from, from + WindowSeconds)) <= MaxOrders

\* Whatever the tasks asleep do later, an order let through without a sleep never
\* makes the window that ends with it exceed the limit; unless one was let through
\* a window ago to the instant, which is neither expired nor waited for.
ImmediateWithinLimit ==
  [][placed' # placed /\ wakeAt' = wakeAt =>
       \/ Cardinality(PlacedIn(now - WindowSeconds, now)') <= MaxOrders
       \/ \E n \in DOMAIN placed : placed[n] = now - WindowSeconds]_limiterVars
=============================================================================
