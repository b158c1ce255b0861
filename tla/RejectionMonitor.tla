----------------------------- MODULE RejectionMonitor -----------------------------
(* The rejection monitor (actors/rejection_monitor.py): it counts the rejections *)
(* of an instrument, strategy and reason, and asks for a halt when enough come   *)
(* one after the other, each within the cooldown of the one before.              *)
EXTENDS Naturals, Sequences, FiniteSets

CONSTANTS
  RejectionKeys,              \* (instrument, strategy, reason)
  StrategyOf,                 \* of a key
  MaxConsecutive, CooldownTime,
  MaxRejections, MaxTicks     \* bounds

ASSUME RejectionAssumption ==
  {MaxConsecutive, MaxRejections} \subseteq Nat \ {0} /\ {CooldownTime, MaxTicks} \subseteq Nat

VARIABLES
  tick,
  counter,                    \* per key: [count, last, halted]
  haltKeys,                   \* sam:rejection_halt:{strategy}
  haltWrites,                 \* strategies whose Redis write is under way
  rejected, requested         \* per key: when rejected, and at which of them a halt (history)

rejectionVars == <<tick, counter, haltKeys, haltWrites, rejected, requested>>

Fresh == [count |-> 0, last |-> 0, halted |-> FALSE]

RejectionInit ==
  /\ tick = 0 /\ counter = [k \in RejectionKeys |-> Fresh]
  /\ haltKeys = {} /\ haltWrites = {}
  /\ rejected = [k \in RejectionKeys |-> <<>>] /\ requested = [k \in RejectionKeys |-> {}]

\* A rejection after the cooldown starts afresh.
CountedHalted(record) ==                                  \* mutant: halted is kept
  IF record.count > 0 /\ tick - record.last > CooldownTime THEN [record EXCEPT !.count = 1, !.last = tick]
  ELSE [record EXCEPT !.count = @ + 1, !.last = tick]
Counted(record) ==
  IF tick - record.last > CooldownTime THEN [count |-> 1, last |-> tick, halted |-> FALSE]
  ELSE [record EXCEPT !.count = @ + 1, !.last = tick]

ProcessRejection(k) ==
  LET record == Counted(counter[k])
      halts == record.count >= MaxConsecutive /\ ~record.halted
  IN /\ Len(rejected[k]) < MaxRejections
     /\ counter' = [counter EXCEPT ![k] = [record EXCEPT !.halted = @ \/ halts]]
     /\ haltWrites' = IF halts THEN haltWrites \cup {StrategyOf[k]} ELSE haltWrites
     /\ rejected' = [rejected EXCEPT ![k] = Append(@, tick)]
     /\ requested' = IF halts THEN [requested EXCEPT ![k] = @ \cup {Len(rejected[k]) + 1}] ELSE requested
     /\ UNCHANGED <<tick, haltKeys>>

\* The write of a task of its own; a failure is nobody's.
HaltWritten(s) ==
  /\ s \in haltWrites /\ haltWrites' = haltWrites \ {s}
  /\ haltKeys' \in {haltKeys, haltKeys \cup {s}}
  /\ UNCHANGED <<tick, counter, rejected, requested>>

\* A new process counts from nothing; what Redis has stays.
RejectionMonitorBoots ==
  /\ counter' = [k \in RejectionKeys |-> Fresh] /\ haltWrites' = {}
  /\ rejected' = [k \in RejectionKeys |-> <<>>] /\ requested' = [k \in RejectionKeys |-> {}]
  /\ UNCHANGED <<tick, haltKeys>>
Ticks ==
  /\ tick < MaxTicks /\ tick' = tick + 1
  /\ UNCHANGED <<counter, haltKeys, haltWrites, rejected, requested>>

RejectionNext ==
  \/ \E k \in RejectionKeys : ProcessRejection(k)
  \/ \E s \in haltWrites : HaltWritten(s)
  \/ RejectionMonitorBoots \/ Ticks

RejectionSpec == RejectionInit /\ [][RejectionNext]_rejectionVars

\* Counting as it goes finds the streaks: of one process, a halt is asked for at
\* exactly the rejections that are the MaxConsecutive-th since the last pause longer
\* than the cooldown, or since the beginning, and so once per streak.
StreakFrom(times, j) == j = 1 \/ times[j] - times[j - 1] > CooldownTime
HaltsAtStreaks ==
  \A k \in RejectionKeys :
    LET times == rejected[k]
        starts(i) == {j \in 1..i : StreakFrom(times, j) /\ \A n \in (j + 1)..i : ~StreakFrom(times, n)}
    IN requested[k] = {i \in DOMAIN times : \E j \in starts(i) : i - j + 1 = MaxConsecutive}
=============================================================================
