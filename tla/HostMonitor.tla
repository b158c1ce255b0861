------------------------------- MODULE HostMonitor -------------------------------
(* The host's monitor of one container (docker/host-monitor.sh): each poll reads *)
(* the container's health and its state file, and restarts what is unhealthy,    *)
(* but after MaxInWindow restarts within the window not before a backoff.  The   *)
(* container, the clock and a crash of the script come between any two of its    *)
(* steps.                                                                        *)
EXTENDS Naturals, Sequences

CONSTANTS
  RestartWindow, Backoff, MaxInWindow,      \* COOLDOWN_* and MAX_RESTARTS_IN_WINDOW
  MaxMinutes, MaxMonitorCrashes             \* bounds

ASSUME MonitorAssumption ==
  {RestartWindow, Backoff, MaxInWindow} \subseteq Nat \ {0} /\ {MaxMinutes, MaxMonitorCrashes} \subseteq Nat

VARIABLES
  minute, health,
  recent, cooldownUntil,      \* the state file; 0 where it names no cooldown
  poll,                       \* where run_once is: "idle", "restarting" or "restarted"
  remedies,                   \* when each restart was recorded (history)
  monitorCrashes

monitorVars == <<minute, health, recent, cooldownUntil, poll, remedies, monitorCrashes>>

MonitorInit ==
  /\ minute = 0 /\ health = "starting"
  /\ recent = <<>> /\ cooldownUntil = 0 /\ poll = "idle"
  /\ remedies = <<>> /\ monitorCrashes = 0

\* run_once up to docker restart.  A cooldown is over before it is cleared.
RunOnceClearsFirst ==                                     \* mutant: the two checks swapped
  /\ poll = "idle"
  /\ IF health = "healthy" THEN cooldownUntil' = 0 /\ UNCHANGED poll
     ELSE /\ ~(minute < cooldownUntil)
          /\ poll' = (IF health = "starting" THEN "idle" ELSE "restarting") /\ UNCHANGED cooldownUntil
  /\ UNCHANGED <<minute, health, recent, remedies, monitorCrashes>>
RunOnce ==
  /\ poll = "idle" /\ ~(minute < cooldownUntil)
  /\ IF health = "healthy" THEN cooldownUntil' = 0 /\ UNCHANGED poll
     ELSE poll' = (IF health = "starting" THEN "idle" ELSE "restarting") /\ UNCHANGED cooldownUntil
  /\ UNCHANGED <<minute, health, recent, remedies, monitorCrashes>>

\* docker restart, which may fail: that is not recorded.
RestartContainer ==
  /\ poll = "restarting"
  /\ \/ poll' = "restarted" /\ health' = "starting"
     \/ poll' = "idle" /\ UNCHANGED health
  /\ UNCHANGED <<minute, recent, cooldownUntil, remedies, monitorCrashes>>

\* What is past the window is dropped: the first "old" of them, as they are in order.
RecordRestart ==
  /\ poll = "restarted" /\ poll' = "idle"
  /\ \E old \in 0..Len(recent) :
       /\ \A i \in 1..Len(recent) : i > old <=> recent[i] + RestartWindow >= minute
       /\ recent' = Append(SubSeq(recent, old + 1, Len(recent)), minute)
  /\ cooldownUntil' = IF Len(recent') >= MaxInWindow THEN minute + Backoff ELSE cooldownUntil
  /\ remedies' = Append(remedies, minute)
  /\ UNCHANGED <<minute, health, monitorCrashes>>

\* The script dies and is started again (systemd, launchd, cron).
MonitorCrashes ==
  /\ poll # "idle" /\ monitorCrashes < MaxMonitorCrashes
  /\ poll' = "idle" /\ monitorCrashes' = monitorCrashes + 1
  /\ UNCHANGED <<minute, health, recent, cooldownUntil, remedies>>

HealthChanges ==
  /\ health' \in {"starting", "healthy", "unhealthy", "none"} \ {health}
  /\ UNCHANGED <<minute, recent, cooldownUntil, poll, remedies, monitorCrashes>>
MinutePasses ==
  /\ minute < MaxMinutes /\ minute' = minute + 1
  /\ UNCHANGED <<health, recent, cooldownUntil, poll, remedies, monitorCrashes>>

MonitorNext ==
  RunOnce \/ RestartContainer \/ RecordRestart \/ MonitorCrashes \/ HealthChanges \/ MinutePasses

MonitorSpec == MonitorInit /\ [][MonitorNext]_monitorVars

\* "3 restarts in 15 min -> 30 min backoff", however the container's health goes up
\* and down, as far as the restarts are recorded: after so many within the window the
\* next comes no earlier than the backoff.
RestartsBackOff ==
  \A k \in 1..Len(remedies) : k > MaxInWindow =>
    (remedies[k - 1] - remedies[k - MaxInWindow] <= RestartWindow => remedies[k] - remedies[k - 1] >= Backoff)
=============================================================================
