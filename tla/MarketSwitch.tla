----------------------------- MODULE MarketSwitch -----------------------------
(* Switching the trader between the US and the HK market, and restarting it:    *)
(* the scheduler actor and two CLI commands ask (actors/market_scheduler.py,    *)
(* services/cli.py), the orchestrator thread of sam-services answers            *)
(* (services/restart_orchestrator.py), the trader saves its state on request    *)
(* (restart_subscriber.py) and announces its boots (main.py).  All of it runs   *)
(* over Redis pub/sub, which keeps nothing for a subscriber that is not there,  *)
(* and docker, which starts the container with the MARKET of the .env file.     *)
EXTENDS Naturals, Sequences

CONSTANTS Markets, NoMarket,
          MaxSwitches, MaxRestarts,  \* bounds: sam switch-market, sam restart commands
          MaxQueue,                  \* requests waiting at the orchestrator or the trader
          MaxFaults,                 \* .env writes, Redis calls and saves that fail
          MaxDockerFaults,           \* docker restarts that fail, raise or hang
          MaxTicks                   \* alert times that pass

ASSUME SwitchAssumption ==
  /\ NoMarket \notin Markets
  /\ {MaxSwitches, MaxRestarts, MaxQueue, MaxFaults, MaxDockerFaults, MaxTicks} \subseteq Nat

VARIABLES
  env,         \* MARKET in the .env file
  trader,      \* the container's process: how far it has booted, and its MARKET
  saved,       \* this process has saved its state
  loadedKey,   \* the key sam:state_loaded exists
  subscriber,  \* RestartSubscriber: "off", "idle", "waiting" or "publishing"
  graceful,    \* sam:restart_request messages it has yet to read
  saves,       \* saves scheduled on the node's loop
  alerts,      \* alert times the scheduler actor has armed
  orc,         \* the orchestrator: its step, the switch at hand, what it heard
  requests,    \* sam:market_switch_request messages it has yet to read
  switcher,    \* the step of sam switch-market
  restarter,   \* sam restart: its step, and what it heard
  time,        \* the part of the day that began at the last alert time
  switches, restarts, faults, dockerFaults, ticks,
  refused      \* a switch the scheduler asked for was refused as invalid (history)

redisState == <<loadedKey, graceful, requests>>
process    == <<trader, saved, subscriber, saves, alerts>>
commands   == <<switcher, restarter, switches, restarts>>
vars == <<env, trader, saved, loadedKey, subscriber, graceful, saves, alerts, orc, requests,
          switcher, restarter, time, switches, restarts, faults, dockerFaults, ticks, refused>>

SwitchRequests == [from : {"scheduler", "operator"}, market : Markets \cup {NoMarket}]
Stages == {"building", "loaded", "listening", "running"}
Times == {"window", "day", "evening"}     \* from 04:00, 07:00 and 16:00 Hong Kong time
After == [window |-> "day", day |-> "evening", evening |-> "window"]
Switching == {"request", "waitSaved", "update", "restart", "undo", "poll", "rollback",
              "restartBack"}
OrcSteps == Switching \cup {"idle", "dead", "hung"}
NoSwitch == [pc |-> "idle", target |-> NoMarket, previous |-> NoMarket, heard |-> FALSE]

Init ==
  /\ env \in Markets
  /\ trader = [stage |-> "running", market |-> env]
  /\ saved = FALSE /\ loadedKey = FALSE
  /\ subscriber = "idle" /\ graceful = 0 /\ saves = 0
  /\ alerts = Times
  /\ orc = NoSwitch /\ requests = <<>>
  /\ switcher = "idle"
  /\ restarter = [pc |-> "idle", heard |-> FALSE]
  /\ time = "day"
  /\ switches = 0 /\ restarts = 0 /\ faults = 0 /\ dockerFaults = 0 /\ ticks = 0
  /\ refused = FALSE

Fault == faults < MaxFaults /\ faults' = faults + 1
DockerFault == dockerFaults < MaxDockerFaults /\ dockerFaults' = dockerFaults + 1

-----------------------------------------------------------------------------
(* The trader: boot, and the save on request *)

\* docker compose restart: a new process boots with the MARKET of the file.
DockerRestarts ==
  /\ trader' = [stage |-> "building", market |-> env]
  /\ saved' = FALSE
  /\ subscriber' = "off" /\ graceful' = 0 /\ saves' = 0
  /\ alerts' = {}

\* main(): the node is built, the key set for 60 seconds, then the subscriber
\* starts, then the node runs and the scheduler actor arms its alerts.
NotifyStateLoaded ==
  /\ trader.stage = "building"
  /\ trader' = [trader EXCEPT !.stage = "loaded"]
  /\ loadedKey' = TRUE
  /\ UNCHANGED <<env, saved, subscriber, graceful, saves, alerts, orc, requests, commands,
                 time, faults, dockerFaults, ticks, refused>>

KeyExpires ==
  /\ loadedKey
  /\ loadedKey' = FALSE
  /\ UNCHANGED <<env, process, graceful, orc, requests, commands, time, faults,
                 dockerFaults, ticks, refused>>

SubscriberStarts ==
  /\ trader.stage = "loaded"
  /\ trader' = [trader EXCEPT !.stage = "listening"]
  /\ subscriber' = "idle"
  /\ UNCHANGED <<env, saved, redisState, saves, alerts, orc, commands, time, faults,
                 dockerFaults, ticks, refused>>

NodeRuns ==
  /\ trader.stage = "listening"
  /\ trader' = [trader EXCEPT !.stage = "running"]
  /\ alerts' = Times
  /\ UNCHANGED <<env, saved, redisState, subscriber, saves, orc, commands, time, faults,
                 dockerFaults, ticks, refused>>

\* _save_state before the node's loop runs saves at once; afterwards it schedules
\* the save and waits for it, for so long.
SaveAtOnce ==
  /\ subscriber = "idle" /\ graceful > 0
  /\ trader.stage = "listening"
  /\ graceful' = graceful - 1
  /\ \/ saved' = TRUE /\ subscriber' = "publishing" /\ UNCHANGED faults
     \/ Fault /\ UNCHANGED <<saved, subscriber>>
  /\ UNCHANGED <<env, trader, loadedKey, saves, alerts, orc, requests, commands, time,
                 dockerFaults, ticks, refused>>

ScheduleSave ==
  /\ subscriber = "idle" /\ graceful > 0
  /\ trader.stage = "running"
  /\ graceful' = graceful - 1
  /\ saves' = saves + 1
  /\ subscriber' = "waiting"
  /\ UNCHANGED <<env, trader, saved, loadedKey, alerts, orc, requests, commands, time, faults,
                 dockerFaults, ticks, refused>>

\* The loop runs the oldest save; the one waited for is the newest.
SaveRuns ==
  LET waitedFor == subscriber = "waiting" /\ saves = 1
  IN /\ saves > 0
     /\ saves' = saves - 1
     /\ \/ /\ saved' = TRUE
           /\ subscriber' = IF waitedFor THEN "publishing" ELSE subscriber
           /\ UNCHANGED faults
        \/ /\ Fault
           /\ subscriber' = IF waitedFor THEN "idle" ELSE subscriber
           /\ UNCHANGED saved
     /\ UNCHANGED <<env, trader, redisState, alerts, orc, commands, time, dockerFaults,
                    ticks, refused>>

SaveTimesOut ==
  /\ subscriber = "waiting"
  /\ subscriber' = "idle"
  /\ UNCHANGED <<env, trader, saved, redisState, saves, alerts, orc, commands, time, faults,
                 dockerFaults, ticks, refused>>

\* sam:state_saved reaches everyone subscribed to it, whoever asked for the save;
\* a publish that fails is logged and reaches nobody.
Hearing == {"request", "waitSaved"}
PublishSaved ==
  /\ subscriber = "publishing"
  /\ subscriber' = "idle"
  /\ \/ UNCHANGED <<orc, restarter>>
     \/ /\ orc' = [orc EXCEPT !.heard = @ \/ orc.pc \in Hearing]
        /\ restarter' = [restarter EXCEPT !.heard = @ \/ restarter.pc \in Hearing]
  /\ UNCHANGED <<env, trader, saved, redisState, saves, alerts, switcher, time, switches,
                 restarts, faults, dockerFaults, ticks, refused>>

\* Redis fails under the listener: its thread ends, the trader runs on.
SubscriberEnds ==
  /\ subscriber = "idle"
  /\ Fault
  /\ subscriber' = "off" /\ graceful' = 0
  /\ UNCHANGED <<env, trader, saved, loadedKey, saves, alerts, orc, requests, commands, time,
                 dockerFaults, ticks, refused>>

-----------------------------------------------------------------------------
(* Who asks: the scheduler's alerts, sam switch-market, sam restart *)

\* What payload.get("market") makes of a request: the scheduler's names it "target".
SchedulerRequest == [from |-> "scheduler", market |-> NoMarket]
OperatorRequest(m) == [from |-> "operator", market |-> m]

RequestSwitch(req) ==
  IF orc.pc = "dead" THEN UNCHANGED requests
  ELSE Len(requests) < MaxQueue /\ requests' = Append(requests, req)

RequestGraceful ==
  IF subscriber = "off" THEN UNCHANGED graceful
  ELSE graceful < MaxQueue /\ graceful' = graceful + 1

\* An alert fires once: the HK close and the US close run the pre-switch gate,
\* which passes or not (calendar, positions, brokers); nothing arms it again.
Alert ==
  /\ ticks < MaxTicks
  /\ ticks' = ticks + 1
  /\ time' = After[time]
  /\ IF trader.stage = "running" /\ time' \in alerts
     THEN /\ alerts' = alerts \ {time'}
          /\ \/ UNCHANGED requests
             \/ time' \in {"evening", "window"} /\ RequestSwitch(SchedulerRequest)
     ELSE UNCHANGED <<alerts, requests>>
  /\ UNCHANGED <<env, trader, saved, loadedKey, subscriber, graceful, saves, orc, commands,
                 faults, dockerFaults, refused>>

\* The command publishes its request, and only then subscribes to the answers.
SwitchMarket(m) ==
  /\ switcher = "idle"
  /\ switches < MaxSwitches
  /\ switches' = switches + 1
  /\ RequestSwitch(OperatorRequest(m))
  /\ switcher' = "published"
  /\ UNCHANGED <<env, process, loadedKey, graceful, orc, restarter, time, restarts, faults,
                 dockerFaults, ticks, refused>>

SwitcherSubscribes ==
  /\ switcher = "published"
  /\ switcher' = "waiting"
  /\ UNCHANGED <<env, process, redisState, orc, restarter, time, switches, restarts, faults,
                 dockerFaults, ticks, refused>>

SwitcherTimesOut ==
  /\ switcher = "waiting"
  /\ switcher' = "idle"
  /\ UNCHANGED <<env, process, redisState, orc, restarter, time, switches, restarts, faults,
                 dockerFaults, ticks, refused>>

\* _signal_restart: subscribe, publish, wait for the save; --force only publishes.
Restart(force) ==
  /\ restarter.pc = "idle"
  /\ restarts < MaxRestarts
  /\ restarts' = restarts + 1
  /\ restarter' = [pc |-> IF force THEN "restart" ELSE "request", heard |-> FALSE]
  /\ IF force THEN RequestGraceful ELSE UNCHANGED graceful
  /\ UNCHANGED <<env, process, loadedKey, orc, requests, switcher, time, switches, faults,
                 dockerFaults, ticks, refused>>

RestarterMoves(from, to) ==
  /\ restarter.pc = from
  /\ restarter' = [restarter EXCEPT !.pc = to]
  /\ UNCHANGED <<env, loadedKey, orc, requests, switcher, time, switches, restarts, faults,
                 ticks, refused>>

RestarterRequests ==
  /\ RestarterMoves("request", "waitSaved")
  /\ RequestGraceful
  /\ UNCHANGED <<process, dockerFaults>>

RestarterHears ==
  /\ restarter.heard
  /\ RestarterMoves("waitSaved", "restart")
  /\ UNCHANGED <<process, graceful, dockerFaults>>

RestarterTimesOut ==
  /\ RestarterMoves("waitSaved", "idle")
  /\ UNCHANGED <<process, graceful, dockerFaults>>

\* What it reports after the health check and a look at the key is its result only.
RestarterRestarts ==
  /\ RestarterMoves("restart", "idle")
  /\ \/ DockerRestarts /\ UNCHANGED dockerFaults
     \/ DockerFault /\ UNCHANGED <<process, graceful>>

-----------------------------------------------------------------------------
(* The orchestrator: _handle_request, one action per step that can interleave *)

\* market_switch_complete or market_switch_failed ends a command that waits, unless
\* the publish fails, which is logged.
Answer ==
  \/ UNCHANGED switcher
  \/ switcher = "waiting" /\ switcher' = "idle"

OrcAside == <<time, restarter, switches, restarts, ticks>>
OrcKeeps == <<env, process, loadedKey, graceful, requests>>
Goto(pc) == orc' = [orc EXCEPT !.pc = pc]
Fails == orc' = NoSwitch /\ Answer

\* A request that names no market, or comes outside the maintenance window, fails;
\* any other makes the orchestrator subscribe to sam:state_saved.
Accepts(req) == req.market \in Markets /\ time = "window"
Take ==
  /\ orc.pc = "idle" /\ requests # <<>>
  /\ requests' = Tail(requests)
  /\ IF Accepts(Head(requests))
     THEN /\ orc' = [pc |-> "request", target |-> Head(requests).market,
                     previous |-> env, heard |-> FALSE]
          /\ UNCHANGED <<switcher, refused>>
     ELSE /\ Fails
          /\ refused' = (refused \/ Head(requests) = SchedulerRequest)
  /\ UNCHANGED <<env, process, loadedKey, graceful, OrcAside, faults, dockerFaults>>

\* An exception that nothing in _handle_request catches ends the listener's thread: no
\* answer is published, and requests reach nobody any more.
ThreadEnds ==
  /\ orc' = [NoSwitch EXCEPT !.pc = "dead"]
  /\ requests' = <<>>
  /\ UNCHANGED switcher

\* The subscribe or the publish fails and with it the switch; after a failed publish the
\* unsubscribe, which no try protects, may fail too.
Request ==
  /\ orc.pc = "request"
  /\ \/ Goto("waitSaved") /\ RequestGraceful /\ UNCHANGED <<requests, switcher, faults>>
     \/ Fault /\ Fails /\ UNCHANGED <<graceful, requests>>
     \/ Fault /\ ThreadEnds /\ UNCHANGED graceful
  /\ UNCHANGED <<env, process, loadedKey, OrcAside, dockerFaults, refused>>

HearSaved ==
  /\ orc.pc = "waitSaved" /\ orc.heard
  /\ Goto("update")
  /\ UNCHANGED <<OrcKeeps, switcher, OrcAside, faults, dockerFaults, refused>>

SavedTimesOutGoesOn ==                                   \* mutant
  /\ orc.pc = "waitSaved"
  /\ Goto("update")
  /\ UNCHANGED <<OrcKeeps, switcher, OrcAside, faults, dockerFaults, refused>>
SavedTimesOutAsksAgain ==                                \* mutant
  /\ orc.pc = "waitSaved"
  /\ Goto("request")
  /\ UNCHANGED <<OrcKeeps, switcher, OrcAside, faults, dockerFaults, refused>>
SavedTimesOut ==
  /\ orc.pc = "waitSaved"
  /\ Fails
  /\ UNCHANGED <<OrcKeeps, OrcAside, faults, dockerFaults, refused>>

UpdateEnvNever ==                                        \* mutant
  /\ orc.pc = "update"
  /\ Goto("restart")
  /\ UNCHANGED <<OrcKeeps, switcher, OrcAside, faults, dockerFaults, refused>>
UpdateEnv ==
  /\ orc.pc = "update"
  /\ \/ env' = orc.target /\ Goto("restart") /\ UNCHANGED <<switcher, faults>>
     \/ Fault /\ Fails /\ UNCHANGED env
  /\ UNCHANGED <<process, loadedKey, graceful, requests, OrcAside, dockerFaults, refused>>

\* _restart_trader has no timeout and catches nothing: docker exits non-zero, cannot be
\* run at all, which ends the thread with the file at the target, or never returns,
\* before the container was restarted or after.
Hangs ==
  /\ DockerFault /\ Goto("hung") /\ UNCHANGED <<requests, switcher>>
  /\ DockerRestarts \/ UNCHANGED <<process, graceful>>
RestartTrader ==
  /\ orc.pc = "restart"
  /\ \/ DockerRestarts /\ Goto("poll") /\ UNCHANGED <<requests, switcher, dockerFaults>>
     \/ DockerFault /\ Goto("undo") /\ UNCHANGED <<process, graceful, requests, switcher>>
     \/ DockerFault /\ ThreadEnds /\ UNCHANGED <<process, graceful>>
     \/ Hangs
  /\ UNCHANGED <<env, loadedKey, OrcAside, faults, refused>>

\* A failed write of the old MARKET is logged and changes nothing else.
RestoreEnv == \/ env' = orc.previous /\ UNCHANGED faults
              \/ Fault /\ UNCHANGED env

UndoForgets ==                                           \* mutant
  /\ orc.pc = "undo"
  /\ Fails
  /\ UNCHANGED <<OrcKeeps, OrcAside, faults, dockerFaults, refused>>
Undo ==
  /\ orc.pc = "undo"
  /\ RestoreEnv
  /\ Fails
  /\ UNCHANGED <<process, loadedKey, graceful, requests, OrcAside, dockerFaults, refused>>

PollCompletes ==
  /\ orc.pc = "poll" /\ loadedKey
  /\ orc' = NoSwitch /\ Answer
  /\ UNCHANGED <<OrcKeeps, OrcAside, faults, dockerFaults, refused>>

PollTimesOut ==
  /\ orc.pc = "poll"
  /\ Goto("rollback")
  /\ UNCHANGED <<OrcKeeps, switcher, OrcAside, faults, dockerFaults, refused>>

Rollback ==
  /\ orc.pc = "rollback"
  /\ RestoreEnv
  /\ Goto("restartBack")
  /\ UNCHANGED <<process, loadedKey, graceful, requests, switcher, OrcAside, dockerFaults,
                 refused>>

\* The result of the second restart is not looked at.
RestartBackSkipped ==                                    \* mutant
  /\ orc.pc = "restartBack"
  /\ Fails
  /\ UNCHANGED <<OrcKeeps, OrcAside, faults, dockerFaults, refused>>
RestartBack ==
  /\ orc.pc = "restartBack"
  /\ \/ DockerRestarts /\ Fails /\ UNCHANGED <<requests, dockerFaults>>
     \/ DockerFault /\ Fails /\ UNCHANGED <<process, graceful, requests>>
     \/ DockerFault /\ ThreadEnds /\ UNCHANGED <<process, graceful>>
     \/ Hangs
  /\ UNCHANGED <<env, loadedKey, OrcAside, faults, refused>>

\* Redis fails under the listener: the thread ends.
OrchestratorDies ==
  /\ orc.pc = "idle"
  /\ Fault
  /\ Goto("dead")
  /\ requests' = <<>>
  /\ UNCHANGED <<env, process, loadedKey, graceful, switcher, OrcAside, dockerFaults, refused>>

-----------------------------------------------------------------------------

Booting == NotifyStateLoaded \/ KeyExpires \/ SubscriberStarts \/ NodeRuns
Saving == SaveAtOnce \/ ScheduleSave \/ SaveRuns \/ SaveTimesOut \/ PublishSaved
          \/ SubscriberEnds
Asking == \/ Alert
          \/ \E m \in Markets : SwitchMarket(m)
          \/ SwitcherSubscribes \/ SwitcherTimesOut
          \/ \E force \in BOOLEAN : Restart(force)
          \/ RestarterRequests \/ RestarterHears \/ RestarterTimesOut \/ RestarterRestarts
Orchestrating == \/ Take \/ Request \/ HearSaved \/ SavedTimesOut
                 \/ UpdateEnv \/ RestartTrader \/ Undo
                 \/ PollCompletes \/ PollTimesOut \/ Rollback \/ RestartBack
                 \/ OrchestratorDies

Next == Booting \/ Saving \/ Asking \/ Orchestrating

Spec == Init /\ [][Next]_vars

\* The orchestrator's thread, the trader's threads and the commands keep running, and
\* each of their waits has a timeout.  Nothing makes an operator or a clock act.
FairSpec ==
  /\ Spec
  /\ WF_vars(Orchestrating) /\ WF_vars(Booting) /\ WF_vars(Saving)
  /\ WF_vars(SwitcherSubscribes \/ SwitcherTimesOut)
  /\ WF_vars(RestarterRequests \/ RestarterHears \/ RestarterTimesOut \/ RestarterRestarts)

-----------------------------------------------------------------------------
(* Properties *)

ProcessTypes ==
  /\ trader \in [stage : Stages, market : Markets]
  /\ saved \in BOOLEAN
  /\ subscriber \in {"off", "idle", "waiting", "publishing"}
  /\ trader.stage \in {"building", "loaded"} => subscriber = "off"
  /\ subscriber = "waiting" => saves > 0
  /\ graceful \in Nat /\ saves \in Nat
  /\ alerts \subseteq Times

OrchestratorTypes ==
  /\ env \in Markets
  /\ loadedKey \in BOOLEAN
  /\ orc \in [pc : OrcSteps, target : Markets \cup {NoMarket},
              previous : Markets \cup {NoMarket}, heard : BOOLEAN]
  /\ orc.pc \in Switching => orc.target \in Markets /\ orc.previous \in Markets
  /\ requests \in Seq(SwitchRequests)

CommandTypes ==
  /\ switcher \in {"idle", "published", "waiting"}
  /\ restarter \in [pc : {"idle", "request", "waitSaved", "restart"}, heard : BOOLEAN]
  /\ time \in Times
  /\ {switches, restarts, faults, dockerFaults, ticks} \subseteq Nat
  /\ refused \in BOOLEAN

TypeOK == ProcessTypes /\ OrchestratorTypes /\ CommandTypes

\* Whatever times out, and whoever restarts the trader meanwhile: when the
\* orchestrator is done, the trader runs the market the .env file names, unless a
\* write or a docker restart failed.
EnvNamesTrader ==
  faults = 0 /\ dockerFaults = 0 /\ orc.pc = "idle" => trader.market = env

\* A switch reported complete has happened: the file and the trader's process are
\* at the target, even if the key it polled was an older process's.
CompletesTruly ==
  orc.pc = "poll" /\ orc'.pc = "idle" => env' = orc.target /\ trader'.market = orc.target
CompleteIsTrue == [][CompletesTruly]_vars

\* A switch that ends as failed leaves the MARKET it found, unless a write failed.  (One
\* whose thread ends, or hangs, in the docker restart reports nothing and does not.)
FailsBack ==
  orc.pc \notin {"idle", "poll"} /\ orc'.pc = "idle" /\ faults' = 0 => env' = orc.previous
FailureRestoresMarket == [][FailsBack]_vars

\* A switch kills only a process that has saved its state, as long as nobody
\* restarts the trader behind the orchestrator's back.
KillsSaved == restarts = 0 /\ orc.pc = "restart" /\ orc'.pc = "poll" => saved
SwitchKillsSavedOnly == [][KillsSaved]_vars

\* Whatever is lost, whoever else restarts the trader and however docker exits, the
\* orchestrator comes back to its listener; only a Redis call that raises on the way out
\* of the handshake takes its thread away, or a docker command that cannot be run or
\* does not return.
Lost == \/ orc.pc = "dead" /\ faults + dockerFaults > 0
        \/ orc.pc = "hung" /\ dockerFaults > 0
SwitchEnds == orc.pc \in Switching ~> orc.pc = "idle" \/ Lost

\* "If the gate passes ... a sam:market_switch_request message is published": the
\* orchestrator understands the requests of the scheduler.
SchedulerUnderstood == ~refused
=============================================================================
