-------------------------- MODULE MarketSwitchProofs --------------------------
(* Proofs about MarketSwitch, for every set of markets and every bound: the     *)
(* types, and what the file, the process and the orchestrator's step have to do *)
(* with each other, from which the properties of a switch follow.               *)
EXTENDS MarketSwitch, SequenceTheorems, TLAPS

(* Types.  The steps are cut into what the process, the orchestrator and the    *)
(* commands own, one lemma for each.                                            *)

LEMMA NoSwitchType ==
  NoSwitch \in [pc : OrcSteps, target : Markets \cup {NoMarket},
               previous : Markets \cup {NoMarket}, heard : BOOLEAN]
  BY DEF NoSwitch, OrcSteps

\* A thread that ends leaves no request and no switch at hand.
LEMMA DeadTypes ==
  ASSUME ThreadEnds
  PROVE /\ orc' \in [pc : OrcSteps, target : Markets \cup {NoMarket},
                     previous : Markets \cup {NoMarket}, heard : BOOLEAN]
        /\ orc'.pc = "dead" /\ requests' \in Seq(SwitchRequests)
  BY NoSwitchType, EmptySeq DEF ThreadEnds, NoSwitch, OrcSteps

\* What waits in the queue stays a request when one is added or taken.
LEMMA RequestQueue ==
  ASSUME requests \in Seq(SwitchRequests)
  PROVE /\ \A r \in SwitchRequests : Append(requests, r) \in Seq(SwitchRequests)
        /\ requests # <<>> => /\ Head(requests) \in SwitchRequests
                             /\ Tail(requests) \in Seq(SwitchRequests)
  BY AppendProperties, HeadTailProperties

LEMMA RequestsAre ==
  /\ SchedulerRequest \in SwitchRequests
  /\ \A m \in Markets : OperatorRequest(m) \in SwitchRequests
  BY DEF SchedulerRequest, OperatorRequest, SwitchRequests

LEMMA InitTypes == Init => TypeOK
<1> SUFFICES ASSUME Init PROVE TypeOK OBVIOUS
<1>1. ProcessTypes
  BY DEF Init, ProcessTypes, Stages, Times
<1>2. OrchestratorTypes
  BY EmptySeq, NoSwitchType DEF Init, OrchestratorTypes, NoSwitch, Switching
<1>3. CommandTypes
  <2>1. {switches, restarts, faults, dockerFaults, ticks} \subseteq Nat
    BY DEF Init
  <2> QED BY <2>1 DEF Init, CommandTypes, Times
<1> QED BY <1>1, <1>2, <1>3 DEF TypeOK

LEMMA ProcessStep == TypeOK /\ [Next]_vars => ProcessTypes'
<1> SUFFICES ASSUME TypeOK, Next PROVE ProcessTypes'
  BY DEF vars, TypeOK, ProcessTypes
<1> USE DEF TypeOK, ProcessTypes, Stages, Times
<1>1. CASE Booting
  <2>1. CASE NotifyStateLoaded
    BY <2>1 DEF NotifyStateLoaded, commands
  <2>2. CASE KeyExpires
    BY <2>2 DEF KeyExpires, process, commands
  <2>3. CASE SubscriberStarts
    BY <2>3 DEF SubscriberStarts, redisState, commands
  <2>4. CASE NodeRuns
    BY <2>4 DEF NodeRuns, redisState, commands
  <2> QED BY <1>1, <2>1, <2>2, <2>3, <2>4 DEF Booting
<1>2. CASE Saving
  <2>1. CASE SaveAtOnce
    <3>1. graceful' \in Nat
      BY <2>1 DEF SaveAtOnce
    <3>2. /\ saved' \in BOOLEAN
          /\ subscriber' \in {"idle", "publishing"} /\ trader' = trader
      BY <2>1 DEF SaveAtOnce
    <3> QED BY <2>1, <3>1, <3>2 DEF SaveAtOnce
  <2>2. CASE ScheduleSave
    BY <2>2 DEF ScheduleSave, commands
  <2>3. CASE SaveRuns
    <3>1. saves' \in Nat
      BY <2>3 DEF SaveRuns
    <3>2. saved' \in BOOLEAN /\ UNCHANGED <<trader, graceful, alerts>>
      BY <2>3 DEF SaveRuns, Fault, redisState
    <3>3. CASE subscriber = "waiting" /\ saves = 1
      BY <2>3, <3>1, <3>2, <3>3 DEF SaveRuns, Fault
    <3>4. CASE ~(subscriber = "waiting" /\ saves = 1)
      <4>1. subscriber' = subscriber
        BY <2>3, <3>4 DEF SaveRuns
      <4>2. saves' = saves - 1
        BY <2>3 DEF SaveRuns
      <4> QED BY <3>1, <3>2, <3>4, <4>1, <4>2
    <3> QED BY <3>3, <3>4
  <2>4. CASE SaveTimesOut
    BY <2>4 DEF SaveTimesOut, redisState, commands
  <2>5. CASE PublishSaved
    BY <2>5 DEF PublishSaved, Hearing, redisState
  <2>6. CASE SubscriberEnds
    BY <2>6 DEF SubscriberEnds, Fault, commands
  <2> QED BY <1>2, <2>1, <2>2, <2>3, <2>4, <2>5, <2>6 DEF Saving
<1>3. CASE Asking
  <2>1. CASE Alert
    BY <2>1 DEF Alert, After, RequestSwitch, SchedulerRequest, commands
  <2>2. ASSUME NEW m \in Markets, SwitchMarket(m) PROVE ProcessTypes'
    BY <2>2 DEF SwitchMarket, RequestSwitch, OperatorRequest, process
  <2>3. CASE SwitcherSubscribes
    BY <2>3 DEF SwitcherSubscribes, process, redisState
  <2>4. CASE SwitcherTimesOut
    BY <2>4 DEF SwitcherTimesOut, process, redisState
  <2>5. ASSUME NEW force \in BOOLEAN, Restart(force) PROVE ProcessTypes'
    BY <2>5 DEF Restart, RequestGraceful, process
  <2>6. CASE RestarterRequests
    BY <2>6 DEF RestarterRequests, RestarterMoves, RequestGraceful, process
  <2>7. CASE RestarterHears
    BY <2>7 DEF RestarterHears, RestarterMoves, process
  <2>8. CASE RestarterTimesOut
    BY <2>8 DEF RestarterTimesOut, RestarterMoves, process
  <2>9. CASE RestarterRestarts
    <3>1. CASE DockerRestarts
      BY <2>9, <3>1 DEF DockerRestarts, OrchestratorTypes
    <3>2. CASE UNCHANGED <<process, graceful>>
      BY <2>9, <3>2 DEF process
    <3> QED BY <2>9, <3>1, <3>2 DEF RestarterRestarts
  <2> QED BY <1>3, <2>1, <2>2, <2>3, <2>4, <2>5, <2>6, <2>7, <2>8, <2>9 DEF Asking
<1>4. CASE Orchestrating
  <2>1. CASE Take
    BY <2>1 DEF Take, Accepts, Fails, SchedulerRequest, process, OrcAside, NoSwitch,
        Answer
  <2>2. CASE Request
    BY <2>2 DEF Request, Goto, RequestGraceful, Fault, Fails, ThreadEnds, process, OrcAside,
        NoSwitch, Answer
  <2>3. CASE HearSaved
    BY <2>3 DEF HearSaved, Goto, OrcKeeps, OrcAside, process
  <2>4. CASE SavedTimesOut
    BY <2>4 DEF SavedTimesOut, Fails, OrcKeeps, OrcAside, NoSwitch, Answer, process
  <2>5. CASE UpdateEnv
    BY <2>5 DEF UpdateEnv, Goto, Fault, Fails, process, OrcAside, NoSwitch, Answer
  <2>6. CASE RestartTrader
    <3>1. CASE DockerRestarts
      BY <2>6, <3>1 DEF DockerRestarts, OrchestratorTypes
    <3>2. CASE UNCHANGED <<process, graceful>>
      BY <2>6, <3>2 DEF process
    <3> QED BY <2>6, <3>1, <3>2 DEF RestartTrader, Hangs
  <2>7. CASE Undo
    BY <2>7 DEF Undo, RestoreEnv, Fails, process, OrcAside, Fault, NoSwitch, Answer
  <2>8. CASE PollCompletes
    BY <2>8 DEF PollCompletes, NoSwitch, Answer, OrcKeeps, OrcAside, process
  <2>9. CASE PollTimesOut
    BY <2>9 DEF PollTimesOut, Goto, OrcKeeps, OrcAside, process
  <2>10. CASE Rollback
    BY <2>10 DEF Rollback, RestoreEnv, Goto, process, OrcAside, Fault
  <2>11. CASE RestartBack
    <3>1. CASE DockerRestarts
      BY <2>11, <3>1 DEF DockerRestarts, OrchestratorTypes
    <3>2. CASE UNCHANGED <<process, graceful>>
      BY <2>11, <3>2 DEF process
    <3> QED BY <2>11, <3>1, <3>2 DEF RestartBack, Hangs
  <2>12. CASE OrchestratorDies
    BY <2>12 DEF OrchestratorDies, Fault, Goto, process, OrcAside
  <2> QED BY <1>4, <2>1, <2>2, <2>3, <2>4, <2>5, <2>6, <2>7, <2>8, <2>9, <2>10, <2>11,
      <2>12 DEF Orchestrating
<1> QED BY <1>1, <1>2, <1>3, <1>4 DEF Next

LEMMA OrchestratorStep == TypeOK /\ [Next]_vars => OrchestratorTypes'
<1> SUFFICES ASSUME TypeOK, Next PROVE OrchestratorTypes'
  BY DEF vars, TypeOK, OrchestratorTypes
<1> USE DEF TypeOK, OrchestratorTypes, OrcSteps, Switching
<1>1. CASE Booting
  <2>1. CASE NotifyStateLoaded
    BY <2>1 DEF NotifyStateLoaded, commands
  <2>2. CASE KeyExpires
    BY <2>2 DEF KeyExpires, process, commands
  <2>3. CASE SubscriberStarts
    BY <2>3 DEF SubscriberStarts, redisState, commands
  <2>4. CASE NodeRuns
    BY <2>4 DEF NodeRuns, redisState, commands
  <2> QED BY <1>1, <2>1, <2>2, <2>3, <2>4 DEF Booting
<1>2. CASE Saving
  <2>1. CASE SaveAtOnce
    BY <2>1 DEF SaveAtOnce, Fault, commands
  <2>2. CASE ScheduleSave
    BY <2>2 DEF ScheduleSave, commands
  <2>3. CASE SaveRuns
    BY <2>3 DEF SaveRuns, Fault, redisState, commands
  <2>4. CASE SaveTimesOut
    BY <2>4 DEF SaveTimesOut, redisState, commands
  <2>5. CASE PublishSaved
    BY <2>5 DEF PublishSaved, Hearing, redisState
  <2>6. CASE SubscriberEnds
    BY <2>6 DEF SubscriberEnds, Fault, commands
  <2> QED BY <1>2, <2>1, <2>2, <2>3, <2>4, <2>5, <2>6 DEF Saving
<1>3. CASE Asking
  <2>1. CASE Alert
    BY <2>1, RequestQueue, RequestsAre DEF Alert, After, RequestSwitch,
        SchedulerRequest, commands
  <2>2. ASSUME NEW m \in Markets, SwitchMarket(m) PROVE OrchestratorTypes'
    BY <2>2, RequestQueue, RequestsAre DEF SwitchMarket, RequestSwitch, OperatorRequest,
        process
  <2>3. CASE SwitcherSubscribes
    BY <2>3 DEF SwitcherSubscribes, process, redisState
  <2>4. CASE SwitcherTimesOut
    BY <2>4 DEF SwitcherTimesOut, process, redisState
  <2>5. ASSUME NEW force \in BOOLEAN, Restart(force) PROVE OrchestratorTypes'
    BY <2>5 DEF Restart, RequestGraceful, process
  <2>6. CASE RestarterRequests
    BY <2>6 DEF RestarterRequests, RestarterMoves, RequestGraceful, process
  <2>7. CASE RestarterHears
    BY <2>7 DEF RestarterHears, RestarterMoves, process
  <2>8. CASE RestarterTimesOut
    BY <2>8 DEF RestarterTimesOut, RestarterMoves, process
  <2>9. CASE RestarterRestarts
    BY <2>9 DEF RestarterRestarts, RestarterMoves, DockerRestarts, DockerFault, process
  <2> QED BY <1>3, <2>1, <2>2, <2>3, <2>4, <2>5, <2>6, <2>7, <2>8, <2>9 DEF Asking
<1>4. CASE Orchestrating
  <2>1. CASE Take
    <3>1. CASE Accepts(Head(requests))
      <4>1. /\ Head(requests).market \in Markets
            /\ orc' = [pc |-> "request", target |-> Head(requests).market,
                       previous |-> env, heard |-> FALSE]
        BY <2>1, <3>1 DEF Take, Accepts
      <4>2. requests' \in Seq(SwitchRequests) /\ env' = env /\ loadedKey' = loadedKey
        BY <2>1, RequestQueue DEF Take, process
      <4> QED BY <4>1, <4>2
    <3>2. CASE ~Accepts(Head(requests))
      BY <2>1, <3>2, RequestQueue, NoSwitchType DEF Take, Fails, NoSwitch, process
    <3> QED BY <3>1, <3>2
  <2>2. CASE Request
    <3>1. CASE ThreadEnds
      BY <2>2, <3>1, DeadTypes DEF Request, process
    <3>2. CASE ~ThreadEnds
      BY <2>2, <3>2, NoSwitchType DEF Request, Goto, RequestGraceful, Fault, Fails, process,
          OrcAside, NoSwitch, Answer
    <3> QED BY <3>1, <3>2
  <2>3. CASE HearSaved
    BY <2>3 DEF HearSaved, Goto, OrcKeeps, OrcAside, process
  <2>4. CASE SavedTimesOut
    BY <2>4 DEF SavedTimesOut, Fails, OrcKeeps, OrcAside, NoSwitch, Answer, process
  <2>5. CASE UpdateEnv
    BY <2>5, NoSwitchType DEF UpdateEnv, Goto, Fault, Fails, process, OrcAside,
        NoSwitch, Answer
  <2>6. CASE RestartTrader
    <3>1. CASE ThreadEnds
      BY <2>6, <3>1, DeadTypes DEF RestartTrader
    <3>2. CASE ~ThreadEnds
      BY <2>6, <3>2 DEF RestartTrader, Hangs, Goto, OrcAside
    <3> QED BY <3>1, <3>2
  <2>7. CASE Undo
    BY <2>7 DEF Undo, RestoreEnv, Fails, process, OrcAside, Fault, NoSwitch, Answer
  <2>8. CASE PollCompletes
    BY <2>8 DEF PollCompletes, NoSwitch, Answer, OrcKeeps, OrcAside, process
  <2>9. CASE PollTimesOut
    BY <2>9 DEF PollTimesOut, Goto, OrcKeeps, OrcAside, process
  <2>10. CASE Rollback
    BY <2>10 DEF Rollback, RestoreEnv, Goto, process, OrcAside, Fault
  <2>11. CASE RestartBack
    <3>1. CASE ThreadEnds
      BY <2>11, <3>1, DeadTypes DEF RestartBack
    <3>2. CASE ~ThreadEnds
      BY <2>11, <3>2, NoSwitchType DEF RestartBack, Hangs, Goto, OrcAside, Fails, NoSwitch
    <3> QED BY <3>1, <3>2
  <2>12. CASE OrchestratorDies
    BY <2>12 DEF OrchestratorDies, Fault, Goto, process, OrcAside
  <2> QED BY <1>4, <2>1, <2>2, <2>3, <2>4, <2>5, <2>6, <2>7, <2>8, <2>9, <2>10, <2>11,
      <2>12 DEF Orchestrating
<1> QED BY <1>1, <1>2, <1>3, <1>4 DEF Next

LEMMA CommandStep == TypeOK /\ [Next]_vars => CommandTypes'
<1> SUFFICES ASSUME TypeOK, Next PROVE CommandTypes'
  BY DEF vars, TypeOK, CommandTypes
<1> USE DEF TypeOK, CommandTypes, Times
<1>1. CASE Booting
  <2>1. CASE NotifyStateLoaded
    BY <2>1 DEF NotifyStateLoaded, commands
  <2>2. CASE KeyExpires
    BY <2>2 DEF KeyExpires, process, commands
  <2>3. CASE SubscriberStarts
    BY <2>3 DEF SubscriberStarts, redisState, commands
  <2>4. CASE NodeRuns
    BY <2>4 DEF NodeRuns, redisState, commands
  <2> QED BY <1>1, <2>1, <2>2, <2>3, <2>4 DEF Booting
<1>2. CASE Saving
  <2>1. CASE SaveAtOnce
    BY <2>1 DEF SaveAtOnce, Fault, commands
  <2>2. CASE ScheduleSave
    BY <2>2 DEF ScheduleSave, commands
  <2>3. CASE SaveRuns
    BY <2>3 DEF SaveRuns, Fault, redisState, commands
  <2>4. CASE SaveTimesOut
    BY <2>4 DEF SaveTimesOut, redisState, commands
  <2>5. CASE PublishSaved
    BY <2>5 DEF PublishSaved, Hearing, redisState
  <2>6. CASE SubscriberEnds
    BY <2>6 DEF SubscriberEnds, Fault, commands
  <2> QED BY <1>2, <2>1, <2>2, <2>3, <2>4, <2>5, <2>6 DEF Saving
<1>3. CASE Asking
  <2>1. CASE Alert
    BY <2>1 DEF Alert, After, RequestSwitch, SchedulerRequest, commands
  <2>2. ASSUME NEW m \in Markets, SwitchMarket(m) PROVE CommandTypes'
    BY <2>2 DEF SwitchMarket, RequestSwitch, OperatorRequest, process
  <2>3. CASE SwitcherSubscribes
    BY <2>3 DEF SwitcherSubscribes, process, redisState
  <2>4. CASE SwitcherTimesOut
    BY <2>4 DEF SwitcherTimesOut, process, redisState
  <2>5. ASSUME NEW force \in BOOLEAN, Restart(force) PROVE CommandTypes'
    BY <2>5 DEF Restart, RequestGraceful, process
  <2>6. CASE RestarterRequests
    BY <2>6 DEF RestarterRequests, RestarterMoves, RequestGraceful, process
  <2>7. CASE RestarterHears
    BY <2>7 DEF RestarterHears, RestarterMoves, process
  <2>8. CASE RestarterTimesOut
    BY <2>8 DEF RestarterTimesOut, RestarterMoves, process
  <2>9. CASE RestarterRestarts
    BY <2>9 DEF RestarterRestarts, RestarterMoves, DockerRestarts, DockerFault, process
  <2> QED BY <1>3, <2>1, <2>2, <2>3, <2>4, <2>5, <2>6, <2>7, <2>8, <2>9 DEF Asking
<1>4. CASE Orchestrating
  <2>1. CASE Take
    <3>1. refused' \in BOOLEAN
      BY <2>1 DEF Take
    <3>2. switcher' \in {"idle", "published", "waiting"}
      BY <2>1 DEF Take, Fails, Answer
    <3> QED BY <2>1, <3>1, <3>2 DEF Take, OrcAside
  <2>2. CASE Request
    BY <2>2 DEF Request, Goto, RequestGraceful, Fault, Fails, ThreadEnds, process, OrcAside,
        NoSwitch, Answer
  <2>3. CASE HearSaved
    BY <2>3 DEF HearSaved, Goto, OrcKeeps, OrcAside, process
  <2>4. CASE SavedTimesOut
    BY <2>4 DEF SavedTimesOut, Fails, OrcKeeps, OrcAside, NoSwitch, Answer, process
  <2>5. CASE UpdateEnv
    BY <2>5 DEF UpdateEnv, Goto, Fault, Fails, process, OrcAside, NoSwitch, Answer
  <2>6. CASE RestartTrader
    BY <2>6 DEF RestartTrader, DockerRestarts, Goto, DockerFault, ThreadEnds, Hangs, NoSwitch,
        process, OrcAside
  <2>7. CASE Undo
    BY <2>7 DEF Undo, RestoreEnv, Fails, process, OrcAside, Fault, NoSwitch, Answer
  <2>8. CASE PollCompletes
    BY <2>8 DEF PollCompletes, NoSwitch, Answer, OrcKeeps, OrcAside, process
  <2>9. CASE PollTimesOut
    BY <2>9 DEF PollTimesOut, Goto, OrcKeeps, OrcAside, process
  <2>10. CASE Rollback
    BY <2>10 DEF Rollback, RestoreEnv, Goto, process, OrcAside, Fault
  <2>11. CASE RestartBack
    BY <2>11 DEF RestartBack, DockerRestarts, DockerFault, ThreadEnds, Hangs, Goto, process,
        Fails, OrcAside, NoSwitch, Answer
  <2>12. CASE OrchestratorDies
    BY <2>12 DEF OrchestratorDies, Fault, Goto, process, OrcAside
  <2> QED BY <1>4, <2>1, <2>2, <2>3, <2>4, <2>5, <2>6, <2>7, <2>8, <2>9, <2>10, <2>11,
      <2>12 DEF Orchestrating
<1> QED BY <1>1, <1>2, <1>3, <1>4 DEF Next

LEMMA StepTypes == TypeOK /\ [Next]_vars => TypeOK'
  BY ProcessStep, OrchestratorStep, CommandStep DEF TypeOK

\* The state keeps its types through every boot, request, failure and restart; in
\* particular a listener that waits for a save has one scheduled.
THEOREM TypeCorrect == Spec => []TypeOK
  BY InitTypes, StepTypes, PTL DEF Spec

(* The file, the process and the step.  Only the orchestrator writes the file,   *)
(* and every docker restart brings the process in line with it, so what the      *)
(* orchestrator has done so far says how the three are related.                  *)

FileAndProcess ==
  /\ orc.pc \in {"request", "waitSaved", "update"} => env = orc.previous
  /\ orc.pc \in {"restart", "poll"} => env = orc.target
  /\ orc.pc = "poll" => trader.market = env
  /\ orc.pc = "undo" => dockerFaults # 0
  /\ orc.pc = "restartBack" /\ faults = 0 => env = orc.previous
  /\ faults = 0 /\ dockerFaults = 0 /\ orc.pc \notin {"restart", "restartBack"}
       => trader.market = env

(* As long as no sam restart has been given, what the orchestrator heard came    *)
(* from the process it is about to kill.                                         *)
SavedBefore ==
  /\ subscriber = "publishing" => saved
  /\ restarts = 0 => restarter.pc = "idle"
  /\ restarts = 0 /\ orc.pc \in Hearing /\ orc.heard => saved
  /\ restarts = 0 /\ orc.pc \in {"update", "restart"} => saved

LEMMA InitSwitch == Init => FileAndProcess /\ SavedBefore
  BY DEF Init, FileAndProcess, SavedBefore, NoSwitch, Hearing

LEMMA FileAndProcessStep == TypeOK /\ FileAndProcess /\ [Next]_vars => FileAndProcess'
<1> SUFFICES ASSUME TypeOK, FileAndProcess, Next PROVE FileAndProcess'
  BY DEF vars, FileAndProcess
<1> USE DEF TypeOK, ProcessTypes, OrchestratorTypes, CommandTypes, FileAndProcess
<1>1. CASE Booting
  <2>1. CASE NotifyStateLoaded
    BY <2>1 DEF NotifyStateLoaded, commands
  <2>2. CASE KeyExpires
    BY <2>2 DEF KeyExpires, process, commands
  <2>3. CASE SubscriberStarts
    BY <2>3 DEF SubscriberStarts, redisState, commands
  <2>4. CASE NodeRuns
    BY <2>4 DEF NodeRuns, redisState, commands
  <2> QED BY <1>1, <2>1, <2>2, <2>3, <2>4 DEF Booting
<1>2. CASE Saving
  <2>1. CASE SaveAtOnce
    BY <2>1 DEF SaveAtOnce, Fault, commands
  <2>2. CASE ScheduleSave
    BY <2>2 DEF ScheduleSave, commands
  <2>3. CASE SaveRuns
    BY <2>3 DEF SaveRuns, Fault, redisState, commands
  <2>4. CASE SaveTimesOut
    BY <2>4 DEF SaveTimesOut, redisState, commands
  <2>5. CASE PublishSaved
    BY <2>5 DEF PublishSaved, Hearing, redisState
  <2>6. CASE SubscriberEnds
    BY <2>6 DEF SubscriberEnds, Fault, commands
  <2> QED BY <1>2, <2>1, <2>2, <2>3, <2>4, <2>5, <2>6 DEF Saving
<1>3. CASE Asking
  <2>1. CASE Alert
    BY <2>1 DEF Alert, After, RequestSwitch, SchedulerRequest, commands
  <2>2. ASSUME NEW m \in Markets, SwitchMarket(m) PROVE FileAndProcess'
    BY <2>2 DEF SwitchMarket, RequestSwitch, OperatorRequest, process
  <2>3. CASE SwitcherSubscribes
    BY <2>3 DEF SwitcherSubscribes, process, redisState
  <2>4. CASE SwitcherTimesOut
    BY <2>4 DEF SwitcherTimesOut, process, redisState
  <2>5. ASSUME NEW force \in BOOLEAN, Restart(force) PROVE FileAndProcess'
    BY <2>5 DEF Restart, RequestGraceful, process
  <2>6. CASE RestarterRequests
    BY <2>6 DEF RestarterRequests, RestarterMoves, RequestGraceful, process
  <2>7. CASE RestarterHears
    BY <2>7 DEF RestarterHears, RestarterMoves, process
  <2>8. CASE RestarterTimesOut
    BY <2>8 DEF RestarterTimesOut, RestarterMoves, process
  <2>9. CASE RestarterRestarts
    BY <2>9 DEF RestarterRestarts, RestarterMoves, DockerRestarts, DockerFault, process
  <2> QED BY <1>3, <2>1, <2>2, <2>3, <2>4, <2>5, <2>6, <2>7, <2>8, <2>9 DEF Asking
<1>4. CASE Orchestrating
  <2>1. CASE Take
    BY <2>1 DEF Take, Accepts, Fails, SchedulerRequest, process, OrcAside, NoSwitch,
        Answer
  <2>2. CASE Request
    BY <2>2 DEF Request, Goto, RequestGraceful, Fault, Fails, ThreadEnds, process, OrcAside,
        NoSwitch, Answer
  <2>3. CASE HearSaved
    BY <2>3 DEF HearSaved, Goto, OrcKeeps, OrcAside, process
  <2>4. CASE SavedTimesOut
    BY <2>4 DEF SavedTimesOut, Fails, OrcKeeps, OrcAside, NoSwitch, Answer, process
  <2>5. CASE UpdateEnv
    BY <2>5 DEF UpdateEnv, Goto, Fault, Fails, process, OrcAside, NoSwitch, Answer
  <2>6. CASE RestartTrader
    BY <2>6 DEF RestartTrader, DockerRestarts, Goto, DockerFault, ThreadEnds, Hangs, NoSwitch,
        process, OrcAside
  <2>7. CASE Undo
    BY <2>7 DEF Undo, RestoreEnv, Fails, process, OrcAside, Fault, NoSwitch, Answer
  <2>8. CASE PollCompletes
    BY <2>8 DEF PollCompletes, NoSwitch, Answer, OrcKeeps, OrcAside, process
  <2>9. CASE PollTimesOut
    BY <2>9 DEF PollTimesOut, Goto, OrcKeeps, OrcAside, process
  <2>10. CASE Rollback
    BY <2>10 DEF Rollback, RestoreEnv, Goto, process, OrcAside, Fault
  <2>11. CASE RestartBack
    BY <2>11 DEF RestartBack, DockerRestarts, DockerFault, ThreadEnds, Hangs, Goto, process,
        Fails, OrcAside, NoSwitch, Answer
  <2>12. CASE OrchestratorDies
    BY <2>12 DEF OrchestratorDies, Fault, Goto, process, OrcAside
  <2> QED BY <1>4, <2>1, <2>2, <2>3, <2>4, <2>5, <2>6, <2>7, <2>8, <2>9, <2>10, <2>11,
      <2>12 DEF Orchestrating
<1> QED BY <1>1, <1>2, <1>3, <1>4 DEF Next

LEMMA SavedBeforeStep == TypeOK /\ SavedBefore /\ [Next]_vars => SavedBefore'
<1> SUFFICES ASSUME TypeOK, SavedBefore, Next PROVE SavedBefore'
  BY DEF vars, SavedBefore
<1> USE DEF TypeOK, ProcessTypes, OrchestratorTypes, CommandTypes, Hearing, SavedBefore
<1>1. CASE Booting
  <2>1. CASE NotifyStateLoaded
    BY <2>1 DEF NotifyStateLoaded, commands
  <2>2. CASE KeyExpires
    BY <2>2 DEF KeyExpires, process, commands
  <2>3. CASE SubscriberStarts
    BY <2>3 DEF SubscriberStarts, redisState, commands
  <2>4. CASE NodeRuns
    BY <2>4 DEF NodeRuns, redisState, commands
  <2> QED BY <1>1, <2>1, <2>2, <2>3, <2>4 DEF Booting
<1>2. CASE Saving
  <2>1. CASE SaveAtOnce
    BY <2>1 DEF SaveAtOnce, Fault, commands
  <2>2. CASE ScheduleSave
    BY <2>2 DEF ScheduleSave, commands
  <2>3. CASE SaveRuns
    BY <2>3 DEF SaveRuns, Fault, redisState, commands
  <2>4. CASE SaveTimesOut
    BY <2>4 DEF SaveTimesOut, redisState, commands
  <2>5. CASE PublishSaved
    BY <2>5 DEF PublishSaved, redisState
  <2>6. CASE SubscriberEnds
    BY <2>6 DEF SubscriberEnds, Fault, commands
  <2> QED BY <1>2, <2>1, <2>2, <2>3, <2>4, <2>5, <2>6 DEF Saving
<1>3. CASE Asking
  <2>1. CASE Alert
    BY <2>1 DEF Alert, After, RequestSwitch, SchedulerRequest, commands
  <2>2. ASSUME NEW m \in Markets, SwitchMarket(m) PROVE SavedBefore'
    BY <2>2 DEF SwitchMarket, RequestSwitch, OperatorRequest, process
  <2>3. CASE SwitcherSubscribes
    BY <2>3 DEF SwitcherSubscribes, process, redisState
  <2>4. CASE SwitcherTimesOut
    BY <2>4 DEF SwitcherTimesOut, process, redisState
  <2>5. ASSUME NEW force \in BOOLEAN, Restart(force) PROVE SavedBefore'
    BY <2>5 DEF Restart, RequestGraceful, process
  <2>6. CASE RestarterRequests
    BY <2>6 DEF RestarterRequests, RestarterMoves, RequestGraceful, process
  <2>7. CASE RestarterHears
    BY <2>7 DEF RestarterHears, RestarterMoves, process
  <2>8. CASE RestarterTimesOut
    BY <2>8 DEF RestarterTimesOut, RestarterMoves, process
  <2>9. CASE RestarterRestarts
    BY <2>9 DEF RestarterRestarts, RestarterMoves, DockerRestarts, DockerFault, process
  <2> QED BY <1>3, <2>1, <2>2, <2>3, <2>4, <2>5, <2>6, <2>7, <2>8, <2>9 DEF Asking
<1>4. CASE Orchestrating
  <2>1. CASE Take
    BY <2>1 DEF Take, Accepts, Fails, SchedulerRequest, process, OrcAside, NoSwitch,
        Answer
  <2>2. CASE Request
    BY <2>2 DEF Request, Goto, RequestGraceful, Fault, Fails, ThreadEnds, process, OrcAside,
        NoSwitch, Answer
  <2>3. CASE HearSaved
    BY <2>3 DEF HearSaved, Goto, OrcKeeps, OrcAside, process
  <2>4. CASE SavedTimesOut
    BY <2>4 DEF SavedTimesOut, Fails, OrcKeeps, OrcAside, NoSwitch, Answer, process
  <2>5. CASE UpdateEnv
    BY <2>5 DEF UpdateEnv, Goto, Fault, Fails, process, OrcAside, NoSwitch, Answer
  <2>6. CASE RestartTrader
    BY <2>6 DEF RestartTrader, DockerRestarts, Goto, DockerFault, ThreadEnds, Hangs, NoSwitch,
        process, OrcAside
  <2>7. CASE Undo
    BY <2>7 DEF Undo, RestoreEnv, Fails, process, OrcAside, Fault, NoSwitch, Answer
  <2>8. CASE PollCompletes
    BY <2>8 DEF PollCompletes, NoSwitch, Answer, OrcKeeps, OrcAside, process
  <2>9. CASE PollTimesOut
    BY <2>9 DEF PollTimesOut, Goto, OrcKeeps, OrcAside, process
  <2>10. CASE Rollback
    BY <2>10 DEF Rollback, RestoreEnv, Goto, process, OrcAside, Fault
  <2>11. CASE RestartBack
    BY <2>11 DEF RestartBack, DockerRestarts, DockerFault, ThreadEnds, Hangs, Goto, process,
        Fails, OrcAside, NoSwitch, Answer
  <2>12. CASE OrchestratorDies
    BY <2>12 DEF OrchestratorDies, Fault, Goto, process, OrcAside
  <2> QED BY <1>4, <2>1, <2>2, <2>3, <2>4, <2>5, <2>6, <2>7, <2>8, <2>9, <2>10, <2>11,
      <2>12 DEF Orchestrating
<1> QED BY <1>1, <1>2, <1>3, <1>4 DEF Next

SwitchInv == TypeOK /\ FileAndProcess /\ SavedBefore

LEMMA SwitchInvHolds == Spec => []SwitchInv
<1>1. Init => SwitchInv
  BY InitTypes, InitSwitch DEF SwitchInv
<1>2. SwitchInv /\ [Next]_vars => SwitchInv'
  BY StepTypes, FileAndProcessStep, SavedBeforeStep DEF SwitchInv
<1> QED BY <1>1, <1>2, PTL DEF Spec

\* Nothing but a step of the orchestrator moves it.
LEMMA OnlyItself ==
  ASSUME TypeOK, Booting \/ Saving \/ Asking PROVE orc'.pc = orc.pc
<1> USE DEF TypeOK, OrchestratorTypes
<1>1. CASE Booting
  BY <1>1 DEF Booting, NotifyStateLoaded, KeyExpires, SubscriberStarts, NodeRuns
<1>2. CASE Saving
  BY <1>2 DEF Saving, SaveAtOnce, ScheduleSave, SaveRuns, SaveTimesOut, PublishSaved,
      SubscriberEnds, Fault
<1>3. CASE Asking
  BY <1>3 DEF Asking, Alert, SwitchMarket, SwitcherSubscribes, SwitcherTimesOut, Restart,
      RestarterMoves, RestarterRequests, RestarterHears, RestarterTimesOut, RestarterRestarts
<1> QED BY <1>1, <1>2, <1>3

\* The steps of the orchestrator that end a switch.
LEMMA LastSteps ==
  ASSUME TypeOK, Orchestrating
  PROVE /\ orc.pc = "poll" /\ orc'.pc = "idle" => PollCompletes
        /\ orc.pc \notin {"idle", "poll"} /\ orc'.pc = "idle"
             => Request \/ SavedTimesOut \/ UpdateEnv \/ Undo \/ RestartBack
<1> USE DEF TypeOK, OrchestratorTypes, Switching, OrcSteps
<1>1. ASSUME Take \/ PollCompletes \/ OrchestratorDies
      PROVE orc.pc \in {"idle", "poll"} /\ (orc.pc = "poll" => PollCompletes)
  BY <1>1 DEF Take, PollCompletes, OrchestratorDies
<1>2. ASSUME HearSaved \/ PollTimesOut \/ Rollback \/ RestartTrader
      PROVE orc'.pc # "idle"
  BY <1>2, DeadTypes DEF HearSaved, PollTimesOut, Rollback, RestartTrader, Goto, Hangs
<1>3. ASSUME Request \/ SavedTimesOut \/ UpdateEnv \/ Undo \/ RestartBack
      PROVE orc.pc # "poll"
  BY <1>3 DEF Request, SavedTimesOut, UpdateEnv, Undo, RestartBack
<1> QED BY <1>1, <1>2, <1>3 DEF Orchestrating

\* Whatever times out and whoever restarts the trader meanwhile: between switches the
\* trader runs the market of the .env file, unless a write or a docker restart failed.
THEOREM EnvNames == Spec => []EnvNamesTrader
<1>1. SwitchInv => EnvNamesTrader
  BY DEF SwitchInv, FileAndProcess, EnvNamesTrader
<1> QED BY <1>1, SwitchInvHolds, PTL

\* A switch that is reported complete has happened, in the file and in the process.
THEOREM CompleteHolds == Spec => CompleteIsTrue
<1>1. SwitchInv /\ [Next]_vars => [CompletesTruly]_vars
  <2> SUFFICES ASSUME SwitchInv, Next, orc.pc = "poll", orc'.pc = "idle"
               PROVE env' = orc.target /\ trader'.market = orc.target
    BY DEF CompletesTruly
  <2>1. PollCompletes
    BY OnlyItself, LastSteps DEF SwitchInv, Next
  <2> QED BY <2>1 DEF SwitchInv, FileAndProcess, PollCompletes, OrcKeeps, process
<1> QED BY <1>1, SwitchInvHolds, PTL DEF Spec, CompleteIsTrue

\* A switch that fails leaves the MARKET it found, as long as no write failed.
THEOREM FailureHolds == Spec => FailureRestoresMarket
<1>1. SwitchInv /\ [Next]_vars => [FailsBack]_vars
  <2> SUFFICES ASSUME SwitchInv, Next, orc.pc \notin {"idle", "poll"}, orc'.pc = "idle",
                      faults' = 0
               PROVE env' = orc.previous
    BY DEF FailsBack
  <2> USE DEF SwitchInv, TypeOK, CommandTypes, FileAndProcess
  <2>1. Request \/ SavedTimesOut \/ UpdateEnv \/ Undo \/ RestartBack
    BY OnlyItself, LastSteps DEF Next
  <2>2. CASE Request
    BY <2>2 DEF Request
  <2>3. CASE SavedTimesOut
    BY <2>3 DEF SavedTimesOut, OrcKeeps
  <2>4. CASE UpdateEnv
    BY <2>4 DEF UpdateEnv, Fault, Goto, OrchestratorTypes
  <2>5. CASE Undo
    BY <2>5 DEF Undo, RestoreEnv, Fault
  <2>6. CASE RestartBack
    BY <2>6 DEF RestartBack
  <2> QED BY <2>1, <2>2, <2>3, <2>4, <2>5, <2>6
<1> QED BY <1>1, SwitchInvHolds, PTL DEF Spec, FailureRestoresMarket

\* A switch kills only a process that has saved, until the first sam restart.
THEOREM KillsSavedHolds == Spec => SwitchKillsSavedOnly
<1>1. SwitchInv /\ [Next]_vars => [KillsSaved]_vars
  BY DEF SwitchInv, SavedBefore, KillsSaved
<1> QED BY <1>1, SwitchInvHolds, PTL DEF Spec, SwitchKillsSavedOnly
=============================================================================
