------------------------------ MODULE KillSwitch ------------------------------
(* The kill switch, end to end: the sam CLI and the circuit-breaker cron job    *)
(* publish a safety state through Redis (services/safety.py), a thread of the   *)
(* trader listens and applies it on the node's event loop                       *)
(* (kill_switch_subscriber.py), main.py starts both.  The publishers are        *)
(* processes of their own, the listener and the node are threads of one         *)
(* process, and Redis pub/sub keeps nothing for a listener that is not there.   *)
EXTENDS Naturals, Sequences, FiniteSets

CONSTANTS
  Strategies,
  Publishers,        \* subset of {"operator", "monitor"}
  Commands,          \* what the operator issues: subset of SafetyStates
  MaxCommands, MaxQueue, MaxFaults, MaxRestarts, MaxRejectionHalts
    \* bounds: operator commands, messages waiting in the listener's connection
    \* and callbacks waiting on the loop, calls that raise, restarts of the trader,
    \* strategies halted by the rejection monitor

SafetyStates == {"RUNNING", "CLOSE_ONLY", "HALTED"}

ASSUME KillSwitchAssumption ==
  /\ IsFiniteSet(Strategies)
  /\ Publishers \subseteq {"operator", "monitor"}
  /\ Commands \subseteq SafetyStates
  /\ {MaxCommands, MaxQueue, MaxFaults, MaxRestarts, MaxRejectionHalts} \subseteq Nat

VARIABLES
  key, reason,       \* sam:kill_switch, and which state sam:kill_switch:reason explains
  pub,               \* per publisher: where it is in publish_safety_state
  breach,            \* a sam:pnl key of today is below the limit
  rejectionHalt,     \* sam:rejection_halt:{strategy} keys
  strategyHalt,      \* sam:strategy_halt:{strategy} keys
  listener,          \* "off", "connecting", "listening" or "dead"
  inbox,             \* messages the listener's connection holds
  waiting,           \* _handle_state waits for its callback (done_event)
  callbacks,         \* states scheduled on the node's loop
  exits,             \* strategies the listener thread itself has yet to exit
  loopRunning,
  risk,              \* the risk engine's TradingState, or "NONE" without a trader
  order,             \* per strategy, its entry order: "none", "sent" (past the risk
                     \* engine, in the client's task), "working" or "cancelling"
  raised,            \* strategies whose last market_exit raised
  late,              \* strategies whose order was placed after the halt (history)
  commands, faults, restarts,
  announced,         \* the state last put on the channel (history)
  overlapped         \* two publishers were at it at once (history)

redis   == <<key, reason, breach, rejectionHalt, strategyHalt>>
thread  == <<listener, inbox, waiting, exits>>
venue   == <<order, late>>
node    == <<callbacks, loopRunning, risk, raised, venue>>
history == <<announced, overlapped>>
counts  == <<commands, faults, restarts, history>>
vars    == <<redis, pub, thread, node, counts>>

STATE_MAP == [RUNNING |-> "ACTIVE", CLOSE_ONLY |-> "REDUCING", HALTED |-> "HALTED"]

Idle == [pc |-> "idle", state |-> "RUNNING"]

\* A trader that has been up for a while, and no command given yet: an absent
\* key means the same as RUNNING.
Init ==
  /\ key = "RUNNING" /\ reason = "RUNNING"
  /\ pub = [p \in Publishers |-> Idle]
  /\ breach = FALSE
  /\ rejectionHalt = {} /\ strategyHalt = {}
  /\ listener = "listening" /\ inbox = <<>> /\ waiting = FALSE /\ exits = {}
  /\ callbacks = <<>> /\ loopRunning = TRUE
  /\ risk = "ACTIVE" /\ raised = {}
  /\ order = [s \in Strategies |-> "none"] /\ late = {}
  /\ commands = 0 /\ faults = 0 /\ restarts = 0
  /\ announced = "RUNNING" /\ overlapped = FALSE

-----------------------------------------------------------------------------
(* Publishers: cmd_kill, cmd_halt, cmd_resume and the breaker monitor *)

StartPublishing(p, state) ==
  /\ pub' = [pub EXCEPT ![p] = [pc |-> "set", state |-> state]]
  /\ overlapped' = (overlapped \/ \E q \in Publishers \ {p} : pub[q].pc # "idle")

Command(state) ==
  /\ "operator" \in Publishers
  /\ pub["operator"].pc = "idle"
  /\ commands < MaxCommands
  /\ commands' = commands + 1
  /\ StartPublishing("operator", state)
  /\ UNCHANGED <<redis, thread, node, faults, restarts, announced>>

\* One run of the monitor: a daily loss beyond the limit publishes HALTED (once;
\* the code repeats it for every strategy beyond it), then every rejection halt is
\* copied to a strategy halt.  Connectivity is only logged.
CopyRejectionHalts == strategyHalt' = strategyHalt \cup rejectionHalt

MonitorNeverPublishes ==                                 \* mutant
  /\ "monitor" \in Publishers
  /\ pub["monitor"].pc = "idle"
  /\ CopyRejectionHalts
  /\ UNCHANGED <<key, reason, breach, rejectionHalt, pub, thread, node, counts>>

MonitorRun ==
  /\ "monitor" \in Publishers
  /\ pub["monitor"].pc = "idle"
  /\ IF breach THEN StartPublishing("monitor", "HALTED") /\ UNCHANGED strategyHalt
               ELSE CopyRejectionHalts /\ UNCHANGED <<pub, overlapped>>
  /\ UNCHANGED <<key, reason, breach, rejectionHalt, thread, node, commands, faults, restarts,
                 announced>>

\* publish_safety_state: three keys, then the channel; four Redis commands that
\* another publisher's can come between.

SetKey(p) ==
  /\ pub[p].pc = "set"
  /\ key' = pub[p].state
  /\ pub' = [pub EXCEPT ![p].pc = "reason"]
  /\ UNCHANGED <<reason, breach, rejectionHalt, strategyHalt, thread, node, counts>>

SetReason(p) ==
  /\ pub[p].pc = "reason"
  /\ reason' = pub[p].state
  /\ pub' = [pub EXCEPT ![p].pc = "publish"]
  /\ UNCHANGED <<key, breach, rejectionHalt, strategyHalt, thread, node, counts>>

Publish(p) ==
  /\ pub[p].pc = "publish"
  /\ listener = "listening" => Len(inbox) < MaxQueue
  /\ inbox' = IF listener = "listening" THEN Append(inbox, pub[p].state) ELSE inbox
  /\ pub' = [pub EXCEPT ![p] = Idle]
  /\ announced' = pub[p].state
  /\ IF p = "monitor" THEN CopyRejectionHalts ELSE UNCHANGED strategyHalt
  /\ UNCHANGED <<key, reason, breach, rejectionHalt, listener, waiting, exits, node,
                 commands, faults, restarts, overlapped>>

\* Redis fails under a publisher: the command ends where it is.
Abandon(p) ==
  /\ pub[p].pc # "idle"
  /\ faults < MaxFaults
  /\ faults' = faults + 1
  /\ pub' = [pub EXCEPT ![p] = Idle]
  /\ UNCHANGED <<redis, thread, node, commands, restarts, history>>

-----------------------------------------------------------------------------
(* The listener thread, and the callbacks it leaves to the node's loop *)

\* Redis fails under the listener: the loop ends and nothing starts it again.
ListenerDies ==
  /\ listener \in {"connecting", "listening"}
  /\ ~waiting /\ exits = {}
  /\ faults < MaxFaults
  /\ faults' = faults + 1
  /\ listener' = "dead"
  /\ inbox' = <<>>
  /\ UNCHANGED <<redis, pub, waiting, exits, node, commands, restarts, history>>

ListenerSubscribes ==
  /\ listener = "connecting"
  /\ listener' = "listening"
  /\ UNCHANGED <<redis, pub, inbox, waiting, exits, node, counts>>

SetTradingState(s) == risk' = STATE_MAP[s]

\* _handle_state with a running loop: schedule _apply and wait for it.
Schedule ==
  /\ listener = "listening" /\ inbox # <<>> /\ ~waiting /\ exits = {}
  /\ loopRunning /\ Len(callbacks) < MaxQueue
  /\ inbox' = Tail(inbox)
  /\ callbacks' = Append(callbacks, Head(inbox))
  /\ waiting' = TRUE
  /\ UNCHANGED <<redis, pub, listener, exits, loopRunning, risk, raised, venue, counts>>

\* _handle_state before the loop runs: the listener thread applies the state
\* itself, while the main thread goes on starting the node.
ApplyDirectly ==
  /\ listener = "listening" /\ inbox # <<>> /\ ~waiting /\ exits = {}
  /\ ~loopRunning
  /\ inbox' = Tail(inbox)
  /\ SetTradingState(Head(inbox))
  /\ exits' = IF Head(inbox) = "HALTED" THEN Strategies ELSE {}
  /\ UNCHANGED <<redis, pub, listener, waiting, callbacks, loopRunning, raised, venue, counts>>

\* market_exit of the strategies that do not raise: a cancel is requested for the order
\* the engine knows to be open.  One whose task still waits in the client is not known
\* as open, and nothing stops the task.
MarketExits(exiting) ==
  /\ order' = [s \in Strategies |-> IF s \in exiting /\ order[s] = "working"
                                    THEN "cancelling" ELSE order[s]]
  /\ late' = late \ exiting

\* One market_exit of the listener thread, which may raise; that is logged and does
\* not stop the others.
ExitNext(s) ==
  /\ s \in exits
  /\ exits' = exits \ {s}
  /\ \/ MarketExits({s}) /\ raised' = raised \ {s} /\ UNCHANGED faults
     \/ /\ faults < MaxFaults
        /\ faults' = faults + 1
        /\ raised' = raised \cup {s} /\ UNCHANGED venue
  /\ UNCHANGED <<redis, pub, listener, inbox, waiting, callbacks, loopRunning, risk,
                 commands, restarts, history>>

\* The loop runs the oldest callback: _apply_state, with a market exit of every
\* strategy for HALTED, those that raise apart.
ExitsAll(s) == s = "HALTED"
ReachedUntilOneRaises(failing) ==                        \* mutant: one failure ends the loop
  IF failing = {} THEN Strategies ELSE {}
Reached(failing) == Strategies \ failing

RunCallback ==
  /\ loopRunning /\ callbacks # <<>>
  /\ callbacks' = Tail(callbacks)
  /\ waiting' = (waiting /\ Len(callbacks) > 1)
  /\ SetTradingState(Head(callbacks))
  /\ IF ExitsAll(Head(callbacks))
     THEN \E failing \in SUBSET Strategies :
            /\ faults + Cardinality(failing) <= MaxFaults
            /\ faults' = faults + Cardinality(failing)
            /\ MarketExits(Reached(failing))
            /\ raised' = failing
     ELSE UNCHANGED <<faults, raised, venue>>
  /\ UNCHANGED <<redis, pub, listener, inbox, exits, loopRunning, commands,
                 restarts, history>>

\* set_trading_state raises: the state is dropped, for HALTED the exits with it.
CallbackFails ==
  /\ loopRunning /\ callbacks # <<>>
  /\ faults < MaxFaults
  /\ faults' = faults + 1
  /\ callbacks' = Tail(callbacks)
  /\ waiting' = (waiting /\ Len(callbacks) > 1)
  /\ UNCHANGED <<redis, pub, listener, inbox, exits, loopRunning, risk, raised, venue,
                 commands, restarts, history>>

\* done_event.wait(10) gives up; the callback stays on the loop.
WaitTimesOutDropped ==                                   \* mutant: and takes it back
  /\ waiting
  /\ waiting' = FALSE
  /\ callbacks' = SubSeq(callbacks, 1, Len(callbacks) - 1)
  /\ UNCHANGED <<redis, pub, listener, inbox, exits, loopRunning, risk, raised, venue, counts>>

WaitTimesOut ==
  /\ waiting
  /\ waiting' = FALSE
  /\ UNCHANGED <<redis, pub, listener, inbox, exits, node, counts>>

-----------------------------------------------------------------------------
(* The trader process and its world *)

\* A strategy sends an entry order; the risk engine lets it through only ACTIVE, and
\* the client's task waits in the limiter of orders.
Submit(s) ==
  /\ loopRunning /\ risk = "ACTIVE"
  /\ order[s] = "none"
  /\ order' = [order EXCEPT ![s] = "sent"]
  /\ late' = late \ {s}
  /\ UNCHANGED <<redis, pub, thread, callbacks, loopRunning, risk, raised, counts>>

\* _submit_order after the limiter: the order is placed, whatever the risk engine says
\* by now.
Place(s) ==
  /\ loopRunning
  /\ order[s] = "sent"
  /\ order' = [order EXCEPT ![s] = "working"]
  /\ late' = IF risk = "HALTED" THEN late \cup {s} ELSE late
  /\ UNCHANGED <<redis, pub, thread, callbacks, loopRunning, risk, raised, counts>>

\* The order is refused, fills, is canceled or expires.
OrderEnds(s) ==
  /\ order[s] # "none"
  /\ order' = [order EXCEPT ![s] = "none"]
  /\ UNCHANGED <<redis, pub, thread, callbacks, loopRunning, risk, raised, late, counts>>

\* RejectionMonitorActor._write_halt_to_redis
RejectionHalt(s) ==
  /\ loopRunning
  /\ s \notin rejectionHalt /\ Cardinality(rejectionHalt) < MaxRejectionHalts
  /\ rejectionHalt' = rejectionHalt \cup {s}
  /\ UNCHANGED <<key, reason, breach, strategyHalt, pub, thread, node, counts>>

\* Fills take today's realized loss past the limit or back, and a new UTC day
\* starts from nothing.
LossMoves ==
  /\ "monitor" \in Publishers
  /\ breach' = ~breach
  /\ UNCHANGED <<key, reason, rejectionHalt, strategyHalt, pub, thread, node, counts>>

\* The process goes down with everything in it, tasks included; orders placed stay at
\* the venue ...
TraderStops ==
  /\ risk # "NONE"
  /\ restarts < MaxRestarts
  /\ restarts' = restarts + 1
  /\ listener' = "off" /\ inbox' = <<>> /\ waiting' = FALSE /\ exits' = {}
  /\ callbacks' = <<>> /\ loopRunning' = FALSE
  /\ risk' = "NONE" /\ raised' = {} /\ late' = {}
  /\ order' = [s \in Strategies |-> IF order[s] = "sent" THEN "none" ELSE order[s]]
  /\ UNCHANGED <<redis, pub, commands, faults, history>>

\* ... and main() boots: the listener thread starts, a new risk engine is ACTIVE.
Boot ==
  /\ risk = "NONE"
  /\ risk' = "ACTIVE"
  /\ listener' = "connecting"
  /\ UNCHANGED <<redis, pub, inbox, waiting, exits, callbacks, loopRunning, raised, venue,
                 counts>>

NodeRuns ==
  /\ risk # "NONE" /\ ~loopRunning
  /\ loopRunning' = TRUE
  /\ UNCHANGED <<redis, pub, thread, callbacks, risk, raised, venue, counts>>

-----------------------------------------------------------------------------

Publishing == \E p \in Publishers : SetKey(p) \/ SetReason(p) \/ Publish(p) \/ Abandon(p)
Listening == ListenerDies \/ ListenerSubscribes \/ Schedule \/ ApplyDirectly
               \/ WaitTimesOut \/ \E s \in Strategies : ExitNext(s)
Applying == RunCallback \/ CallbackFails
Orders == \E s \in Strategies : Submit(s) \/ Place(s) \/ OrderEnds(s)

Next ==
  \/ \E state \in Commands : Command(state)
  \/ MonitorRun
  \/ Publishing \/ Listening \/ Applying \/ Orders
  \/ \E s \in Strategies : RejectionHalt(s)
  \/ LossMoves
  \/ TraderStops \/ Boot \/ NodeRuns

Spec == Init /\ [][Next]_vars

\* Cron runs the monitor every minute, a CLI command runs to its end, threads and
\* the event loop are scheduled, and the container is started again when it stops.
Fairness ==
  /\ WF_vars(MonitorRun)
  /\ \A p \in Publishers : WF_vars(SetKey(p) \/ SetReason(p) \/ Publish(p))
  /\ WF_vars(ListenerSubscribes)
  /\ WF_vars(Schedule \/ ApplyDirectly)
  /\ \A s \in Strategies : WF_vars(ExitNext(s))
  /\ WF_vars(RunCallback)
  /\ WF_vars(Boot) /\ WF_vars(NodeRuns)

FairSpec == Spec /\ Fairness

-----------------------------------------------------------------------------
(* Properties *)

TypeOK ==
  /\ key \in SafetyStates /\ reason \in SafetyStates
  /\ pub \in [Publishers -> [pc : {"idle", "set", "reason", "publish"},
                             state : SafetyStates]]
  /\ breach \in BOOLEAN
  /\ rejectionHalt \subseteq Strategies /\ strategyHalt \subseteq rejectionHalt
  /\ listener \in {"off", "connecting", "listening", "dead"}
  /\ inbox \in Seq(SafetyStates) /\ callbacks \in Seq(SafetyStates)
  /\ waiting \in BOOLEAN /\ (waiting => callbacks # <<>>)
  /\ exits \subseteq Strategies /\ raised \subseteq Strategies /\ late \subseteq Strategies
  /\ order \in [Strategies -> {"none", "sent", "working", "cancelling"}]
  /\ loopRunning \in BOOLEAN
  /\ risk \in {"NONE", "ACTIVE", "REDUCING", "HALTED"}
  /\ commands \in Nat /\ faults \in Nat /\ restarts \in Nat
  /\ announced \in SafetyStates /\ overlapped \in BOOLEAN

\* Whichever thread applied the halt, however many callbacks were late and whichever
\* exits raised: an order that works under a halt without a cancel on its way is of a
\* strategy whose own exit raised, or was in the client's task when the halt came.
\* (HaltInv says the same while the listener thread is still exiting strategies.)
Uncancelled == {s \in Strategies : order[s] = "working"}
HaltInv == risk = "HALTED" => Uncancelled \subseteq raised \cup exits \cup late
HaltReachesEveryOrder ==
  risk = "HALTED" /\ exits = {} => Uncancelled \subseteq raised \cup late

\* "Activate the kill switch: cancel all orders, halt trading".
KillCancelsAll == risk = "HALTED" /\ exits = {} => Uncancelled = {}

\* A trader that stays up ends in the state announced last, whoever announced it and
\* however late earlier callbacks run; and that is the state the key in Redis names,
\* unless two publishers got in each other's way.  A call that failed is excepted.
LastCommandWins ==
  []<>(\/ risk = STATE_MAP[announced] /\ (key = announced \/ overlapped)
       \/ faults > 0 \/ restarts > 0)

\* While today's loss is beyond the limit, a trader that was resumed, restarted
\* or missed the message is halted again, unless a call failed.
BreachHalts == breach ~> (risk = "HALTED" \/ ~breach \/ faults > 0)

\* "State is persisted in Redis": what the key says is what the trader does,
\* restarts included.
KeyGoverns == []<>(risk = STATE_MAP[key])
=============================================================================
