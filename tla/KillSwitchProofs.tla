--------------------------- MODULE KillSwitchProofs ---------------------------
(* For any strategies, publishers and number of faults and restarts: a halt    *)
(* that was applied has asked for the cancel of every working order, except    *)
(* where market_exit raised and where the order was only placed afterwards.    *)
EXTENDS KillSwitch, FiniteSetTheorems, SequenceTheorems, TLAPS

LEMMA StateMapType ==
  ASSUME NEW s \in SafetyStates
  PROVE /\ STATE_MAP[s] \in {"ACTIVE", "REDUCING", "HALTED"}
        /\ STATE_MAP[s] = "HALTED" <=> s = "HALTED"
BY DEF SafetyStates, STATE_MAP

\* What is taken from the front of a queue of states is a state.
LEMMA QueueTypes ==
  ASSUME NEW q \in Seq(SafetyStates), q # <<>>
  PROVE /\ Head(q) \in SafetyStates
        /\ Tail(q) \in Seq(SafetyStates)
        /\ Len(q) > 1 => Tail(q) # <<>>
<1>1. Head(q) \in SafetyStates /\ Tail(q) \in Seq(SafetyStates) /\ Len(Tail(q)) = Len(q) - 1
  BY HeadTailProperties
<1>2. Len(q) > 1 => Len(Tail(q)) # 0
  BY <1>1, LenProperties
<1>3. Len(<<>>) = 0
  BY EmptySeq
<1> QED BY <1>1, <1>2, <1>3

Announcements == [Publishers -> [pc : {"idle", "set", "reason", "publish"},
                                 state : SafetyStates]]

\* Whoever starts to publish, the publishers' steps keep their type.
LEMMA StartTypes ==
  ASSUME pub \in Announcements, overlapped \in BOOLEAN,
         NEW p \in Publishers, NEW state \in SafetyStates, StartPublishing(p, state)
  PROVE pub' \in Announcements /\ overlapped' \in BOOLEAN
<1>1. pub' \in Announcements
  BY DEF StartPublishing, Announcements
<1>2. overlapped' \in BOOLEAN
  BY DEF StartPublishing
<1> QED BY <1>1, <1>2

LEMMA TypeStep == TypeOK /\ [Next]_vars => TypeOK'
<1> SUFFICES ASSUME TypeOK, [Next]_vars PROVE TypeOK' OBVIOUS
<1> USE DEF TypeOK, redis, thread, node, venue, history, counts
<1>0. STATE_MAP \in [SafetyStates -> {"ACTIVE", "REDUCING", "HALTED"}]
  BY DEF STATE_MAP, SafetyStates
<1>1. ASSUME NEW state \in Commands, Command(state) PROVE TypeOK'
  BY <1>1, KillSwitchAssumption DEF Command, StartPublishing
<1>2. CASE MonitorRun
  <2>1. pub' \in Announcements /\ overlapped' \in BOOLEAN
    <3>1. CASE breach
      <4>1. "monitor" \in Publishers /\ StartPublishing("monitor", "HALTED")
        BY <1>2, <3>1 DEF MonitorRun
      <4>2. "HALTED" \in SafetyStates
        BY DEF SafetyStates
      <4>3. pub \in Announcements /\ overlapped \in BOOLEAN
        BY DEF Announcements
      <4> QED BY <4>1, <4>2, <4>3, StartTypes
    <3>2. CASE ~breach
      BY <1>2, <3>2 DEF MonitorRun, Announcements
    <3> QED BY <3>1, <3>2
  <2>2. strategyHalt' \subseteq rejectionHalt'
    BY <1>2 DEF MonitorRun, CopyRejectionHalts
  <2>3. UNCHANGED <<key, reason, breach, rejectionHalt, thread, node, commands, faults, restarts,
                    announced>>
    BY <1>2 DEF MonitorRun
  <2> QED BY <2>1, <2>2, <2>3 DEF Announcements
<1>3. CASE Publishing
  <2>1. ASSUME NEW p \in Publishers, SetKey(p) PROVE TypeOK' BY <2>1 DEF SetKey
  <2>2. ASSUME NEW p \in Publishers, SetReason(p) PROVE TypeOK' BY <2>2 DEF SetReason
  <2>3. ASSUME NEW p \in Publishers, Publish(p) PROVE TypeOK'
    BY <2>3 DEF Publish, CopyRejectionHalts, Idle, SafetyStates
  <2>4. ASSUME NEW p \in Publishers, Abandon(p) PROVE TypeOK'
    BY <2>4 DEF Abandon, Idle, SafetyStates
  <2> QED BY <1>3, <2>1, <2>2, <2>3, <2>4 DEF Publishing
<1>4. CASE Listening
  <2>1. CASE ListenerDies BY <2>1 DEF ListenerDies
  <2>2. CASE ListenerSubscribes BY <2>2 DEF ListenerSubscribes
  <2>3. CASE Schedule
    <3>1. Head(inbox) \in SafetyStates /\ Tail(inbox) \in Seq(SafetyStates)
      BY <2>3, QueueTypes DEF Schedule
    <3>2. /\ Append(callbacks, Head(inbox)) \in Seq(SafetyStates)
          /\ Append(callbacks, Head(inbox)) # <<>>
      BY <3>1, AppendProperties
    <3>3. waiting' = TRUE /\ callbacks' # <<>>
      BY <2>3, <3>2 DEF Schedule
    <3>4. inbox' \in Seq(SafetyStates) /\ callbacks' \in Seq(SafetyStates)
      BY <2>3, <3>1, <3>2 DEF Schedule
    <3>5. UNCHANGED <<key, reason, pub, breach, rejectionHalt, strategyHalt, listener,
                      exits, loopRunning, risk, raised, order, late, commands, faults,
                      restarts, announced, overlapped>>
      BY <2>3 DEF Schedule
    <3> QED BY <3>3, <3>4, <3>5
  <2>4. CASE ApplyDirectly
    <3>1. Head(inbox) \in SafetyStates /\ Tail(inbox) \in Seq(SafetyStates)
      BY <2>4, QueueTypes DEF ApplyDirectly
    <3> QED BY <1>0, <2>4, <3>1 DEF ApplyDirectly, SetTradingState
  <2>5. CASE WaitTimesOut BY <2>5 DEF WaitTimesOut
  <2>6. ASSUME NEW s \in Strategies, ExitNext(s) PROVE TypeOK'
    BY <2>6 DEF ExitNext, MarketExits
  <2> QED BY <1>4, <2>1, <2>2, <2>3, <2>4, <2>5, <2>6 DEF Listening
<1>5. CASE Applying
  <2>0. /\ callbacks # <<>>
        /\ Head(callbacks) \in SafetyStates
        /\ Tail(callbacks) \in Seq(SafetyStates)
        /\ Len(callbacks) > 1 => Tail(callbacks) # <<>>
    BY <1>5, QueueTypes DEF Applying, RunCallback, CallbackFails
  <2>1. CASE RunCallback
    <3>1. \A f \in SUBSET Strategies : Cardinality(f) \in Nat
      BY KillSwitchAssumption, FS_Subset, FS_CardinalityType
    <3>2. /\ faults' \in Nat /\ raised' \subseteq Strategies /\ late' \subseteq Strategies
          /\ order' \in [Strategies -> {"none", "sent", "working", "cancelling"}]
      <4>1. CASE ExitsAll(Head(callbacks))
        BY <2>1, <3>1, <4>1 DEF RunCallback, MarketExits
      <4>2. CASE ~ExitsAll(Head(callbacks))
        BY <2>1, <4>2 DEF RunCallback
      <4> QED BY <4>1, <4>2
    <3> QED BY <1>0, <2>0, <2>1, <3>2 DEF RunCallback, SetTradingState
  <2>2. CASE CallbackFails
    <3>1. waiting' \in BOOLEAN /\ (waiting' => callbacks' # <<>>)
      BY <2>0, <2>2 DEF CallbackFails
    <3>2. faults' \in Nat BY <2>2 DEF CallbackFails
    <3> QED BY <2>0, <2>2, <3>1, <3>2 DEF CallbackFails
  <2> QED BY <1>5, <2>1, <2>2 DEF Applying
<1>6. CASE Orders \/ \E s \in Strategies : RejectionHalt(s)
  BY <1>6 DEF Orders, Submit, Place, OrderEnds, RejectionHalt
<1>7. CASE LossMoves
  <2>1. breach' \in BOOLEAN BY <1>7 DEF LossMoves
  <2>2. UNCHANGED <<loopRunning, waiting, callbacks>> BY <1>7 DEF LossMoves
  <2> QED BY <1>7, <2>1, <2>2 DEF LossMoves
<1>8. CASE TraderStops
  <2>1. inbox' \in Seq(SafetyStates) /\ callbacks' \in Seq(SafetyStates)
    BY <1>8, EmptySeq DEF TraderStops
  <2>2. waiting' = FALSE /\ loopRunning' = FALSE /\ breach' = breach
    BY <1>8 DEF TraderStops
  <2>3. restarts' \in Nat /\ late' = {}
        /\ order' \in [Strategies -> {"none", "sent", "working", "cancelling"}]
    BY <1>8 DEF TraderStops
  <2> QED BY <1>8, <2>1, <2>2, <2>3 DEF TraderStops
<1>9. CASE Boot \/ NodeRuns
  <2>1. CASE Boot BY <1>9, <2>1 DEF Boot
  <2>2. CASE NodeRuns
    <3>1. loopRunning' \in BOOLEAN BY <2>2 DEF NodeRuns
    <3>2. UNCHANGED <<key, reason, pub, breach, rejectionHalt, strategyHalt, listener,
                      inbox, waiting, callbacks, exits, risk, raised, order, late,
                      commands, faults, restarts, announced, overlapped>>
      BY <2>2 DEF NodeRuns
    <3> QED BY <3>1, <3>2
  <2> QED BY <1>9, <2>1, <2>2
<1>10. CASE UNCHANGED vars BY <1>10 DEF vars
<1> QED BY <1>1, <1>2, <1>3, <1>4, <1>5, <1>6, <1>7, <1>8, <1>9, <1>10 DEF Next

\* Keys, queues and flags stay what they are meant to be, and a listener that
\* waits has a callback to wait for.
THEOREM TypeCorrect == Spec => []TypeOK
<1>0. <<>> \in Seq(SafetyStates) BY EmptySeq
<1>1. Init => TypeOK
  <2> SUFFICES ASSUME Init PROVE TypeOK OBVIOUS
  <2>1. pub \in [Publishers -> [pc : {"idle", "set", "reason", "publish"},
                                state : SafetyStates]]
    BY DEF Init, Idle, SafetyStates
  <2>2. breach \in BOOLEAN /\ waiting = FALSE /\ loopRunning \in BOOLEAN
    BY DEF Init
  <2> QED BY <1>0, <2>1, <2>2 DEF Init, TypeOK, SafetyStates
<1> QED BY <1>1, TypeStep, PTL DEF Spec

\* HaltInv is inductive: an order that is placed under a halt is late, both ways of
\* applying a halt account for every strategy, and an exit either asks for the cancel
\* or is remembered as having raised.
LEMMA HaltStep == TypeOK /\ HaltInv /\ [Next]_vars => HaltInv'
<1> SUFFICES ASSUME TypeOK, HaltInv, [Next]_vars PROVE HaltInv' OBVIOUS
<1> USE DEF HaltInv, Uncancelled, redis, thread, node, venue, history, counts
<1>1. CASE \/ \E state \in Commands : Command(state)
           \/ MonitorRun \/ LossMoves \/ Publishing
  BY <1>1 DEF Command, MonitorRun, LossMoves, Publishing,
              SetKey, SetReason, Publish, Abandon
<1>2. CASE Listening
  <2>1. CASE ListenerDies \/ ListenerSubscribes \/ Schedule \/ WaitTimesOut
    BY <2>1 DEF ListenerDies, ListenerSubscribes, Schedule, WaitTimesOut
  <2>2. CASE ApplyDirectly
    <3>1. Head(inbox) \in SafetyStates
      BY <2>2, QueueTypes DEF ApplyDirectly, TypeOK
    <3>2. risk' = "HALTED" => exits' = Strategies
      BY <2>2, <3>1, StateMapType DEF ApplyDirectly, SetTradingState
    <3> QED BY <3>2
  <2>3. ASSUME NEW s \in Strategies, ExitNext(s) PROVE HaltInv'
    BY <2>3 DEF ExitNext, MarketExits, TypeOK
  <2> QED BY <1>2, <2>1, <2>2, <2>3 DEF Listening
<1>3. CASE RunCallback
  <2>1. Head(callbacks) \in SafetyStates
    BY <1>3, QueueTypes DEF RunCallback, TypeOK
  <2>2. risk' = "HALTED" => ExitsAll(Head(callbacks))
    BY <1>3, <2>1, StateMapType DEF RunCallback, SetTradingState, ExitsAll
  <2>3. ASSUME ExitsAll(Head(callbacks)) PROVE Uncancelled' \subseteq raised'
    <3>1. PICK failing \in SUBSET Strategies : MarketExits(Strategies \ failing) /\ raised' = failing
      BY <1>3, <2>3 DEF RunCallback, Reached
    <3>2. ASSUME NEW s \in Strategies \ failing PROVE order'[s] # "working"
      BY <3>1, <3>2 DEF MarketExits, TypeOK
    <3> QED BY <3>1, <3>2
  <2> QED BY <2>2, <2>3
<1>4. CASE CallbackFails BY <1>4 DEF CallbackFails
<1>5. CASE Orders \/ \E s \in Strategies : RejectionHalt(s)
  BY <1>5 DEF Orders, Submit, Place, OrderEnds, RejectionHalt, TypeOK
<1>6. CASE TraderStops \/ Boot \/ NodeRuns
  BY <1>6 DEF TraderStops, Boot, NodeRuns
<1>7. CASE UNCHANGED vars BY <1>7 DEF vars
<1> QED BY <1>1, <1>2, <1>3, <1>4, <1>5, <1>6, <1>7 DEF Next, Applying

\* Under a halt that was applied, whichever thread did it, an order that works without a
\* cancel on its way is of a strategy whose market_exit raised, or was placed late.
THEOREM HaltHolds == Spec => []HaltReachesEveryOrder
<1>1. Init => HaltInv BY DEF Init, HaltInv
<1>2. HaltInv => HaltReachesEveryOrder BY DEF HaltInv, HaltReachesEveryOrder
<1> QED BY <1>1, <1>2, TypeCorrect, HaltStep, PTL DEF Spec
=============================================================================
