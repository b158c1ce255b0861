------------------------ MODULE FutuSubscriptionManager ------------------------
(* The quota table for Futu OpenD subscriptions                                 *)
(* (adapters/futu/subscription_manager.py).  Every method runs to completion    *)
(* under its data type's lock and awaits nothing while it holds it, so a call   *)
(* is one step.  The table is kept as operators on one data type's map, so that *)
(* a client that owns a manager can be modelled on top of them.                 *)
EXTENDS Integers, FiniteSets

CONSTANTS
  InstrumentIds,
  MaxQuoteSubs, MaxOrderBookSubs, MaxKlinesSubs, MaxTradeTickSubs,
  IdleTimeout,
  Timeouts,          \* explicit arguments of release_idle; 0 means none given
  MaxTime            \* bound on the clock

DataTypes == {"QUOTE", "TRADE_TICK", "ORDER_BOOK", "KLINE"}

Limit(dt) == CASE dt = "QUOTE"      -> MaxQuoteSubs
               [] dt = "TRADE_TICK" -> MaxTradeTickSubs
               [] dt = "ORDER_BOOK" -> MaxOrderBookSubs
               [] dt = "KLINE"      -> MaxKlinesSubs

ASSUME ManagerAssumption ==
  /\ IsFiniteSet(InstrumentIds)
  /\ {MaxQuoteSubs, MaxOrderBookSubs, MaxKlinesSubs, MaxTradeTickSubs,
      IdleTimeout, MaxTime} \subseteq Nat
  /\ Timeouts \subseteq Nat

VARIABLES subs,      \* _subs: per data type, the entry of each instrument
          clock      \* time.monotonic()

managerVars == <<subs, clock>>

NoEntry == [active |-> FALSE, isBundle |-> FALSE, lastAccess |-> 0]
Entry == {NoEntry} \cup [active : {TRUE}, isBundle : BOOLEAN, lastAccess : Nat]
NewEntry(isBundle) == [active |-> TRUE, isBundle |-> isBundle, lastAccess |-> clock]

Active(m) == {i \in InstrumentIds : m[i].active}

-----------------------------------------------------------------------------
(* The methods, on the map m of one data type *)

Added(m, i, isBundle) == [m EXCEPT ![i] = NewEntry(isBundle)]
Without(m, i) == [m EXCEPT ![i] = NoEntry]
Refreshed(m, i) == [m EXCEPT ![i].lastAccess = clock]

AdHoc(m) == {i \in Active(m) : ~m[i].isBundle}
OldestAdHoc(m) == {i \in AdHoc(m) :
                  \A j \in AdHoc(m) : m[i].lastAccess <= m[j].lastAccess}

HasRoomOffByOne(m, dt) == Cardinality(Active(m)) <= Limit(dt)    \* mutant
HasRoom(m, dt) == Cardinality(Active(m)) < Limit(dt)

\* What subscribe may answer and leave behind: a refresh, a new entry, a new
\* entry in the place of the oldest ad-hoc one (a bundle's only), or a refusal.
Refresh(m, i) == IF m[i].active THEN {[ok |-> TRUE, map |-> Refreshed(m, i)]} ELSE {}
Admit(m, dt, i, isBundle) ==
  IF ~m[i].active /\ HasRoom(m, dt)
  THEN {[ok |-> TRUE, map |-> Added(m, i, isBundle)]} ELSE {}
Evict(m, dt, i, isBundle) ==
  IF ~m[i].active /\ ~HasRoom(m, dt) /\ isBundle
  THEN {[ok |-> TRUE, map |-> Added(Without(m, v), i, isBundle)] :
           v \in OldestAdHoc(m)}
  ELSE {}
Refuse(m, dt, i, isBundle) ==
  IF ~m[i].active /\ ~HasRoom(m, dt) /\ (isBundle => AdHoc(m) = {})
  THEN {[ok |-> FALSE, map |-> m]} ELSE {}

SubscribeOutcomes(m, dt, i, isBundle) ==
  Refresh(m, i) \cup Admit(m, dt, i, isBundle)
    \cup Evict(m, dt, i, isBundle) \cup Refuse(m, dt, i, isBundle)

\* release_idle drops the entries last used strictly before the cutoff; a
\* timeout of 0 reads as "none given".
Idle(m, timeout) ==
  {i \in Active(m) : m[i].lastAccess < clock - (IF timeout = 0 THEN IdleTimeout ELSE timeout)}
ReleaseIdleFrom(m, timeout) ==
  [i \in InstrumentIds |-> IF i \in Idle(m, timeout) THEN NoEntry ELSE m[i]]

-----------------------------------------------------------------------------
(* The manager on its own, driven by any caller *)

Init ==
  /\ subs = [dt \in DataTypes |-> [i \in InstrumentIds |-> NoEntry]]
  /\ clock = 1

Subscribe(i, dt, isBundle) ==
  /\ \E out \in SubscribeOutcomes(subs[dt], dt, i, isBundle) :
       subs' = [subs EXCEPT ![dt] = out.map]
  /\ UNCHANGED clock

Unsubscribe(i, dt) ==
  /\ subs' = [subs EXCEPT ![dt] = Without(@, i)]
  /\ UNCHANGED clock

Touch(i, dt) ==
  /\ subs[dt][i].active
  /\ subs' = [subs EXCEPT ![dt] = Refreshed(@, i)]
  /\ UNCHANGED clock

ReleaseIdle(timeout) ==
  /\ subs' = [dt \in DataTypes |-> ReleaseIdleFrom(subs[dt], timeout)]
  /\ UNCHANGED clock

Tick ==
  /\ clock < MaxTime
  /\ clock' = clock + 1
  /\ UNCHANGED subs

Next ==
  \/ \E i \in InstrumentIds, dt \in DataTypes :
       \/ \E isBundle \in BOOLEAN : Subscribe(i, dt, isBundle)
       \/ Unsubscribe(i, dt)
       \/ Touch(i, dt)
  \/ \E timeout \in Timeouts : ReleaseIdle(timeout)
  \/ Tick

Spec == Init /\ [][Next]_managerVars

-----------------------------------------------------------------------------
(* Properties *)

TypeOK ==
  /\ subs \in [DataTypes -> [InstrumentIds -> Entry]]
  /\ clock \in Nat

\* "enforces Futu OpenD limits": through refreshes, evictions and releases in
\* any order, no data type ever holds more entries than its limit.
QuotaRespected == \A dt \in DataTypes : Cardinality(Active(subs[dt])) <= Limit(dt)
=============================================================================
