------------------------ MODULE FutuSubscriptionProofs ------------------------
(* The quota of every data type is respected whatever the instruments, limits  *)
(* and timeouts are, and what the client and the manager hold agrees with OpenD. *)
EXTENDS FutuDataClient, FiniteSetTheorems, TLAPS

LEMMA LimitType == ASSUME NEW dt \in DataTypes PROVE Limit(dt) \in Nat
BY ManagerAssumption DEF DataTypes, Limit

\* A table of one data type.
Table == [InstrumentIds -> Entry]

LEMMA ActiveFinite ==
  ASSUME NEW m PROVE IsFiniteSet(Active(m)) /\ Cardinality(Active(m)) \in Nat
<1>1. Active(m) \in SUBSET InstrumentIds BY DEF Active
<1> QED BY <1>1, ManagerAssumption, FS_Subset, FS_CardinalityType

\* Taking entries away cannot raise the count.
LEMMA FewerActive ==
  ASSUME NEW m, NEW n, Active(n) \subseteq Active(m)
  PROVE Cardinality(Active(n)) <= Cardinality(Active(m))
BY ActiveFinite, FS_Subset

LEMMA WithoutActive ==
  ASSUME NEW m \in Table, NEW i \in InstrumentIds
  PROVE Without(m, i) \in Table /\ Active(Without(m, i)) = Active(m) \ {i}
BY DEF Table, Without, Active, Entry, NoEntry

LEMMA RefreshedActive ==
  ASSUME NEW m \in Table, NEW i \in InstrumentIds, m[i].active, clock \in Nat
  PROVE Refreshed(m, i) \in Table /\ Active(Refreshed(m, i)) = Active(m)
<1>1. m[i] \in [active : {TRUE}, isBundle : BOOLEAN, lastAccess : Nat]
  <2>1. m[i] \in Entry BY DEF Table
  <2>2. m[i] # NoEntry BY DEF NoEntry
  <2> QED BY <2>1, <2>2 DEF Entry
<1>2. /\ [m[i] EXCEPT !.lastAccess = clock] \in Entry
      /\ [m[i] EXCEPT !.lastAccess = clock].active
  BY <1>1 DEF Entry
<1>3. Refreshed(m, i) = [m EXCEPT ![i] = [m[i] EXCEPT !.lastAccess = clock]]
  BY DEF Refreshed
<1> QED BY <1>2, <1>3 DEF Table, Active

LEMMA AddedActive ==
  ASSUME NEW m \in Table, NEW i \in InstrumentIds, NEW b \in BOOLEAN, clock \in Nat
  PROVE /\ Added(m, i, b) \in Table
        /\ Active(Added(m, i, b)) = Active(m) \cup {i}
BY DEF Table, Added, NewEntry, Active, Entry, NoEntry

LEMMA ReleasedActive ==
  ASSUME NEW m \in Table, NEW t
  PROVE /\ ReleaseIdleFrom(m, t) \in Table
        /\ Active(ReleaseIdleFrom(m, t)) \subseteq Active(m)
BY DEF Table, ReleaseIdleFrom, Active, Entry, NoEntry

\* subscribe turns a table within its limit into a table within its limit.
LEMMA SubscribeKeepsQuota ==
  ASSUME NEW m \in Table, NEW dt \in DataTypes, NEW i \in InstrumentIds,
         NEW b \in BOOLEAN, clock \in Nat,
         Cardinality(Active(m)) <= Limit(dt),
         NEW out \in SubscribeOutcomes(m, dt, i, b)
  PROVE out.map \in Table /\ Cardinality(Active(out.map)) <= Limit(dt)
<1>0. /\ IsFiniteSet(Active(m)) /\ Cardinality(Active(m)) \in Nat
      /\ Limit(dt) \in Nat
  BY ActiveFinite, LimitType
<1>1. CASE out \in Refresh(m, i)
  <2>1. m[i].active /\ out.map = Refreshed(m, i) BY <1>1 DEF Refresh
  <2> QED BY <2>1, RefreshedActive
<1>2. CASE out \in Admit(m, dt, i, b)
  <2>1. HasRoom(m, dt) /\ out.map = Added(m, i, b)
    BY <1>2 DEF Admit
  <2>2. Cardinality(Active(m) \cup {i}) =
          IF i \in Active(m) THEN Cardinality(Active(m)) ELSE Cardinality(Active(m)) + 1
    BY <1>0, FS_AddElement
  <2>3. out.map \in Table /\ Active(out.map) = Active(m) \cup {i}
    BY <2>1, AddedActive
  <2>4. Cardinality(Active(m)) < Limit(dt) BY <2>1 DEF HasRoom
  <2> QED BY <1>0, <2>2, <2>3, <2>4
<1>3. CASE out \in Evict(m, dt, i, b)
  <2>1. PICK v \in OldestAdHoc(m) :
          out.map = Added(Without(m, v), i, b)
    BY <1>3 DEF Evict
  <2>2. v \in Active(m) /\ v \in InstrumentIds BY DEF OldestAdHoc, AdHoc, Active
  <2>3. Without(m, v) \in Table /\ Active(Without(m, v)) = Active(m) \ {v}
    BY <2>2, WithoutActive
  <2>4. out.map \in Table /\ Active(out.map) = (Active(m) \ {v}) \cup {i}
    BY <2>1, <2>3, AddedActive
  <2>5. /\ IsFiniteSet(Active(m) \ {v})
        /\ Cardinality(Active(m) \ {v}) = Cardinality(Active(m)) - 1
    BY <1>0, <2>2, FS_RemoveElement
  <2>6. Cardinality((Active(m) \ {v}) \cup {i}) =
          IF i \in Active(m) \ {v} THEN Cardinality(Active(m) \ {v})
          ELSE Cardinality(Active(m) \ {v}) + 1
    BY <2>5, FS_AddElement
  <2> QED BY <1>0, <2>4, <2>5, <2>6
<1>4. CASE out \in Refuse(m, dt, i, b)
  BY <1>4 DEF Refuse
<1> QED BY <1>1, <1>2, <1>3, <1>4 DEF SubscribeOutcomes

-----------------------------------------------------------------------------

\* Every call leaves the tables well formed.
THEOREM TypeStep == TypeOK /\ [Next]_managerVars => TypeOK'
<1> SUFFICES ASSUME TypeOK, [Next]_managerVars PROVE TypeOK'
  OBVIOUS
<1> USE DEF TypeOK
<1>0. subs \in [DataTypes -> Table] BY DEF Table
<1>1. ASSUME NEW i \in InstrumentIds, NEW dt \in DataTypes, NEW b \in BOOLEAN,
             Subscribe(i, dt, b)
      PROVE TypeOK'
  <2>1. PICK out \in SubscribeOutcomes(subs[dt], dt, i, b) :
          subs' = [subs EXCEPT ![dt] = out.map]
    BY <1>1 DEF Subscribe
  <2>2. out.map \in Table
    <3>1. CASE out \in Refresh(subs[dt], i)
      BY <1>0, <3>1, RefreshedActive DEF Refresh
    <3>2. CASE out \in Admit(subs[dt], dt, i, b)
      BY <1>0, <3>2, AddedActive DEF Admit
    <3>3. CASE out \in Evict(subs[dt], dt, i, b)
      <4>1. PICK v \in OldestAdHoc(subs[dt]) :
              out.map = Added(Without(subs[dt], v), i, b)
        BY <3>3 DEF Evict
      <4>2. v \in InstrumentIds BY DEF OldestAdHoc, AdHoc, Active
      <4>3. Without(subs[dt], v) \in Table BY <1>0, <4>2, WithoutActive
      <4>4. clock \in Nat OBVIOUS
      <4> QED BY <4>1, <4>3, <4>4, AddedActive
    <3>4. CASE out \in Refuse(subs[dt], dt, i, b)
      BY <1>0, <3>4 DEF Refuse
    <3> QED BY <2>1, <3>1, <3>2, <3>3, <3>4 DEF SubscribeOutcomes
  <2> QED BY <1>1, <2>1, <2>2 DEF Subscribe, Table
<1>2. ASSUME NEW i \in InstrumentIds, NEW dt \in DataTypes, Unsubscribe(i, dt)
      PROVE TypeOK'
  BY <1>0, <1>2, WithoutActive DEF Unsubscribe, Table
<1>3. ASSUME NEW i \in InstrumentIds, NEW dt \in DataTypes, Touch(i, dt)
      PROVE TypeOK'
  BY <1>0, <1>3, RefreshedActive DEF Touch, Table
<1>4. ASSUME NEW t \in Timeouts, ReleaseIdle(t) PROVE TypeOK'
  <2>1. \A dt \in DataTypes : ReleaseIdleFrom(subs[dt], t) \in Table
    BY <1>0, ReleasedActive
  <2> QED BY <1>4, <2>1 DEF ReleaseIdle, Table
<1>5. CASE Tick BY <1>5 DEF Tick
<1>6. CASE UNCHANGED managerVars BY <1>6 DEF managerVars
<1> QED BY <1>1, <1>2, <1>3, <1>4, <1>5, <1>6 DEF Next

\* The table is always well formed, and no entry outlives its subscription:
\* an entry that is not active is the absent one.
THEOREM TablesWellFormed == Spec => []TypeOK
<1>1. Init => TypeOK BY DEF Init, TypeOK, Entry, NoEntry
<1> QED BY <1>1, TypeStep, PTL DEF Spec

\* Every call on tables within their limits leaves them within their limits.
THEOREM QuotaStep ==
  TypeOK /\ QuotaRespected /\ [Next]_managerVars => QuotaRespected'
<1> SUFFICES ASSUME TypeOK, QuotaRespected, [Next]_managerVars,
                    NEW e \in DataTypes
             PROVE Cardinality(Active(subs'[e])) <= Limit(e)
  BY DEF QuotaRespected, Active
<1>0. /\ subs \in [DataTypes -> Table]
      /\ clock \in Nat
      /\ Cardinality(Active(subs[e])) <= Limit(e)
      /\ Cardinality(Active(subs[e])) \in Nat
  BY ActiveFinite DEF TypeOK, Table, QuotaRespected
<1>1. ASSUME NEW i \in InstrumentIds, NEW dt \in DataTypes, NEW b \in BOOLEAN,
             Subscribe(i, dt, b)
      PROVE Cardinality(Active(subs'[e])) <= Limit(e)
  <2>1. PICK out \in SubscribeOutcomes(subs[dt], dt, i, b) :
          subs' = [subs EXCEPT ![dt] = out.map]
    BY <1>1 DEF Subscribe
  <2>2. CASE e = dt BY <1>0, <2>1, <2>2, SubscribeKeepsQuota
  <2>3. CASE e # dt BY <1>0, <2>1, <2>3
  <2> QED BY <2>2, <2>3
<1>2. ASSUME NEW i \in InstrumentIds, NEW dt \in DataTypes, Unsubscribe(i, dt)
      PROVE Cardinality(Active(subs'[e])) <= Limit(e)
  <2>1. Active(subs'[e]) \subseteq Active(subs[e])
    BY <1>0, <1>2, WithoutActive DEF Unsubscribe
  <2> QED BY <1>0, <2>1, FewerActive, ActiveFinite, LimitType
<1>3. ASSUME NEW i \in InstrumentIds, NEW dt \in DataTypes, Touch(i, dt)
      PROVE Cardinality(Active(subs'[e])) <= Limit(e)
  <2>1. Active(subs'[e]) = Active(subs[e])
    BY <1>0, <1>3, RefreshedActive DEF Touch
  <2> QED BY <1>0, <2>1
<1>4. ASSUME NEW t \in Timeouts, ReleaseIdle(t)
      PROVE Cardinality(Active(subs'[e])) <= Limit(e)
  <2>1. Active(subs'[e]) \subseteq Active(subs[e])
    BY <1>0, <1>4, ReleasedActive DEF ReleaseIdle
  <2> QED BY <1>0, <2>1, FewerActive, ActiveFinite, LimitType
<1>5. CASE Tick \/ UNCHANGED managerVars
  BY <1>0, <1>5 DEF Tick, managerVars
<1> QED BY <1>1, <1>2, <1>3, <1>4, <1>5 DEF Next

\* No interleaving of subscribe, unsubscribe, touch and release_idle calls takes
\* a data type over its Futu OpenD limit.
THEOREM QuotaHolds == Spec => []QuotaRespected
<1>1. Init => QuotaRespected
  <2> SUFFICES ASSUME Init, NEW e \in DataTypes
               PROVE Cardinality(Active(subs[e])) <= Limit(e)
    BY DEF QuotaRespected
  <2>1. Active(subs[e]) = {} BY DEF Init, Active, NoEntry
  <2> QED BY <2>1, FS_EmptySet, LimitType
<1>2. TypeOK /\ TypeOK' /\ QuotaRespected /\ [Next]_managerVars => QuotaRespected'
  BY QuotaStep
<1> QED BY <1>1, <1>2, TablesWellFormed, PTL DEF Spec

-----------------------------------------------------------------------------
(* The data client on top of the manager *)

ClientTypeOK ==
  /\ subs \in [DataTypes -> Table] /\ clock \in Nat
  /\ tracked \subseteq Subscriptions

\* What the manager answers the client, if there is one: the other entries stay, and
\* the one asked for is there if the answer is yes.
LEMMA AnswersAreEntries ==
  ASSUME ClientTypeOK, QuotaRespected, NEW s \in Subscriptions, NEW answer \in Answers(s)
  PROVE  /\ answer.map \in Table
         /\ Cardinality(Active(answer.map)) <= Limit(s.dataType)
         /\ \A i \in InstrumentIds \ {s.instrument} :
              answer.map[i].active = subs[s.dataType][i].active
         /\ managed /\ answer.ok => answer.map[s.instrument].active
         /\ ~answer.ok => answer.map = subs[s.dataType]
<1> DEFINE m == subs[s.dataType]
           i == s.instrument
           dt == s.dataType
<1>1. dt \in DataTypes /\ i \in InstrumentIds
  BY DataClientAssumption
<1>2. m \in Table /\ Cardinality(Active(m)) <= Limit(dt) /\ clock \in Nat
  BY <1>1 DEF ClientTypeOK, QuotaRespected
<1>3. CASE ~managed
  BY <1>2, <1>3 DEF Answers
<1>4. CASE managed
  <2>1. answer \in SubscribeOutcomes(m, dt, i, FALSE)
    BY <1>4 DEF Answers
  <2>2. answer.map \in Table /\ Cardinality(Active(answer.map)) <= Limit(dt)
    <3> HIDE DEF m, dt, i
    <3> QED BY <1>1, <1>2, <2>1, SubscribeKeepsQuota
  <2>3. \/ m[i].active /\ answer = [ok |-> TRUE, map |-> Refreshed(m, i)]
        \/ answer = [ok |-> TRUE, map |-> Added(m, i, FALSE)]
        \/ answer = [ok |-> FALSE, map |-> m]
    BY <2>1 DEF SubscribeOutcomes, Refresh, Admit, Evict, Refuse
  <2>4. CASE m[i].active /\ answer = [ok |-> TRUE, map |-> Refreshed(m, i)]
    <3>1. Active(Refreshed(m, i)) = Active(m)
      <4> HIDE DEF m, dt, i
      <4> QED BY <1>1, <1>2, <2>4, RefreshedActive
    <3>2. answer.ok /\ answer.map = Refreshed(m, i)
      BY <2>4
    <3>3. \A j \in InstrumentIds : Refreshed(m, i)[j].active = m[j].active
      BY <1>1, <1>2, <2>4 DEF Refreshed, Table, Entry, NoEntry
    <3> QED BY <1>1, <2>2, <2>4, <3>2, <3>3
  <2>5. CASE answer = [ok |-> TRUE, map |-> Added(m, i, FALSE)]
    <3>1. /\ \A j \in InstrumentIds \ {i} : Added(m, i, FALSE)[j] = m[j]
          /\ Added(m, i, FALSE)[i].active
      BY <1>1, <1>2 DEF Added, Table, NewEntry
    <3>2. answer.ok /\ answer.map = Added(m, i, FALSE)
      BY <2>5
    <3> QED BY <2>2, <3>1, <3>2
  <2>6. CASE answer = [ok |-> FALSE, map |-> m]
    BY <1>2, <2>6
  <2> QED BY <2>3, <2>4, <2>5, <2>6
<1> QED BY <1>3, <1>4

\* Releasing the quota of a subscription leaves the other entries.
LEMMA ReleasedEntries ==
  ASSUME NEW m \in Table, NEW s \in Subscriptions
  PROVE  /\ Release(m, s) \in Table
         /\ Cardinality(Active(Release(m, s))) <= Cardinality(Active(m))
         /\ \A i \in InstrumentIds \ {s.instrument} : Release(m, s)[i] = m[i]
<1>1. s.instrument \in InstrumentIds
  BY DataClientAssumption
<1>2. Without(m, s.instrument) \in Table /\ Active(Without(m, s.instrument)) \subseteq Active(m)
  BY <1>1, WithoutActive
<1>3. Cardinality(Active(Without(m, s.instrument))) <= Cardinality(Active(m))
  BY <1>2, FewerActive
<1>4. Cardinality(Active(m)) <= Cardinality(Active(m))
  BY ActiveFinite
<1>5. \A i \in InstrumentIds \ {s.instrument} : Without(m, s.instrument)[i] = m[i]
  BY DEF Without, Table
<1> QED BY <1>2, <1>3, <1>4, <1>5 DEF Release

ClientInv == ClientTypeOK /\ QuotaRespected /\ SubscriptionsKept

\* The table of the data type of s becomes n: the entries of other subscriptions stay.
LEMMA EntriesOfOthersStay ==
  ASSUME ClientInv, NEW s \in Subscriptions, NEW n \in Table,
         Cardinality(Active(n)) <= Limit(s.dataType),
         \A i \in InstrumentIds \ {s.instrument} : n[i].active = subs[s.dataType][i].active,
         subs' = [subs EXCEPT ![s.dataType] = n], UNCHANGED <<clock, managed>>
  PROVE  /\ subs' \in [DataTypes -> Table] /\ QuotaRespected'
         /\ managed => \A t \in tracked \ {s} : ~IsBar(t) => subs'[t.dataType][t.instrument].active
         /\ subs'[s.dataType] = n
<1>1. /\ s.dataType \in DataTypes /\ s.instrument \in InstrumentIds
      /\ \A t \in Subscriptions : t.dataType \in DataTypes /\ t.instrument \in InstrumentIds
  BY DataClientAssumption
<1>2. subs \in [DataTypes -> Table] /\ tracked \subseteq Subscriptions
  BY DEF ClientInv, ClientTypeOK
<1>3. subs'[s.dataType] = n /\ \A dt \in DataTypes \ {s.dataType} : subs'[dt] = subs[dt]
  BY <1>1, <1>2
<1>4. subs' \in [DataTypes -> Table]
  BY <1>2
<1>5. QuotaRespected'
  <2>1. \A dt \in DataTypes : Cardinality(Active(subs[dt])) <= Limit(dt)
    BY DEF ClientInv, QuotaRespected
  <2>2. ASSUME NEW dt \in DataTypes PROVE Cardinality(Active(subs'[dt])) <= Limit(dt)
    BY <1>3, <2>1
  <2> QED BY <2>2 DEF QuotaRespected, Active
<1>6. ASSUME managed, NEW t \in tracked \ {s}, ~IsBar(t)
      PROVE  subs'[t.dataType][t.instrument].active
  <2>1. subs[t.dataType][t.instrument].active
    BY <1>6 DEF ClientInv, SubscriptionsKept, QuotaCovers
  <2>2. t.dataType = s.dataType => t.instrument # s.instrument
    BY <1>2, <1>6, DataClientAssumption DEF IsBar
  <2> QED BY <1>1, <1>2, <1>3, <2>1, <2>2
<1> QED BY <1>3, <1>4, <1>5, <1>6

LEMMA ClientStep ==
  ASSUME ClientInv, [DataNext]_dataVars
  PROVE  ClientInv'
<1>1. ClientTypeOK /\ QuotaRespected /\ TrackedAreLive /\ QuotaCovers
  BY DEF ClientInv, SubscriptionsKept
<1>2. CASE UNCHANGED dataVars \/ HandleData
           \/ \E s \in Subscriptions :
                \E rows \in {<<r>> : r \in Row} \cup {<<"malformed", "good">>} : Pushes(s, rows)
  BY <1>2 DEF dataVars, HandleData, Pushes, ClientInv, ClientTypeOK, QuotaRespected,
       SubscriptionsKept, TrackedAreLive, QuotaCovers, Active
<1>3. CASE DataConnect \/ DataDisconnect \/ QuoteSessionDrops
  <2>1. UNCHANGED <<subs, clock, tracked, managed>>
    BY <1>3 DEF DataConnect, DataDisconnect, QuoteSessionDrops
  <2>2. TrackedAreLive'
    <3>1. CASE DataConnect
      BY <3>1 DEF DataConnect, Restored, TrackedAreLive
    <3>2. CASE DataDisconnect \/ QuoteSessionDrops
      BY <3>2 DEF DataDisconnect, QuoteSessionDrops, TrackedAreLive
    <3> QED BY <1>3, <3>1, <3>2
  <2> QED BY <1>1, <2>1, <2>2 DEF ClientInv, ClientTypeOK, QuotaRespected, SubscriptionsKept,
            QuotaCovers, Active
<1>4. ASSUME NEW s \in Subscriptions, SubscribeTaken(s) PROVE ClientInv'
  <2>1. PICK answer \in Answers(s) : answer.ok /\ subs' = [subs EXCEPT ![s.dataType] = answer.map]
    BY <1>4 DEF SubscribeTaken
  <2>2. /\ answer.map \in Table /\ Cardinality(Active(answer.map)) <= Limit(s.dataType)
        /\ \A i \in InstrumentIds \ {s.instrument} :
             answer.map[i].active = subs[s.dataType][i].active
        /\ managed => answer.map[s.instrument].active
    BY <1>1, <2>1, AnswersAreEntries
  <2>3. /\ UNCHANGED <<clock, managed, quoteCtx, pushing>>
        /\ tracked' = tracked \cup {s} /\ atOpenD' = atOpenD \cup {s}
        /\ unrestored' = unrestored \ {s}
    BY <1>4 DEF SubscribeTaken
  <2>4. /\ subs' \in [DataTypes -> Table] /\ QuotaRespected'
        /\ managed => \A t \in tracked \ {s} : ~IsBar(t) => subs'[t.dataType][t.instrument].active
        /\ subs'[s.dataType] = answer.map
    BY <2>1, <2>2, <2>3, EntriesOfOthersStay
  <2>5. QuotaCovers'
    BY <2>2, <2>3, <2>4 DEF QuotaCovers, IsBar
  <2>6. TrackedAreLive'
    BY <1>1, <2>3 DEF TrackedAreLive
  <2>7. ClientTypeOK'
    BY <1>1, <2>3, <2>4 DEF ClientTypeOK, Table
  <2> QED BY <2>4, <2>5, <2>6, <2>7 DEF ClientInv, SubscriptionsKept
<1>5. ASSUME NEW s \in Subscriptions, SubscribeFailed(s) PROVE ClientInv'
  <2>1. PICK answer \in Answers(s) :
          subs' = [subs EXCEPT ![s.dataType] =
                     IF answer.ok THEN Release(answer.map, s) ELSE answer.map]
    BY <1>5 DEF SubscribeFailed
  <2> DEFINE n == IF answer.ok THEN Release(answer.map, s) ELSE answer.map
  <2>2. /\ answer.map \in Table /\ Cardinality(Active(answer.map)) <= Limit(s.dataType)
        /\ \A i \in InstrumentIds \ {s.instrument} :
             answer.map[i].active = subs[s.dataType][i].active
    BY <1>1, AnswersAreEntries
  <2>3. /\ n \in Table
        /\ \A i \in InstrumentIds \ {s.instrument} : n[i].active = subs[s.dataType][i].active
    BY <2>2, ReleasedEntries
  <2>4. Cardinality(Active(n)) <= Limit(s.dataType)
    <3>1. /\ Cardinality(Active(answer.map)) \in Nat
          /\ Cardinality(Active(Release(answer.map, s))) \in Nat
          /\ Cardinality(Active(Release(answer.map, s))) <= Cardinality(Active(answer.map))
      BY <2>2, ActiveFinite, ReleasedEntries
    <3>2. Limit(s.dataType) \in Nat
      BY LimitType, DataClientAssumption
    <3> QED BY <2>2, <3>1, <3>2
  <2>5. /\ UNCHANGED <<clock, managed, quoteCtx, pushing, tracked, atOpenD, unrestored>>
        /\ s \notin tracked
    BY <1>5 DEF SubscribeFailed
  <2>6. /\ subs' \in [DataTypes -> Table] /\ QuotaRespected'
        /\ managed => \A t \in tracked \ {s} : ~IsBar(t) => subs'[t.dataType][t.instrument].active
    <3> HIDE DEF n
    <3>1. subs' = [subs EXCEPT ![s.dataType] = n]
      BY <2>1 DEF n
    <3> QED BY <2>3, <2>4, <2>5, <3>1, EntriesOfOthersStay
  <2>7. QuotaCovers' /\ TrackedAreLive' /\ ClientTypeOK'
    BY <1>1, <2>5, <2>6 DEF QuotaCovers, TrackedAreLive, ClientTypeOK, Table, IsBar
  <2> QED BY <2>6, <2>7 DEF ClientInv, SubscriptionsKept
<1>6. ASSUME NEW s \in Subscriptions, UnsubscribeSub(s) PROVE ClientInv'
  <2> DEFINE n == Release(subs[s.dataType], s)
  <2>1. /\ UNCHANGED <<clock, managed, quoteCtx, pushing>>
        /\ tracked' = tracked \ {s} /\ unrestored' = unrestored \ {s}
        /\ atOpenD \ {s} \subseteq atOpenD'
        /\ subs' = [subs EXCEPT ![s.dataType] = n]
    BY <1>6 DEF UnsubscribeSub
  <2>2. s.dataType \in DataTypes /\ subs[s.dataType] \in Table
    BY <1>1, DataClientAssumption DEF ClientTypeOK
  <2>3. /\ n \in Table
        /\ \A i \in InstrumentIds \ {s.instrument} : n[i].active = subs[s.dataType][i].active
        /\ Cardinality(Active(n)) <= Cardinality(Active(subs[s.dataType]))
    BY <2>2, ReleasedEntries
  <2>4. Cardinality(Active(n)) <= Limit(s.dataType)
    <3>1. Cardinality(Active(n)) \in Nat /\ Cardinality(Active(subs[s.dataType])) \in Nat
          /\ Limit(s.dataType) \in Nat
      BY <2>2, ActiveFinite, LimitType
    <3>2. Cardinality(Active(subs[s.dataType])) <= Limit(s.dataType)
      BY <1>1, <2>2 DEF QuotaRespected
    <3> HIDE DEF n
    <3> QED BY <2>3, <3>1, <3>2
  <2>5. /\ subs' \in [DataTypes -> Table] /\ QuotaRespected'
        /\ managed => \A t \in tracked \ {s} : ~IsBar(t) => subs'[t.dataType][t.instrument].active
    <3> HIDE DEF n
    <3> QED BY <2>1, <2>3, <2>4, EntriesOfOthersStay
  <2>6. QuotaCovers' /\ TrackedAreLive' /\ ClientTypeOK'
    BY <1>1, <2>1, <2>5 DEF QuotaCovers, TrackedAreLive, ClientTypeOK, Table, IsBar
  <2> QED BY <2>5, <2>6 DEF ClientInv, SubscriptionsKept
<1> QED BY <1>2, <1>3, <1>4, <1>5, <1>6 DEF DataNext

THEOREM ClientInvariant == DataSpec => []ClientInv
<1>1. DataInit => ClientInv
  <2>1. ASSUME Init PROVE QuotaRespected
    <3>1. \A dt \in DataTypes : Active(subs[dt]) = {}
      BY <2>1 DEF Init, Active, NoEntry
    <3>2. \A dt \in DataTypes : Limit(dt) \in Nat
      BY LimitType
    <3> QED BY <3>1, <3>2, FS_EmptySet DEF QuotaRespected
  <2> QED BY <2>1 DEF DataInit, Init, ClientInv, ClientTypeOK, SubscriptionsKept, TrackedAreLive,
            QuotaCovers, Table, Entry
<1>2. ClientInv /\ [DataNext]_dataVars => ClientInv'
  BY ClientStep
<1> QED BY <1>1, <1>2, PTL DEF DataSpec

\* For any subscriptions and instruments, over refusals, lost sessions and reconnects:
\* while the client (data.py) has a session everything it tracks stands at OpenD, but
\* for what OpenD refused to restore; and, bars apart, has its quota entry.
THEOREM SubscriptionsHold == DataSpec => []SubscriptionsKept
<1>1. ClientInv => SubscriptionsKept
  BY DEF ClientInv
<1> QED BY <1>1, ClientInvariant, PTL
=============================================================================
