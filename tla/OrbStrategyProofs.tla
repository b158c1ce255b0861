-------------------------- MODULE OrbStrategyProofs --------------------------
(* Type correctness of OrbStrategy, the rejection breaker's latch and what can    *)
(* exceed the limit of entries, for every instance: any number of order groups,   *)
(* any entry mode and venue, any limits.                                          *)
EXTENDS OrbStrategy, FiniteSetTheorems, TLAPS

Group == [Roles -> Order]
Book == [Groups -> Group]

LEMMA IdleType == Idle \in Order /\ NoOrders \in Group
BY DEF Idle, NoOrders, Order, Group, Sides

\* A new order for a side and a quantity is an order.
LEMMA SentType == \A side \in Sides, qty \in Nat : Sent(side, qty) \in Order
BY DEF Sent, Order

\* A position has a side that closes it, and a size.
LEMMA ExitType == \A n \in Int : Abs(n) \in Nat /\ ExitSide(n) \in Sides
BY DEF Abs, ExitSide, Sides

\* close_all_positions leaves a well-formed order book.
LEMMA CloseAllType ==
  ASSUME NEW os \in Book, NEW g \in Groups, net \in Int
  PROVE  CloseAll(os, g) \in Book
<1>1. CASE net = 0
  BY <1>1 DEF CloseAll
<1>2. CASE net # 0
  <2>1. Sent(ExitSide(net), Abs(net)) \in Order
    BY <1>2, ExitType, SentType
  <2> QED
    BY <1>2, <2>1 DEF CloseAll, Book, Group, Roles
<1> QED
  BY <1>1, <1>2

\* cancel_all_orders leaves a well-formed order book.
LEMMA CancelAllType ==
  ASSUME NEW os \in Book
  PROVE  CancelAll(os) \in Book
<1>1. \A h \in Groups, r \in Roles :
        [os[h][r] EXCEPT !.cancel = @ \/ os[h][r].status \in {"held", "open"}] \in Order
  <2> TAKE h \in Groups, r \in Roles
  <2>1. os[h][r] \in Order
    BY DEF Book, Group
  <2> QED
    BY <2>1 DEF Order
<1> QED
  BY <1>1 DEF CancelAll, Book, Group

\* A fill shrinks or ends an order.
LEMMA ShrinkType ==
  ASSUME NEW o \in Order, NEW q \in Nat
  PROVE  Shrink(o, q) \in Order
BY IdleType DEF Shrink, Order

\* What a fill does to a group, and the protective orders it may add.
LEMMA VenueFillType ==
  ASSUME orders \in Book, NEW g \in Groups, NEW r \in Roles, NEW q \in Nat
  PROVE  VenueFill(g, r, q) \in Group
<1>1. \A s \in Roles : /\ orders[g][s] \in Order
                       /\ Shrink(orders[g][s], q) \in Order
                       /\ Release(orders[g][s]) \in Order
  BY ShrinkType DEF Book, Group, Release, Order
<1> QED
  BY <1>1 DEF VenueFill, Group

LEMMA ProtectType ==
  ASSUME NEW group \in Group, NEW pos \in Int
  PROVE  Protect(group, pos) \in Group
<1>1. CASE pos = 0
  BY <1>1 DEF Protect
<1>2. CASE pos # 0
  <2>1. Sent(ExitSide(pos), Abs(pos)) \in Order
    BY <1>2, ExitType, SentType
  <2> QED
    BY <1>2, <2>1 DEF Protect, Group, Roles
<1> QED
  BY <1>1, <1>2
-----------------------------------------------------------------------------
(* Type correctness *)

\* The updates the handlers make to the strategy's fields keep their types.
LEMMA MemoryUpdates ==
  ASSUME NEW m \in Memory
  PROVE  /\ \A d \in Sides \cup {0}, c \in Nat :
              [m EXCEPT !.direction = d, !.count = c] \in Memory
         /\ [m EXCEPT !.barsSeen = @ + 1] \in Memory
         /\ [m EXCEPT !.rejections = 0] \in Memory
         /\ \A n \in Nat : [m EXCEPT !.rejections = 0, !.trades = n] \in Memory
         /\ [m EXCEPT !.cooling = FALSE] \in Memory
         /\ \A n \in Nat, b \in BOOLEAN :
              [m EXCEPT !.rejections = n, !.disabled = b] \in Memory
<1>1. \A d \in Sides \cup {0}, c \in Nat :
        [m EXCEPT !.direction = d, !.count = c] \in Memory
  BY DEF Memory
<1>2. [m EXCEPT !.barsSeen = @ + 1] \in Memory
  BY DEF Memory
<1>3. [m EXCEPT !.rejections = 0] \in Memory
  BY DEF Memory
<1>4. \A n \in Nat : [m EXCEPT !.rejections = 0, !.trades = n] \in Memory
  BY DEF Memory
<1>5. [m EXCEPT !.cooling = FALSE] \in Memory
  BY DEF Memory
<1>6. \A n \in Nat, b \in BOOLEAN :
        [m EXCEPT !.rejections = n, !.disabled = b] \in Memory
  BY DEF Memory
<1> QED
  BY <1>1, <1>2, <1>3, <1>4, <1>5, <1>6

LEMMA InitType == Init => TypeOK
BY OrbAssumption, IdleType
   DEF Init, TypeOK, FreshMemory, Memory, Group, PreOpen, PastHardStop

\* An entry, or a confirmation that may end in one, keeps the types.
LEMMA ConfirmType ==
  ASSUME TypeOK, NEW d \in Sides, NEW c \in Nat, Confirm(d, c)
  PROVE  mem' \in Memory /\ pending' \subseteq Groups
         /\ entry' \in Groups \cup {NoGroup} /\ orders' \in Book
<1>1. orders \in Book
  BY DEF TypeOK, Book, Group
<1>2. mem' \in Memory
  <2>1. \E e \in Sides \cup {0}, n \in Nat :
          mem' = [mem EXCEPT !.direction = e, !.count = n]
    BY DEF Confirm
  <2>2. PICK e \in Sides \cup {0}, n \in Nat :
          mem' = [mem EXCEPT !.direction = e, !.count = n]
    BY <2>1
  <2>3. mem \in Memory
    BY DEF TypeOK
  <2> QED
    BY <2>2, <2>3, MemoryUpdates
<1>3. CASE UNCHANGED <<orders, pending, entry>>
  BY <1>1, <1>2, <1>3 DEF TypeOK
<1>4. CASE ~UNCHANGED <<orders, pending, entry>>
  <2>1. PICK g \in Groups :
          /\ pending' = pending \cup {g}
          /\ \/ /\ orders' = [orders EXCEPT ![g]["entry"] = Sent(d, TradeSize)]
                /\ entry' = g
             \/ /\ orders' = [orders EXCEPT ![g] = Bracket(d)]
                /\ UNCHANGED entry
    BY <1>4 DEF Confirm, Enter, TrackEntry
  <2>2. Sent(d, TradeSize) \in Order /\ Sent(ExitSide(d), TradeSize) \in Order
    <3>1. d \in Int
      BY DEF Sides
    <3> QED
      BY <3>1, OrbAssumption, ExitType, SentType
  <2>3. Bracket(d) \in Group
    BY <2>2, IdleType DEF Bracket, Legs, Group, Roles
  <2>4. orders' \in Book
    BY <1>1, <2>1, <2>2, <2>3 DEF Book, Group, Roles
  <2> QED
    BY <1>2, <2>1, <2>4 DEF TypeOK
<1> QED
  BY <1>3, <1>4

\* A report from the venue, whether or not the strategy gets it, keeps the types.
LEMMA ReportType ==
  ASSUME TypeOK, NEW g \in Groups, NEW r \in Roles, Report(g, r)
  PROVE  TypeOK'
<1>0. orders \in Book /\ orders[g][r] \in Order
  BY DEF TypeOK, Book, Group
<1>1. CASE Accept(g, r)
  <2>1. mem' \in Memory
    <3>1. mem \in Memory /\ mem.trades \in Nat /\ mem.trades + 1 \in Nat
      BY DEF TypeOK, Memory
    <3>2. mem' = mem \/ \E n \in Nat :
            mem' = [mem EXCEPT !.rejections = 0, !.trades = n]
      BY <1>1, <3>1 DEF Accept, OnOrderAccepted
    <3> QED
      BY <3>1, <3>2, MemoryUpdates
  <2>2. orders' \in Book
    BY <1>0, <1>1 DEF Accept, Book, Group, Order
  <2> QED
    BY <1>1, <2>1, <2>2 DEF Accept, TypeOK, Book, Group, world
<1>2. orders[g][r].status # "idle" => EndOrder(g, r) \in Book
  BY <1>0, IdleType DEF EndOrder, Book, Group, Roles
<1>3. CASE Reject(g, r)
  <2>1. mem' \in Memory
    <3>1. Least(mem.rejections + 1, MaxConsecutiveRejections) \in Nat
      BY OrbAssumption DEF TypeOK, Memory, Least
    <3>2. CASE mem' = mem
      BY <3>2 DEF TypeOK
    <3>3. CASE mem' # mem
      <4>1. PICK b \in BOOLEAN : mem' = [mem EXCEPT
              !.rejections = Least(mem.rejections + 1, MaxConsecutiveRejections),
              !.disabled = b]
        BY <1>3, <3>3 DEF Reject, OnOrderRejected, TypeOK, Memory
      <4>2. mem \in Memory
        BY DEF TypeOK
      <4> QED
        BY <3>1, <4>1, <4>2, MemoryUpdates
    <3> QED
      BY <3>2, <3>3
  <2> QED
    BY <1>2, <1>3, <2>1 DEF Reject, Forget, TypeOK, Book, Group, world
<1>4. CASE Cancel(g, r)
  BY <1>2, <1>4 DEF Cancel, Forget, TypeOK, Book, Group, world
<1>5. CASE \E q \in 1..orders[g][r].leaves : Fill(g, r, q)
  <2>1. PICK q \in 1..orders[g][r].leaves, loses \in BOOLEAN :
          Fill(g, r, q) /\ OnOrderFilled(g, r, q, loses)
    BY <1>5 DEF Fill
  <2>2. q \in Nat /\ orders[g][r].side \in Int
    BY <1>0 DEF Order, Sides
  <2>3. mem.position + orders[g][r].side * q \in Int
    BY <2>2 DEF TypeOK, Memory
  <2>4. mem' \in Memory
    <3>1. Least(mem.loss + 1, LossLimit) \in Nat
      BY OrbAssumption DEF Least, TypeOK, Memory
    <3>2. Cooldown \in BOOLEAN
      BY OrbAssumption
    <3>3. CASE Delivered
      BY <2>1, <2>3, <3>1, <3>2, <3>3 DEF OnOrderFilled, TypeOK, Memory
    <3>4. CASE ~Delivered
      BY <2>1, <3>4 DEF OnOrderFilled, TypeOK
    <3> QED
      BY <3>3, <3>4
  <2>5. VenueFill(g, r, q) \in Group
    BY <1>0, <2>2, VenueFillType
  <2>6. Protect(VenueFill(g, r, q), mem.position + orders[g][r].side * q) \in Group
    BY <2>3, <2>5, ProtectType
  <2>7. orders' \in Book /\ entry' \in Groups \cup {NoGroup}
    BY <1>0, <2>1, <2>5, <2>6 DEF OnOrderFilled, TypeOK, Book
  <2>8. net' \in Int
    BY <2>1, <2>2 DEF Fill, TypeOK
  <2> QED
    BY <2>1, <2>4, <2>7, <2>8 DEF Fill, TypeOK, world, Book, Group
<1> QED
  BY <1>1, <1>3, <1>4, <1>5 DEF Report
\* Every step keeps the types.
LEMMA NextType == TypeOK /\ [Next]_vars => TypeOK'
<1> SUFFICES ASSUME TypeOK, [Next]_vars
             PROVE  TypeOK'
  OBVIOUS
<1>1. mem \in Memory /\ orders \in Book /\ NoOrders \in Group
  BY IdleType DEF TypeOK, Book, Group
<1>2. CASE UNCHANGED vars
  BY <1>2 DEF vars, TypeOK
<1>3. CASE HardStopBar
  <2>1. PICK g \in Groups : orders' = CancelAll(CloseAll(orders, g))
    BY <1>3 DEF HardStopBar
  <2>2. orders' \in Book
    BY <1>1, <2>1, CloseAllType, CancelAllType DEF TypeOK
  <2> QED
    BY <1>3, <2>2 DEF HardStopBar, TypeOK, strategy, world, Book, Group
<1>4. CASE RangeBar
  <2>1. mem' \in Memory
    BY <1>1, <1>4, MemoryUpdates DEF RangeBar
  <2>2. orders' \in Book /\ life' \in {"running", "paused", "stopped"}
    <3>1. CASE UNCHANGED <<life, orders>>
      BY <1>1, <3>1 DEF TypeOK
    <3>2. CASE /\ \E g \in Groups : orders' = CloseAll(CancelAll(orders), g)
               /\ life' = "stopped"
      BY <1>1, <3>2, CloseAllType, CancelAllType DEF TypeOK
    <3> QED
      BY <1>4, <3>1, <3>2 DEF RangeBar
  <2> QED
    BY <1>4, <2>1, <2>2 DEF RangeBar, TypeOK, world, Book, Group
<1>5. CASE BreakoutBar
  <2>1. PICK d \in Sides : Confirm(d, 1)
    BY <1>5 DEF BreakoutBar
  <2> QED
    BY <1>5, <2>1, ConfirmType DEF BreakoutBar, TypeOK, world, Book, Group
<1>6. CASE ConfirmationBar
  <2>1. CASE Confirm(mem.direction, mem.count + 1)
    <3>1. mem.direction \in Sides /\ mem.count + 1 \in Nat
      BY <1>1, <1>6 DEF ConfirmationBar, Memory
    <3> QED
      BY <1>6, <2>1, <3>1, ConfirmType DEF ConfirmationBar, TypeOK, world, Book, Group
  <2>2. CASE /\ mem' = [mem EXCEPT !.direction = 0, !.count = 0]
             /\ UNCHANGED <<orders, pending, entry>>
    <3>1. mem' \in Memory
      BY <1>1, <2>2, MemoryUpdates
    <3> QED
      BY <1>6, <2>2, <3>1 DEF ConfirmationBar, TypeOK, world
  <2> QED
    BY <1>6, <2>1, <2>2 DEF ConfirmationBar
<1>7. CASE \E g \in Groups, r \in Roles : Report(g, r)
  BY <1>7, ReportType
<1>8. CASE \E g \in Groups : DropReduceOnly(g)
  <2>1. PICK g \in Groups : DropReduceOnly(g)
    BY <1>8
  <2>2. orders' \in Book
    BY <1>1, <2>1, IdleType DEF DropReduceOnly, Book, Group, Roles
  <2> QED
    BY <2>1, <2>2 DEF DropReduceOnly, TypeOK, strategy, world, Book, Group
<1>9. CASE Tick
  BY <1>9 DEF Tick, TypeOK, venue, PreOpen, PastHardStop
<1>10. CASE NextDay
  BY <1>1, <1>10 DEF NextDay, TypeOK, Group, PreOpen, PastHardStop
<1>11. CASE CooldownElapses
  <2>1. mem' \in Memory
    BY <1>1, <1>11, MemoryUpdates DEF CooldownElapses
  <2> QED
    BY <1>11, <2>1 DEF CooldownElapses, TypeOK, venue, world
<1>12. FreshMemory \in Memory
  BY DEF FreshMemory, Memory
<1>13. CASE OnStop
  <2>1. orders' \in Book
    BY <1>1, <1>13, CloseAllType, CancelAllType DEF OnStop, TypeOK
  <2> QED
    BY <1>13, <2>1 DEF OnStop, TypeOK, Book, Group
<1>14. CASE OnReset
  BY <1>12, <1>14 DEF OnReset, TypeOK, venue, world
<1>15. CASE OnStart
  BY <1>15 DEF OnStart, TypeOK, venue, world
<1>16. CASE OnSave
  BY <1>16 DEF OnSave, TypeOK, venue, world
<1>17. CASE Restart
  BY <1>12, <1>17 DEF Restart, OnLoad, TypeOK, venue
<1> QED
  BY <1>2, <1>3, <1>4, <1>5, <1>6, <1>7, <1>8, <1>9, <1>10, <1>11,
     <1>13, <1>14, <1>15, <1>16, <1>17
     DEF Next, OnBar, Lifecycle

\* The strategy's fields, its lifecycle, the order book and the clock stay
\* well-formed whatever the bars, the reports, the clock and the operator do.
THEOREM TypeCorrect == Spec => []TypeOK
<1>1. Init => TypeOK
  BY InitType
<1>2. TypeOK /\ [Next]_vars => TypeOK'
  BY NextType
<1> QED
  BY <1>1, <1>2, PTL DEF Spec
-----------------------------------------------------------------------------
(* The rejection breaker *)

\* A step leaves the strategy's streak and latch alone, or changes them in a way
\* that keeps "a full streak has tripped the breaker".
LEMMA LatchStep == TypeOK /\ Tripped(mem) /\ (saved # NoState => Tripped(saved))
                     /\ [Next]_vars => Tripped(mem')
<1> SUFFICES ASSUME TypeOK, Tripped(mem), saved # NoState => Tripped(saved), [Next]_vars
             PROVE  Tripped(mem')
  OBVIOUS
<1>1. mem \in Memory
  BY DEF TypeOK
<1>2. CASE mem'.rejections = mem.rejections /\ mem'.disabled = mem.disabled
  BY <1>2 DEF Tripped
<1>3. CASE mem' = FreshMemory
  BY <1>3, OrbAssumption DEF Tripped, FreshMemory
<1>4. ASSUME NEW d \in Sides, NEW c \in Nat, Confirm(d, c)
      PROVE  Tripped(mem')
  <2>1. PICK e \in Sides \cup {0}, n \in Nat :
          mem' = [mem EXCEPT !.direction = e, !.count = n]
    BY <1>4 DEF Confirm
  <2> QED
    BY <1>1, <1>2, <2>1 DEF Memory
<1>5. CASE HardStopBar \/ Tick \/ NextDay \/ OnStop \/ OnStart \/ OnSave
           \/ UNCHANGED vars \/ \E g \in Groups : DropReduceOnly(g)
  BY <1>2, <1>5 DEF HardStopBar, Tick, NextDay, OnStop, OnStart, OnSave, vars,
       DropReduceOnly, strategy
<1>6. CASE RangeBar \/ CooldownElapses
  BY <1>1, <1>2, <1>6 DEF RangeBar, CooldownElapses, Memory
<1>7. CASE BreakoutBar
  BY <1>4, <1>7 DEF BreakoutBar
<1>8. CASE ConfirmationBar
  <2>1. mem.direction # 0 => mem.direction \in Sides /\ mem.count + 1 \in Nat
    BY <1>1 DEF Memory
  <2>2. CASE Confirm(mem.direction, mem.count + 1)
    BY <1>4, <1>8, <2>1, <2>2 DEF ConfirmationBar
  <2>3. CASE mem' = [mem EXCEPT !.direction = 0, !.count = 0]
    BY <1>1, <1>2, <2>3 DEF Memory
  <2> QED
    BY <1>8, <2>2, <2>3 DEF ConfirmationBar
<1>9. ASSUME NEW g \in Groups, NEW r \in Roles, Report(g, r)
      PROVE  Tripped(mem')
  <2>1. CASE Accept(g, r)
    <3>1. mem' = mem \/ mem'.rejections = 0
      BY <1>1, <2>1 DEF Accept, OnOrderAccepted, Memory
    <3> QED
      BY <1>2, <3>1, OrbAssumption DEF Tripped
  <2>2. CASE Reject(g, r)
    <3>1. CASE Delivered /\ MaxConsecutiveRejections > 0
      <4>1. mem'.rejections = Least(mem.rejections + 1, MaxConsecutiveRejections)
        BY <1>1, <2>2, <3>1 DEF Reject, OnOrderRejected, Memory
      <4>2. mem'.disabled = (\/ mem.disabled
                             \/ mem.rejections + 1 >= MaxConsecutiveRejections)
        BY <1>1, <2>2, <3>1 DEF Reject, OnOrderRejected, Memory
      <4>3. mem.rejections \in Nat
        BY <1>1 DEF Memory
      <4>4. mem'.rejections >= MaxConsecutiveRejections
              => mem.rejections + 1 >= MaxConsecutiveRejections
        BY <4>1, <4>3, OrbAssumption DEF Least
      <4> QED
        BY <4>2, <4>4 DEF Tripped
    <3>2. CASE ~(Delivered /\ MaxConsecutiveRejections > 0)
      BY <1>2, <2>2, <3>2 DEF Reject, OnOrderRejected
    <3> QED
      BY <3>1, <3>2
  <2>3. CASE Cancel(g, r)
    BY <1>2, <2>3 DEF Cancel
  <2>4. CASE \E q \in 1..orders[g][r].leaves : Fill(g, r, q)
    <3>1. PICK q \in 1..orders[g][r].leaves, loses \in BOOLEAN :
            OnOrderFilled(g, r, q, loses)
      BY <2>4 DEF Fill
    <3>2. mem'.rejections = mem.rejections /\ mem'.disabled = mem.disabled
      BY <1>1, <3>1 DEF OnOrderFilled, Memory
    <3> QED
      BY <1>2, <3>2
  <2> QED
    BY <1>9, <2>1, <2>2, <2>3, <2>4 DEF Report
<1>10. CASE OnReset
  BY <1>3, <1>10 DEF OnReset
<1>11. CASE Restart
  <2>1. mem' = FreshMemory \/ (saved # NoState /\ mem' = saved)
    BY <1>11 DEF Restart, OnLoad
  <2> QED
    BY <1>3, <2>1
<1> QED
  BY <1>5, <1>6, <1>7, <1>8, <1>9, <1>10, <1>11 DEF Next, OnBar, Lifecycle

\* What is saved was in memory: only OnSave writes it.
LEMMA SavedStep == [Next]_vars => saved' = saved \/ saved' = mem
BY DEF Next, OnBar, Lifecycle, HardStopBar, RangeBar, BreakoutBar, ConfirmationBar,
       Report, Accept, Reject, Cancel, Fill, DropReduceOnly, Tick, NextDay,
       CooldownElapses, OnStop, OnReset, OnStart, OnSave, Restart, vars, strategy

\* In every reachable state, and in every state a later boot can load, a full
\* streak of rejections has the breaker tripped.
THEOREM LatchHolds == Spec => []BreakerLatched
<1>1. Init => BreakerLatched
  BY OrbAssumption DEF Init, BreakerLatched, Tripped, FreshMemory
<1>2. TypeOK /\ BreakerLatched /\ [Next]_vars => BreakerLatched'
  <2> SUFFICES ASSUME TypeOK, BreakerLatched, [Next]_vars
               PROVE  BreakerLatched'
    OBVIOUS
  <2>1. Tripped(mem')
    BY LatchStep DEF BreakerLatched
  <2>2. saved' # NoState => Tripped(saved')
    BY SavedStep DEF BreakerLatched
  <2> QED
    BY <2>1, <2>2 DEF BreakerLatched, Tripped
<1> QED
  BY <1>1, <1>2, TypeCorrect, PTL DEF Spec
-----------------------------------------------------------------------------
(* What exceeds the limit of entries was under way *)

\* Entries counted, on their way and being confirmed, of a memory and pending ids.
Begun(m, ids) == m.trades + (Cardinality(ids) + (IF m.direction = 0 THEN 0 ELSE 1))

LEMMA PendingCounts ==
  ASSUME NEW ids \in SUBSET Groups
  PROVE  /\ Cardinality(ids) \in Nat
         /\ \A g \in Groups :
              /\ ids \ {g} \in SUBSET Groups /\ ids \cup {g} \in SUBSET Groups
              /\ Cardinality(ids \ {g}) \in Nat /\ Cardinality(ids \cup {g}) \in Nat
              /\ Cardinality(ids \ {g}) <= Cardinality(ids)
              /\ g \in ids => Cardinality(ids \ {g}) = Cardinality(ids) - 1
              /\ Cardinality(ids \cup {g}) <= Cardinality(ids) + 1
<1>1. IsFiniteSet(ids)
  BY OrbAssumption, FS_Subset
<1>2. Cardinality(ids) \in Nat
  BY <1>1, FS_CardinalityType
<1>3. ASSUME NEW g \in Groups
      PROVE  /\ ids \ {g} \in SUBSET Groups /\ ids \cup {g} \in SUBSET Groups
             /\ Cardinality(ids \ {g}) = IF g \in ids THEN Cardinality(ids) - 1
                                                       ELSE Cardinality(ids)
             /\ Cardinality(ids \cup {g}) = IF g \in ids THEN Cardinality(ids)
                                                          ELSE Cardinality(ids) + 1
             /\ IsFiniteSet(ids \ {g}) /\ IsFiniteSet(ids \cup {g})
  BY <1>1, FS_AddElement, FS_RemoveElement
<1>4. ASSUME NEW g \in Groups
      PROVE  Cardinality(ids \ {g}) \in Nat /\ Cardinality(ids \cup {g}) \in Nat
  BY <1>3, FS_CardinalityType
<1>5. ASSUME NEW g \in Groups
      PROVE  /\ Cardinality(ids \ {g}) <= Cardinality(ids)
             /\ g \in ids => Cardinality(ids \ {g}) = Cardinality(ids) - 1
             /\ Cardinality(ids \cup {g}) <= Cardinality(ids) + 1
  BY <1>2, <1>3
<1> QED BY <1>2, <1>3, <1>4, <1>5

\* Forgetting the id of an entry begins nothing.
LEMMA ForgettingBeginsNothing ==
  ASSUME NEW m \in Memory, NEW n \in Memory, NEW ids \in SUBSET Groups,
         n.trades = m.trades, n.direction = m.direction
  PROVE  /\ Begun(n, ids) <= Begun(m, ids)
         /\ \A g \in Groups : Begun(n, ids \ {g}) <= Begun(m, ids)
         /\ Begun(n, {}) <= Begun(m, ids)
<1>1. m.trades \in Nat
  BY DEF Memory
<1>2. Cardinality({}) = 0
  BY FS_EmptySet
<1>3. Cardinality(ids) \in Nat
  BY PendingCounts
<1>4. \A g \in Groups : Cardinality(ids \ {g}) \in Nat /\ Cardinality(ids \ {g}) <= Cardinality(ids)
  BY PendingCounts
<1>5. Begun(n, ids) <= Begun(m, ids)
  BY <1>1, <1>3 DEF Begun
<1>6. \A g \in Groups : Begun(n, ids \ {g}) <= Begun(m, ids)
  BY <1>1, <1>3, <1>4 DEF Begun
<1>7. Begun(n, {}) <= Begun(m, ids)
  BY <1>1, <1>2, <1>3 DEF Begun
<1> QED BY <1>5, <1>6, <1>7

\* A bar that ends a confirmation begins the entry the confirmation was for.
LEMMA ConfirmedWasBegun ==
  ASSUME TypeOK, mem' \in Memory, mem.direction # 0, NEW c \in Nat,
         Confirm(mem.direction, c)
  PROVE  Begun(mem', pending') <= Begun(mem, pending)
<1>1. mem \in Memory /\ pending \in SUBSET Groups /\ mem.trades \in Nat
  BY DEF TypeOK, Memory
<1>2. CASE c >= ConfirmationBars
  <2>1. mem' = [mem EXCEPT !.direction = 0, !.count = 0]
    BY <1>2 DEF Confirm
  <2>2. mem'.trades = mem.trades /\ mem'.direction = 0
    BY <1>1, <2>1 DEF Memory
  <2>3. pending' = pending \/ \E g \in Groups : pending' = pending \cup {g}
    BY <1>2 DEF Confirm, Enter, TrackEntry
  <2> QED BY <1>1, <2>2, <2>3, PendingCounts DEF Begun
<1>3. CASE ~(c >= ConfirmationBars)
  <2>1. mem' = [mem EXCEPT !.direction = mem.direction, !.count = c] /\ pending' = pending
    BY <1>3 DEF Confirm
  <2>2. mem'.trades = mem.trades /\ mem'.direction = mem.direction
    BY <1>1, <2>1 DEF Memory
  <2> QED BY <1>1, <2>1, <2>2, ForgettingBeginsNothing
<1> QED BY <1>2, <1>3

\* An acceptance counts an entry that was on its way, once.
LEMMA AcceptedWasBegun ==
  ASSUME TypeOK, mem' \in Memory, NEW g \in Groups, NEW r \in Roles, Accept(g, r)
  PROVE  Begun(mem', pending') <= Begun(mem, pending)
<1>1. mem \in Memory /\ pending \in SUBSET Groups /\ mem.trades \in Nat
  BY DEF TypeOK, Memory
<1>2. pending' = IF r = "entry" THEN pending \ {g} ELSE pending
  BY DEF Accept
<1>3. CASE r = "entry" /\ g \in pending /\ Delivered
  <2>1. mem' = [mem EXCEPT !.rejections = 0, !.trades = mem.trades + 1]
    BY <1>1, <1>3 DEF Accept, OnOrderAccepted
  <2>2. mem'.trades = mem.trades + 1 /\ mem'.direction = mem.direction
    BY <1>1, <2>1 DEF Memory
  <2> QED BY <1>1, <1>2, <1>3, <2>2, PendingCounts DEF Begun
<1>4. CASE ~(r = "entry" /\ g \in pending /\ Delivered)
  <2>1. mem' = [mem EXCEPT !.rejections = 0, !.trades = mem.trades] \/ mem' = mem
    BY <1>1, <1>4 DEF Accept, OnOrderAccepted
  <2>2. mem'.trades = mem.trades /\ mem'.direction = mem.direction
    BY <1>1, <2>1 DEF Memory
  <2> QED BY <1>1, <1>2, <2>2, ForgettingBeginsNothing
<1> QED BY <1>3, <1>4

\* The other reports leave the count and the confirmation alone.
LEMMA ReportsBeginNothing ==
  ASSUME TypeOK, mem' \in Memory, NEW g \in Groups, NEW r \in Roles,
         \/ Reject(g, r) \/ Cancel(g, r)
         \/ \E q \in 1..orders[g][r].leaves : Fill(g, r, q)
  PROVE  Begun(mem', pending') <= Begun(mem, pending)
<1>1. mem \in Memory /\ pending \in SUBSET Groups
  BY DEF TypeOK
<1>2. mem'.trades = mem.trades /\ mem'.direction = mem.direction
  BY <1>1 DEF Reject, OnOrderRejected, Cancel, Fill, OnOrderFilled, Memory
<1>3. pending' = pending \/ pending' = pending \ {g}
  BY DEF Reject, Cancel, Fill, Forget
<1> QED BY <1>1, <1>2, <1>3, ForgettingBeginsNothing

LEMMA OvershootStep ==
  ASSUME TypeOK, TypeOK', [Next]_vars, MaxTradesReached, restarts' = restarts
  PROVE  Begun(mem', pending') <= Begun(mem, pending)
<1>1. mem \in Memory /\ mem' \in Memory /\ pending \in SUBSET Groups /\ mem.trades \in Nat
  BY DEF TypeOK, Memory
<1>2. CASE mem'.trades = mem.trades /\ mem'.direction = mem.direction /\ pending' \in {pending, {}}
  BY <1>1, <1>2, ForgettingBeginsNothing
<1>3. CASE UNCHANGED vars \/ HardStopBar \/ Tick \/ NextDay \/ OnStop \/ OnStart \/ OnSave
           \/ \E g \in Groups : DropReduceOnly(g)
  BY <1>2, <1>3 DEF vars, strategy, HardStopBar, Tick, NextDay, OnStop, OnStart, OnSave, DropReduceOnly
<1>4. CASE RangeBar \/ CooldownElapses
  <2>1. mem'.trades = mem.trades /\ mem'.direction = mem.direction
    BY <1>1, <1>4 DEF RangeBar, CooldownElapses, Memory
  <2> QED BY <1>2, <1>4, <2>1 DEF RangeBar, CooldownElapses
<1>5. CASE BreakoutBar
  BY <1>5 DEF BreakoutBar
<1>6. CASE ConfirmationBar
  <2>1. mem.direction # 0
    BY <1>6 DEF ConfirmationBar
  <2>2. CASE Confirm(mem.direction, mem.count + 1)
    <3>1. mem.count + 1 \in Nat
      BY <1>1 DEF Memory
    <3> QED BY <1>1, <2>1, <2>2, <3>1, ConfirmedWasBegun
  <2>3. CASE ~Confirm(mem.direction, mem.count + 1)
    <3>1. mem' = [mem EXCEPT !.direction = 0, !.count = 0] /\ pending' = pending
      BY <1>6, <2>3 DEF ConfirmationBar
    <3>2. mem'.trades = mem.trades /\ mem'.direction = 0
      BY <1>1, <3>1 DEF Memory
    <3> QED BY <1>1, <2>1, <3>1, <3>2, PendingCounts DEF Begun
  <2> QED BY <2>2, <2>3
<1>7. ASSUME NEW g \in Groups, NEW r \in Roles, Report(g, r)
      PROVE  Begun(mem', pending') <= Begun(mem, pending)
  BY <1>1, <1>7, AcceptedWasBegun, ReportsBeginNothing DEF Report
<1>8. CASE OnReset
  <2>1. mem'.trades = 0 /\ mem'.direction = 0 /\ pending' = {}
    BY <1>8 DEF OnReset, FreshMemory
  <2> QED BY <1>1, <2>1, PendingCounts, FS_EmptySet DEF Begun
<1>9. CASE Restart
  <2>1. restarts' # restarts
    BY <1>9 DEF Restart, TypeOK
  <2> QED BY <2>1
<1> QED BY <1>3, <1>4, <1>5, <1>6, <1>7, <1>8, <1>9 DEF Next, OnBar, Lifecycle

\* Once max_trades_per_day is reached nothing new begins: for any number of groups,
\* bars, refusals and reports, only the entries on their way and the confirmation
\* running at that moment can still be counted.
THEOREM OvershootHolds == Spec => OvershootWasUnderWay
<1>1. ASSUME TypeOK, TypeOK', [Next]_vars
      PROVE  [MaxTradesReached /\ restarts' = restarts
                => mem'.trades + UnderWay' <= mem.trades + UnderWay]_vars
  BY <1>1, OvershootStep DEF Begun, UnderWay
<1> QED BY <1>1, TypeCorrect, PTL DEF Spec, OvershootWasUnderWay
=============================================================================
