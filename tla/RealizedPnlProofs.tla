--------------------------- MODULE RealizedPnlProofs ---------------------------
(* For any instruments, fills, dates, stops and restarts: what is stored keeps   *)
(* up with what the actor has computed, and what it computes is what was filled. *)
(* Matching and Worth are recursive functions; what they compute is shown of the *)
(* least index at which it would fail, since induction itself is out of reach.   *)
EXTENDS RealizedPnl, SequenceTheorems, WellFoundedInduction, TLAPS

-----------------------------------------------------------------------------
(* What is stored *)

(* Until a write is lost or overlaps another, at most one is in flight, and it  *)
(* carries the total of the last fill; with none in flight the total is stored. *)
UpToDate ==
  \/ writes = <<>> /\ (current # NoDate => stored[current] = Total(realized))
  \/ writes = <<[date |-> current, total |-> Total(realized)]>> /\ current \in Dates

StoredInv ==
  /\ clean \in BOOLEAN
  /\ tasks \in Seq(FillType)
  /\ DOMAIN stored = Dates /\ stored = [d \in Dates |-> stored[d]]
  /\ clean => UpToDate

\* The only write in flight leaves none behind.
LEMMA OnlyWrite ==
  ASSUME NEW w, writes = <<w>>, NEW n \in 1..Len(writes)
  PROVE n = 1 /\ Others(n) = <<>>
<1>1. Len(writes) = 1 /\ writes \in Seq({w})
  OBVIOUS
<1>2. n = 1
  BY <1>1
<1>3. SubSeq(writes, 1, 0) = <<>> /\ SubSeq(writes, 2, 1) = <<>>
  BY <1>1, SubSeqEmpty
<1> QED BY <1>1, <1>2, <1>3 DEF Others

LEMMA StoredInit == Init => StoredInv
  BY DEF Init, StoredInv, UpToDate

LEMMA StoredStep == StoredInv /\ [Next]_vars => StoredInv'
<1> SUFFICES ASSUME StoredInv, [Next]_vars PROVE StoredInv' OBVIOUS
<1> USE DEF StoredInv
<1>1. CASE OnStart
  BY <1>1 DEF OnStart, UpToDate, memory
<1>2. CASE OnStop
  BY <1>2 DEF OnStop, UpToDate, memory
<1>3. CASE ProcessFill
  <2> DEFINE fill == Head(tasks)
             total == Total(realized')
  <2>1. fill \in FillType /\ tasks' \in Seq(FillType)
    BY <1>3, HeadTailProperties DEF ProcessFill
  <2>2. current' = fill.date /\ fill.date \in Dates /\ stored' = stored
    BY <1>3, <2>1 DEF ProcessFill, FillType
  <2>3. SendsTotal(fill.date, total)
    BY <1>3 DEF ProcessFill
  <2>4. clean' \in BOOLEAN
    BY <2>3 DEF SendsTotal
  <2>5. ASSUME clean' PROVE UpToDate'
    <3>1. writes = <<>> /\ writes' = Append(writes, [date |-> fill.date, total |-> total])
      BY <2>3, <2>5 DEF SendsTotal
    <3>2. writes' = <<[date |-> fill.date, total |-> total]>>
      BY <3>1
    <3> QED BY <2>2, <3>2 DEF UpToDate
  <2> QED BY <2>1, <2>2, <2>4, <2>5
<1>4. CASE Restart
  BY <1>4 DEF Restart, UpToDate
<1>5. CASE Midnight
  BY <1>5 DEF Midnight, UpToDate, memory
<1>6. ASSUME NEW fill \in FillType, OnOrderFilled(fill) PROVE StoredInv'
  <2>1. tasks' \in Seq(FillType)
    BY <1>6, AppendProperties DEF OnOrderFilled
  <2> QED BY <1>6, <2>1 DEF OnOrderFilled, UpToDate, memory
<1>7. ASSUME NEW n \in 1..Len(writes), WriteLands(n) PROVE StoredInv'
  <2>1. UNCHANGED <<realized, current, tasks, clean>>
    BY <1>7 DEF WriteLands, memory
  <2>2. DOMAIN stored' = Dates /\ stored' = [d \in Dates |-> stored'[d]]
    BY <1>7 DEF WriteLands
  <2>3. ASSUME clean PROVE UpToDate'
    <3>1. writes # <<>>
      OBVIOUS
    <3>2. writes = <<[date |-> current, total |-> Total(realized)]>> /\ current \in Dates
      BY <2>3, <3>1 DEF UpToDate
    <3>3. n = 1 /\ writes' = <<>>
      BY <1>7, <3>2, OnlyWrite DEF WriteLands
    <3>4. stored'[current] = Total(realized)
      BY <1>7, <3>2, <3>3 DEF WriteLands
    <3> QED BY <2>1, <3>3, <3>4 DEF UpToDate
  <2> QED BY <2>1, <2>2, <2>3
<1>8. ASSUME NEW n \in 1..Len(writes), WriteFails(n) PROVE StoredInv'
  BY <1>8 DEF WriteFails, memory
<1>9. CASE UNCHANGED vars
  BY <1>9 DEF vars, UpToDate
<1> QED BY <1>1, <1>2, <1>3, <1>4, <1>5, <1>6, <1>7, <1>8, <1>9 DEF Next

\* With no write in flight and none lost or overlapped, Redis holds the total the actor
\* has computed for the date of its last fill.
THEOREM StoredHolds == Spec => []StoredKeepsUp
<1>1. StoredInv => StoredKeepsUp
  BY DEF StoredInv, UpToDate, StoredKeepsUp
<1> QED BY <1>1, StoredInit, StoredStep, PTL DEF Spec

-----------------------------------------------------------------------------
(* What lots are worth, and what matching makes of them *)

Below == {pair \in Nat \X Nat : pair[1] < pair[2]}

LEMMA LeastNatural ==
  ASSUME NEW T \in SUBSET Nat, T # {}
  PROVE \E x \in T : \A y \in T : x <= y
<1>1. IsWellFoundedOn(Below, Nat)
  BY NatLessThanWellFounded DEF OpToRel, Below
<1>2. PICK x \in T : \A y \in T : ~(<<y, x>> \in Below)
  BY <1>1, WFMin, Zenon
<1>3. \A y \in T : ~(y < x)
  BY <1>2 DEF Below
<1> QED BY <1>3

Lot == [price : Int, qty : Nat \ {0}, side : {-1, 1}]
Worths == [qty : Int, cost : Int]
Nothing == [qty |-> 0, cost |-> 0]

\* w is what the first k lots of s are worth, for every k up to n.
Sums(w, s, n) == w = [k \in 0..n |-> IF k = 0 THEN Nothing ELSE With(w[k - 1], s[k])]

LEMMA SumsAt ==
  ASSUME NEW w, NEW s, NEW n \in Nat, Sums(w, s, n)
  PROVE  w[0] = Nothing /\ \A k \in 1..n : w[k] = With(w[k - 1], s[k])
<1> DEFINE body(k) == IF k = 0 THEN Nothing ELSE With(w[k - 1], s[k])
<1>1. w = [k \in 0..n |-> body(k)]
  BY DEF Sums
<1> HIDE DEF body
<1>2. \A k \in 0..n : w[k] = body(k)
  BY <1>1
<1>3. 0 \in 0..n /\ \A k \in 1..n : k \in 0..n /\ k # 0
  OBVIOUS
<1> QED BY <1>2, <1>3 DEF body

LEMMA SumsExist ==
  ASSUME NEW s, NEW n \in Nat
  PROVE  \E w : Sums(w, s, n)
<1> DEFINE T == {m \in Nat : ~\E w : Sums(w, s, m)}
<1> SUFFICES ASSUME T # {} PROVE FALSE
  OBVIOUS
<1>1. PICK m \in T : \A y \in T : m <= y
  BY LeastNatural
<1>2. CASE m = 0
  <2> DEFINE w == [k \in 0..0 |-> Nothing]
  <2>1. w = [k \in 0..0 |-> IF k = 0 THEN Nothing ELSE With(w[k - 1], s[k])]
    OBVIOUS
  <2> HIDE DEF w
  <2> QED BY <1>1, <1>2, <2>1 DEF Sums
<1>3. CASE m # 0
  <2>1. m - 1 \in Nat /\ m - 1 \notin T
    BY <1>1, <1>3
  <2>2. PICK v : Sums(v, s, m - 1)
    BY <2>1
  <2>3. v[0] = Nothing /\ \A k \in 1..(m - 1) : v[k] = With(v[k - 1], s[k])
    BY <2>1, <2>2, SumsAt
  <2> DEFINE w == [k \in 0..m |-> IF k = m THEN With(v[m - 1], s[m]) ELSE v[k]]
  <2>4. ASSUME NEW k \in 0..m PROVE w[k] = IF k = 0 THEN Nothing ELSE With(w[k - 1], s[k])
    <3>1. CASE k = 0
      BY <1>3, <2>3, <3>1
    <3>2. CASE k = m
      <4>1. w[k] = With(v[m - 1], s[m]) /\ w[m - 1] = v[m - 1] /\ k # 0
        BY <1>1, <1>3, <3>2
      <4> HIDE DEF w
      <4> QED BY <3>2, <4>1
    <3>3. CASE k # 0 /\ k # m
      <4>1. k \in 1..(m - 1) /\ k - 1 \in 0..m /\ k - 1 # m
        BY <1>1, <3>3
      <4>2. w[k] = v[k] /\ w[k - 1] = v[k - 1]
        BY <3>3, <4>1
      <4> HIDE DEF w
      <4> QED BY <2>3, <3>3, <4>1, <4>2
    <3> QED BY <3>1, <3>2, <3>3
  <2>5. w = [k \in 0..m |-> w[k]]
    OBVIOUS
  <2> HIDE DEF w
  <2>6. Sums(w, s, m)
    BY <2>4, <2>5 DEF Sums
  <2> QED BY <1>1, <2>6
<1> QED BY <1>2, <1>3

LEMMA SumsAgree ==
  ASSUME NEW w, NEW s, NEW n \in Nat, Sums(w, s, n),
         NEW v, NEW t, NEW m \in Nat, Sums(v, t, m),
         n <= m, \A k \in 1..n : s[k] = t[k]
  PROVE  \A k \in 0..n : w[k] = v[k]
<1> DEFINE T == {k \in 0..n : w[k] # v[k]}
<1> SUFFICES ASSUME T # {} PROVE FALSE
  OBVIOUS
<1>0. T \in SUBSET Nat
  OBVIOUS
<1> HIDE DEF T
<1>1. PICK k \in T : \A y \in T : k <= y
  BY <1>0, LeastNatural
<1> USE DEF T
<1>2. w[0] = Nothing /\ v[0] = Nothing
  BY SumsAt
<1>3. k \in 1..n /\ k \in 1..m /\ k - 1 \in 0..n
  BY <1>1, <1>2
<1>4. w[k - 1] = v[k - 1]
  BY <1>1, <1>3
<1>5. w[k] = With(w[k - 1], s[k]) /\ v[k] = With(v[k - 1], t[k])
  BY <1>3, SumsAt
<1> QED BY <1>1, <1>3, <1>4, <1>5

LEMMA WithIsWorth ==
  ASSUME NEW worth \in Worths, NEW lot \in Lot
  PROVE  With(worth, lot) \in Worths
<1>1. \A x, y, z \in Int : x + y * z \in Int
  OBVIOUS
<1>2. \A x, y, z, u \in Int : x + y * z * u \in Int
  OBVIOUS
<1>3. worth.qty \in Int /\ worth.cost \in Int /\ lot.side \in Int /\ lot.qty \in Int /\ lot.price \in Int
  BY DEF Worths, Lot
<1> QED BY <1>1, <1>2, <1>3 DEF With, Worths

LEMMA WorthIsSum ==
  ASSUME NEW s \in Seq(Lot)
  PROVE  \E w : /\ Sums(w, s, Len(s)) /\ Worth(s) = w[Len(s)]
                /\ \A k \in 0..Len(s) : w[k] \in Worths
<1> DEFINE n == Len(s)
           w == CHOOSE v : v = [k \in 0..n |-> IF k = 0 THEN Nothing ELSE With(v[k - 1], s[k])]
<1>1. n \in Nat /\ \A k \in 1..n : s[k] \in Lot
  BY LenProperties, ElementOfSeq
<1>2. Worth(s) = w[n]
  BY DEF Worth, Nothing
<1>3. Sums(w, s, n)
  <2>1. \E v : v = [k \in 0..n |-> IF k = 0 THEN Nothing ELSE With(v[k - 1], s[k])]
    BY <1>1, SumsExist DEF Sums
  <2> QED BY <2>1 DEF Sums
<1> HIDE DEF w, n
<1>4. ASSUME NEW k \in 0..n PROVE w[k] \in Worths
  <2> DEFINE T == {j \in 0..n : w[j] \notin Worths}
  <2> SUFFICES ASSUME T # {} PROVE FALSE
    OBVIOUS
  <2>0. T \in SUBSET Nat
    BY <1>1
  <2> HIDE DEF T
  <2>1. PICK j \in T : \A y \in T : j <= y
    BY <2>0, LeastNatural
  <2> USE DEF T
  <2>2. w[0] \in Worths
    BY <1>1, <1>3, SumsAt DEF Nothing, Worths
  <2>3. j \in 1..n /\ j - 1 \in 0..n
    BY <1>1, <2>1, <2>2
  <2>4. w[j - 1] \in Worths
    BY <1>1, <2>1, <2>3
  <2>5. w[j] = With(w[j - 1], s[j])
    BY <1>1, <1>3, <2>3, SumsAt
  <2> QED BY <1>1, <2>1, <2>3, <2>4, <2>5, WithIsWorth
<1> QED BY <1>2, <1>3, <1>4 DEF n

LEMMA WorthOfNone == Worth(<<>>) = Nothing
<1>1. <<>> \in Seq(Lot) /\ Len(<<>>) = 0
  OBVIOUS
<1>2. PICK w : Sums(w, <<>>, 0) /\ Worth(<<>>) = w[0]
  BY <1>1, WorthIsSum
<1> QED BY <1>2, SumsAt

LEMMA WorthOfAppend ==
  ASSUME NEW s \in Seq(Lot), NEW lot \in Lot
  PROVE  Worth(Append(s, lot)) = With(Worth(s), lot) /\ Worth(s) \in Worths
<1> DEFINE n == Len(s)
           t == Append(s, lot)
<1>1. n \in Nat /\ t \in Seq(Lot) /\ Len(t) = n + 1 /\ t[n + 1] = lot /\ \A k \in 1..n : t[k] = s[k]
  BY AppendProperties, LenProperties
<1>2. PICK w : Sums(w, s, n) /\ Worth(s) = w[n] /\ \A k \in 0..n : w[k] \in Worths
  BY WorthIsSum
<1> HIDE DEF t
<1>3. PICK v : Sums(v, t, n + 1) /\ Worth(t) = v[n + 1]
  BY <1>1, WorthIsSum
<1> HIDE DEF n
<1>4. n + 1 \in Nat /\ n <= n + 1 /\ n \in 0..n /\ n + 1 \in 1..(n + 1) /\ (n + 1) - 1 = n
  BY <1>1
<1>5. w[n] = v[n]
  BY <1>1, <1>2, <1>3, <1>4, SumsAgree
<1>6. v[n + 1] = With(v[n], lot)
  BY <1>1, <1>3, <1>4, SumsAt
<1> QED BY <1>2, <1>3, <1>4, <1>5, <1>6 DEF t, n

-----------------------------------------------------------------------------
(* Matching conserves quantity and money *)

Sided(s, side) == \A k \in DOMAIN s : s[k].side = side

\* What has become of lots that are worth w, and of the fill, so far: what is kept is
\* worth as much more as was taken of the fill, and the gain is the difference in money.
Conserves(fill, side, acc, w) ==
  /\ acc \in [left : Nat, gain : Int, kept : Seq(Lot)] /\ Sided(acc.kept, side)
  /\ acc.kept # <<>> /\ side # fill.side => acc.left = 0
  /\ Worth(acc.kept).qty = w.qty + fill.side * (fill.qty - acc.left)
  /\ acc.gain = Worth(acc.kept).cost - w.cost - fill.side * (fill.qty - acc.left) * fill.price

LEMMA SidedAppend ==
  ASSUME NEW s \in Seq(Lot), NEW lot \in Lot, NEW side, Sided(s, side), lot.side = side
  PROVE  Append(s, lot) \in Seq(Lot) /\ Sided(Append(s, lot), side) /\ Append(s, lot) # <<>>
<1> DEFINE n == Len(s)
           t == Append(s, lot)
<1>1. n \in Nat /\ t \in Seq(Lot) /\ Len(t) = n + 1 /\ t[n + 1] = lot /\ \A k \in 1..n : t[k] = s[k]
  BY AppendProperties, LenProperties
<1>2. DOMAIN t = 1..(n + 1) /\ DOMAIN s = 1..n
  BY <1>1, LenProperties
<1>3. \A k \in 1..(n + 1) : k \in 1..n \/ k = n + 1
  BY <1>1
<1>4. t # <<>>
  <2>1. Len(t) # 0
    BY <1>1
  <2> QED BY <2>1
<1> HIDE DEF t, n
<1>5. Sided(t, side)
  BY <1>1, <1>2, <1>3 DEF Sided
<1> QED BY <1>1, <1>4, <1>5 DEF t

\* The arithmetic of one lot, of which m is matched.
LEMMA MatchedArithmetic ==
  ASSUME NEW f \in {-1, 1}, NEW q \in Int, NEW l \in Int, NEW p \in Int, NEW m \in Int,
         NEW size \in Int, NEW cost \in Int,
         NEW wq \in Int, NEW wc \in Int, NEW g \in Int,
         0 = wq + f * (q - l),
         g = 0 - wc - f * (q - l) * p
  PROVE  /\ 0 + (-f) * (size - m) = (wq + (-f) * size) + f * (q - (l - m))
         /\ g + (p - cost) * m * (-f)
              = (0 + (-f) * (size - m) * cost) - (wc + (-f) * size * cost) - f * (q - (l - m)) * p
<1>1. CASE f = 1
  BY <1>1
<1>2. CASE f = -1
  BY <1>2
<1> QED BY <1>1, <1>2

LEMMA ConsumeConserves ==
  ASSUME NEW fill, fill.side \in {-1, 1}, fill.qty \in Nat, fill.price \in Int,
         NEW side \in {-1, 1}, NEW acc, NEW w \in Worths, Conserves(fill, side, acc, w),
         NEW lot \in Lot, lot.side = side
  PROVE  Conserves(fill, side, Consume(fill, acc, lot), With(w, lot))
<1>1. PICK l \in Nat, g \in Int, kept \in Seq(Lot) : l = acc.left /\ g = acc.gain /\ kept = acc.kept
  BY DEF Conserves
<1>2. PICK q \in Nat, p \in Int, f \in {-1, 1} : q = fill.qty /\ p = fill.price /\ f = fill.side
  OBVIOUS
<1>3. PICK wq \in Int, wc \in Int : w.qty = wq /\ w.cost = wc
  BY DEF Worths
<1>4. PICK size \in Nat \ {0}, cost \in Int : lot.qty = size /\ lot.price = cost
  BY DEF Lot
<1>5. PICK kq \in Int, kc \in Int : Worth(kept).qty = kq /\ Worth(kept).cost = kc
  BY WorthOfAppend DEF Worths
<1>6. /\ kq = wq + f * (q - l) /\ g = kc - wc - f * (q - l) * p
      /\ Sided(kept, side) /\ (kept # <<>> /\ side # f => l = 0)
  BY <1>1, <1>2, <1>3, <1>5 DEF Conserves
<1>7. With(w, lot).qty = wq + side * size /\ With(w, lot).cost = wc + side * size * cost
  BY <1>3, <1>4 DEF With
<1>8. CASE kept # <<>> \/ l = 0 \/ side = f
  <2>1. PICK next : next = Consume(fill, acc, lot)
    OBVIOUS
  <2>2. next = [acc EXCEPT !.kept = Append(acc.kept, lot)]
    BY <1>1, <1>2, <1>8, <2>1 DEF Consume
  <2>3. /\ Append(kept, lot) \in Seq(Lot) /\ Sided(Append(kept, lot), side) /\ Append(kept, lot) # <<>>
        /\ Worth(Append(kept, lot)).qty = kq + side * size
        /\ Worth(Append(kept, lot)).cost = kc + side * size * cost
    <3>1. Append(kept, lot) \in Seq(Lot) /\ Sided(Append(kept, lot), side) /\ Append(kept, lot) # <<>>
      BY <1>6, SidedAppend
    <3>2. Worth(Append(kept, lot)) = With(Worth(kept), lot)
      BY WorthOfAppend
    <3>3. PICK kw : kw = Worth(kept) /\ kw.qty = kq /\ kw.cost = kc
      BY <1>5
    <3>4. With(kw, lot).qty = kq + side * size /\ With(kw, lot).cost = kc + side * size * cost
      BY <1>4, <3>3 DEF With
    <3> QED BY <3>1, <3>2, <3>3, <3>4
  <2>4. PICK more \in Seq(Lot) : more = Append(kept, lot)
    BY <2>3
  <2>5. next \in [left : Nat, gain : Int, kept : Seq(Lot)] /\ next.left = l /\ next.gain = g /\ next.kept = more
    BY <1>1, <2>2, <2>4 DEF Conserves
  <2>6. more # <<>> /\ side # f => l = 0
    BY <1>6, <1>8
  <2>7. kq + side * size = (wq + side * size) + f * (q - l)
    <3>1. \A x, y, z \in Int : (x + y) + z = (x + z) + y
      OBVIOUS
    <3>2. side * size \in Int /\ f * (q - l) \in Int
      OBVIOUS
    <3> QED BY <1>6, <3>1, <3>2
  <2>8. g = (kc + side * size * cost) - (wc + side * size * cost) - f * (q - l) * p
    <3>1. \A x, y, z, u \in Int : x - y - u = (x + z) - (y + z) - u
      OBVIOUS
    <3>2. side * size * cost \in Int /\ f * (q - l) * p \in Int
      OBVIOUS
    <3> QED BY <1>6, <3>1, <3>2
  <2>9. Conserves(fill, side, next, With(w, lot))
    BY <1>2, <1>7, <2>3, <2>4, <2>5, <2>6, <2>7, <2>8 DEF Conserves
  <2> QED BY <2>1, <2>9
<1>9. CASE kept = <<>> /\ l # 0 /\ side # f
  <2>1. PICK next : next = Consume(fill, acc, lot)
    OBVIOUS
  <2>2. PICK m \in Nat : m = IF l < size THEN l ELSE size
    OBVIOUS
  <2>3. next = [left |-> l - m, gain |-> g + (p - cost) * m * side,
                kept |-> IF m = size THEN <<>> ELSE <<[lot EXCEPT !.qty = size - m]>>]
    BY <1>1, <1>2, <1>4, <1>9, <2>1, <2>2 DEF Consume
  <2>4. l - m \in Nat /\ m <= size /\ (m # size => l - m = 0 /\ size - m \in Nat \ {0})
    BY <2>2
  <2>5. kq = 0 /\ kc = 0 /\ side = -f
    BY <1>5, <1>9, WorthOfNone DEF Nothing
  <2>6. PICK rest \in Seq(Lot) : /\ rest = next.kept /\ Sided(rest, side)
                                 /\ rest # <<>> => l - m = 0
                                 /\ Worth(rest).qty = 0 + side * (size - m)
                                 /\ Worth(rest).cost = 0 + side * (size - m) * cost
    <3>1. CASE m = size
      <4>1. next.kept = <<>> /\ <<>> \in Seq(Lot) /\ Sided(<<>>, side)
        BY <2>3, <3>1 DEF Sided
      <4>2. Worth(<<>>).qty = 0 /\ Worth(<<>>).cost = 0
        BY WorthOfNone DEF Nothing
      <4>3. 0 = 0 + side * (size - m) /\ 0 = 0 + side * (size - m) * cost
        BY <3>1
      <4> QED BY <4>1, <4>2, <4>3
    <3>2. CASE m # size
      <4>1. PICK part \in Lot : /\ part = [lot EXCEPT !.qty = size - m]
                                /\ part.side = side /\ part.qty = size - m /\ part.price = cost
        <5>1. PICK n \in Nat \ {0} : n = size - m
          BY <2>4, <3>2
        <5>2. PICK part : part = [lot EXCEPT !.qty = n]
          OBVIOUS
        <5>3. part \in Lot /\ part.side = side /\ part.qty = n /\ part.price = cost
          BY <1>4, <5>2 DEF Lot
        <5> QED BY <5>1, <5>2, <5>3
      <4>2. next.kept = <<part>> /\ <<part>> = Append(<<>>, part) /\ <<>> \in Seq(Lot) /\ Sided(<<>>, side)
        <5>1. next.kept = <<part>>
          BY <2>3, <3>2, <4>1
        <5>2. <<part>> = Append(<<>>, part) /\ <<>> \in Seq(Lot)
          BY <4>1
        <5>3. Sided(<<>>, side)
          BY DEF Sided
        <5> QED BY <5>1, <5>2, <5>3
      <4>3. Worth(<<part>>) = With(Nothing, part)
        BY <4>1, <4>2, WorthOfAppend, WorthOfNone
      <4>4. Worth(<<part>>).qty = 0 + side * (size - m) /\ Worth(<<part>>).cost = 0 + side * (size - m) * cost
        <5>1. PICK all : all = Worth(<<part>>)
          OBVIOUS
        <5>2. all.qty = 0 + part.side * part.qty /\ all.cost = 0 + part.side * part.qty * part.price
          BY <4>3, <5>1 DEF With, Nothing
        <5>3. all.qty = 0 + side * (size - m) /\ all.cost = 0 + side * (size - m) * cost
          BY <4>1, <5>2, Zenon
        <5> QED BY <5>1, <5>3
      <4>5. <<part>> \in Seq(Lot) /\ Sided(<<part>>, side)
        BY <4>1, <4>2, SidedAppend
      <4> QED BY <2>4, <3>2, <4>2, <4>4, <4>5
    <3> QED BY <3>1, <3>2
  <2>7. /\ 0 + (-f) * (size - m) = (wq + (-f) * size) + f * (q - (l - m))
        /\ g + (p - cost) * m * (-f)
             = (0 + (-f) * (size - m) * cost) - (wc + (-f) * size * cost) - f * (q - (l - m)) * p
    BY <1>6, <2>5, MatchedArithmetic
  <2>8. next \in [left : Nat, gain : Int, kept : Seq(Lot)] /\ next.left = l - m
        /\ next.gain = g + (p - cost) * m * side
    <3>1. g + (p - cost) * m * side \in Int
      OBVIOUS
    <3> QED BY <2>3, <2>4, <2>6, <3>1
  <2>9. Conserves(fill, side, next, With(w, lot))
    BY <1>2, <1>7, <2>5, <2>6, <2>7, <2>8 DEF Conserves
  <2> QED BY <2>1, <2>9
<1> QED BY <1>8, <1>9

Unmatched(fill) == [left |-> fill.qty, gain |-> 0, kept |-> <<>>]
Matches(a, fill, open, n) ==
  a = [k \in 0..n |-> IF k = 0 THEN Unmatched(fill) ELSE Consume(fill, a[k - 1], open[k])]

LEMMA MatchesAt ==
  ASSUME NEW a, NEW fill, NEW open, NEW n \in Nat, Matches(a, fill, open, n)
  PROVE  a[0] = Unmatched(fill) /\ \A k \in 1..n : a[k] = Consume(fill, a[k - 1], open[k])
<1> DEFINE body(k) == IF k = 0 THEN Unmatched(fill) ELSE Consume(fill, a[k - 1], open[k])
<1>1. a = [k \in 0..n |-> body(k)]
  BY DEF Matches
<1> HIDE DEF body
<1>2. \A k \in 0..n : a[k] = body(k)
  BY <1>1
<1>3. 0 \in 0..n /\ \A k \in 1..n : k \in 0..n /\ k # 0
  OBVIOUS
<1> QED BY <1>2, <1>3 DEF body

LEMMA MatchesExist ==
  ASSUME NEW fill, NEW open, NEW n \in Nat
  PROVE  \E a : Matches(a, fill, open, n)
<1> DEFINE T == {m \in Nat : ~\E a : Matches(a, fill, open, m)}
<1> SUFFICES ASSUME T # {} PROVE FALSE
  OBVIOUS
<1>1. PICK m \in T : \A y \in T : m <= y
  BY LeastNatural
<1>2. CASE m = 0
  <2> DEFINE a == [k \in 0..0 |-> Unmatched(fill)]
  <2>1. a = [k \in 0..0 |-> IF k = 0 THEN Unmatched(fill) ELSE Consume(fill, a[k - 1], open[k])]
    OBVIOUS
  <2> HIDE DEF a
  <2> QED BY <1>1, <1>2, <2>1 DEF Matches
<1>3. CASE m # 0
  <2>1. m - 1 \in Nat /\ m - 1 \notin T
    BY <1>1, <1>3
  <2>2. PICK b : Matches(b, fill, open, m - 1)
    BY <2>1
  <2>3. b[0] = Unmatched(fill) /\ \A k \in 1..(m - 1) : b[k] = Consume(fill, b[k - 1], open[k])
    BY <2>1, <2>2, MatchesAt
  <2> DEFINE a == [k \in 0..m |-> IF k = m THEN Consume(fill, b[m - 1], open[m]) ELSE b[k]]
  <2>4. ASSUME NEW k \in 0..m PROVE a[k] = IF k = 0 THEN Unmatched(fill) ELSE Consume(fill, a[k - 1], open[k])
    <3>1. CASE k = 0
      BY <1>3, <2>3, <3>1
    <3>2. CASE k = m
      <4>1. a[k] = Consume(fill, b[m - 1], open[m]) /\ a[m - 1] = b[m - 1] /\ k # 0
        BY <1>1, <1>3, <3>2
      <4> HIDE DEF a
      <4> QED BY <3>2, <4>1
    <3>3. CASE k # 0 /\ k # m
      <4>1. k \in 1..(m - 1) /\ k - 1 \in 0..m /\ k - 1 # m
        BY <1>1, <3>3
      <4>2. a[k] = b[k] /\ a[k - 1] = b[k - 1]
        BY <3>3, <4>1
      <4> HIDE DEF a
      <4> QED BY <2>3, <3>3, <4>1, <4>2
    <3> QED BY <3>1, <3>2, <3>3
  <2>5. a = [k \in 0..m |-> a[k]]
    OBVIOUS
  <2> HIDE DEF a
  <2>6. Matches(a, fill, open, m)
    BY <2>4, <2>5 DEF Matches
  <2> QED BY <1>1, <2>6
<1> QED BY <1>2, <1>3

LEMMA MatchConserves ==
  ASSUME NEW fill, fill.side \in {-1, 1}, fill.qty \in Nat, fill.price \in Int,
         NEW side \in {-1, 1}, NEW open \in Seq(Lot), Sided(open, side)
  PROVE  Conserves(fill, side, Match(fill, open), Worth(open))
<1> DEFINE n == Len(open)
           a == CHOOSE b : b = [k \in 0..n |-> IF k = 0 THEN Unmatched(fill) ELSE Consume(fill, b[k - 1], open[k])]
<1>1. n \in Nat /\ \A k \in 1..n : open[k] \in Lot /\ open[k].side = side
  BY LenProperties, ElementOfSeq DEF Sided
<1>2. Match(fill, open) = a[n]
  BY DEF Match, Unmatched
<1>3. Matches(a, fill, open, n)
  <2> HIDE DEF a, n
  <2>1. \E b : Matches(b, fill, open, n)
    BY <1>1, MatchesExist
  <2>2. PICK c : Matches(c, fill, open, n)
    BY <2>1
  <2>3. c = [k \in 0..n |-> IF k = 0 THEN Unmatched(fill) ELSE Consume(fill, c[k - 1], open[k])]
    BY <2>2 DEF Matches
  <2> USE DEF a
  <2>4. a = [k \in 0..n |-> IF k = 0 THEN Unmatched(fill) ELSE Consume(fill, a[k - 1], open[k])]
    BY <2>3
  <2> QED BY <2>4 DEF Matches
<1> HIDE DEF a
<1>4. PICK w : Sums(w, open, n) /\ Worth(open) = w[n] /\ \A k \in 0..n : w[k] \in Worths
  BY WorthIsSum
<1> HIDE DEF n
<1>5. ASSUME NEW k \in 0..n PROVE Conserves(fill, side, a[k], w[k])
  <2> DEFINE T == {j \in 0..n : ~Conserves(fill, side, a[j], w[j])}
  <2> SUFFICES ASSUME T # {} PROVE FALSE
    OBVIOUS
  <2>0. T \in SUBSET Nat
    BY <1>1
  <2> HIDE DEF T
  <2>1. PICK j \in T : \A y \in T : j <= y
    BY <2>0, LeastNatural
  <2> USE DEF T
  <2>2. Conserves(fill, side, a[0], w[0])
    <3>1. a[0] = Unmatched(fill) /\ w[0] = Nothing
      BY <1>1, <1>3, <1>4, MatchesAt, SumsAt
    <3>2. PICK acc : acc = Unmatched(fill)
      OBVIOUS
    <3>8. acc.left = fill.qty /\ acc.gain = 0 /\ acc.kept = <<>>
      BY <3>2 DEF Unmatched
    <3>3. acc \in [left : Nat, gain : Int, kept : Seq(Lot)]
      BY <3>2 DEF Unmatched
    <3>4. Sided(<<>>, side)
      BY DEF Sided
    <3>5. PICK q \in Nat, f \in {-1, 1}, p \in Int : q = fill.qty /\ f = fill.side /\ p = fill.price
      OBVIOUS
    <3>6. 0 = 0 + f * (q - q) /\ 0 = 0 - 0 - f * (q - q) * p
      OBVIOUS
    <3>9. Worth(acc.kept).qty = 0 /\ Worth(acc.kept).cost = 0 /\ Nothing.qty = 0 /\ Nothing.cost = 0
      BY <3>8, WorthOfNone DEF Nothing
    <3>10. Sided(acc.kept, side) /\ ~(acc.kept # <<>>)
      BY <3>4, <3>8
    <3>11. /\ Worth(acc.kept).qty = Nothing.qty + fill.side * (fill.qty - acc.left)
           /\ acc.gain = Worth(acc.kept).cost - Nothing.cost - fill.side * (fill.qty - acc.left) * fill.price
      <4>1. acc.left = q /\ acc.gain = 0
        BY <3>5, <3>8
      <4> QED BY <3>5, <3>6, <3>9, <4>1
    <3>7. Conserves(fill, side, acc, Nothing)
      BY <3>3, <3>10, <3>11 DEF Conserves
    <3> QED BY <3>1, <3>2, <3>7
  <2>3. j \in 1..n /\ j - 1 \in 0..n /\ ~(j - 1 \in T)
    BY <1>1, <2>1, <2>2
  <2>4. Conserves(fill, side, a[j - 1], w[j - 1])
    BY <2>3
  <2>5. a[j] = Consume(fill, a[j - 1], open[j]) /\ w[j] = With(w[j - 1], open[j])
    BY <1>1, <1>3, <1>4, <2>3, MatchesAt, SumsAt
  <2>6. Conserves(fill, side, a[j], w[j])
    <3>1. PICK v \in Worths, lot \in Lot : v = w[j - 1] /\ lot = open[j] /\ lot.side = side
      BY <1>1, <1>4, <2>3
    <3>4. PICK b : b = a[j - 1]
      OBVIOUS
    <3>2. Conserves(fill, side, b, v)
      BY <2>4, <3>1, <3>4
    <3>3. Conserves(fill, side, Consume(fill, b, lot), With(v, lot))
      BY <3>1, <3>2, ConsumeConserves
    <3> QED BY <2>5, <3>1, <3>3, <3>4
  <2> QED BY <2>1, <2>6
<1>6. n \in 0..n
  BY <1>1
<1> QED BY <1>2, <1>4, <1>5, <1>6

\* With what the fill opens, the lots are worth what they were and the fill; the gain is
\* what that moved in money.
Booked(fill, side, open) ==
  \E next \in Seq(Lot), gain \in Int :
    /\ next = Opened(fill, Match(fill, open)) /\ gain = Match(fill, open).gain
    /\ Sided(next, side) \/ Sided(next, fill.side)
    /\ Worth(next).qty = Worth(open).qty + fill.side * fill.qty
    /\ gain = Worth(next).cost - Worth(open).cost - fill.side * fill.qty * fill.price

LEMMA FillConserves ==
  ASSUME NEW fill, fill.side \in {-1, 1}, fill.qty \in Nat \ {0}, fill.price \in Int,
         NEW side \in {-1, 1}, NEW open \in Seq(Lot), Sided(open, side)
  PROVE  Booked(fill, side, open)
<1>1. PICK m : m = Match(fill, open) /\ Conserves(fill, side, m, Worth(open))
  BY MatchConserves
<1>2. PICK l \in Nat, g \in Int, kept \in Seq(Lot) : l = m.left /\ g = m.gain /\ kept = m.kept
  BY <1>1 DEF Conserves
<1>3. PICK q \in Nat \ {0}, p \in Int, f \in {-1, 1} : q = fill.qty /\ p = fill.price /\ f = fill.side
  OBVIOUS
<1>4. PICK wq \in Int, wc \in Int : Worth(open).qty = wq /\ Worth(open).cost = wc
  <2>1. Worth(open) \in Worths
    BY WorthIsSum, LenProperties
  <2> QED BY <2>1 DEF Worths
<1>5. PICK kw \in Worths : kw = Worth(kept)
  BY WorthIsSum, LenProperties
<1>6. PICK kq \in Int, kc \in Int : kw.qty = kq /\ kw.cost = kc
  BY <1>5 DEF Worths
<1>7. /\ kq = wq + f * (q - l) /\ g = kc - wc - f * (q - l) * p
      /\ Sided(kept, side) /\ (kept # <<>> /\ side # f => l = 0)
  BY <1>1, <1>2, <1>3, <1>4, <1>5, <1>6 DEF Conserves
<1>8. CASE l = 0
  <2>1. Opened(fill, m) = kept
    BY <1>2, <1>8 DEF Opened
  <2>2. kq = wq + f * q /\ g = kc - wc - f * q * p
    BY <1>7, <1>8
  <2> QED BY <1>1, <1>2, <1>3, <1>4, <1>5, <1>6, <1>7, <2>1, <2>2 DEF Booked
<1>9. CASE l # 0
  <2>1. PICK lot \in Lot : /\ lot = [price |-> fill.price, qty |-> m.left, side |-> fill.side]
                           /\ lot.price = p /\ lot.qty = l /\ lot.side = f
    <3>1. PICK c : c = [price |-> p, qty |-> l, side |-> f]
      OBVIOUS
    <3>2. c \in Lot /\ c.price = p /\ c.qty = l /\ c.side = f
      BY <1>9, <3>1 DEF Lot
    <3>3. c = [price |-> fill.price, qty |-> m.left, side |-> fill.side]
      BY <1>2, <1>3, <3>1
    <3> QED BY <3>2, <3>3
  <2>2. Sided(kept, f)
    <3>1. CASE kept = <<>>
      BY <3>1 DEF Sided
    <3>2. CASE kept # <<>>
      BY <1>7, <1>9, <3>2
    <3> QED BY <3>1, <3>2
  <2>3. PICK next \in Seq(Lot) : next = Append(kept, lot) /\ Sided(next, f)
    BY <2>1, <2>2, SidedAppend
  <2>4. Opened(fill, m) = next
    BY <1>2, <1>9, <2>1, <2>3 DEF Opened
  <2>5. Worth(next) = With(kw, lot)
    BY <1>5, <2>3, WorthOfAppend
  <2>6. Worth(next).qty = kq + f * l /\ Worth(next).cost = kc + f * l * p
    BY <1>6, <2>1, <2>5 DEF With
  <2>7. kq + f * l = wq + f * q /\ g = (kc + f * l * p) - wc - f * q * p
    <3>1. CASE f = 1
      BY <1>7, <3>1
    <3>2. CASE f = -1
      BY <1>7, <3>2
    <3> QED BY <3>1, <3>2
  <2> QED BY <1>1, <1>2, <1>3, <1>4, <2>3, <2>4, <2>6, <2>7 DEF Booked
<1> QED BY <1>8, <1>9

-----------------------------------------------------------------------------
(* The lots of every instrument: one direction, as much as was filled, and their *)
(* cost is what the fills moved and no result accounts for.                      *)

Balanced(open, quantity, moved, result) ==
  /\ open \in Seq(Lot) /\ quantity \in Int /\ moved \in Int /\ result \in Int
  /\ \E side \in {-1, 1} : Sided(open, side)
  /\ Worth(open).qty = quantity
  /\ result = moved + Worth(open).cost

LotsInv ==
  /\ tasks \in Seq(FillType)
  /\ DOMAIN lots = Instruments /\ DOMAIN held = Instruments
  /\ DOMAIN flows = Instruments /\ DOMAIN realized = Instruments
  /\ \A i \in Instruments : Balanced(lots[i], held[i], flows[i], realized[i])

LEMMA NoLotsBalance == Balanced(<<>>, 0, 0, 0)
<1>1. Worth(<<>>).qty = 0 /\ Worth(<<>>).cost = 0
  BY WorthOfNone DEF Nothing
<1>2. Sided(<<>>, 1) /\ <<>> \in Seq(Lot)
  BY DEF Sided
<1> QED BY <1>1, <1>2 DEF Balanced

LEMMA FillBalances ==
  ASSUME NEW open, NEW quantity, NEW moved, NEW result, Balanced(open, quantity, moved, result),
         NEW fill \in FillType
  PROVE  Balanced(Opened(fill, Match(fill, open)), quantity + fill.side * fill.qty,
                  moved - fill.side * fill.qty * fill.price, result + Match(fill, open).gain)
<1>1. fill.side \in {-1, 1} /\ fill.qty \in Nat \ {0} /\ fill.price \in Int
  BY PnlAssumption DEF FillType
<1>2. PICK side \in {-1, 1} : Sided(open, side)
  BY DEF Balanced
<1>3. open \in Seq(Lot) /\ quantity \in Int /\ moved \in Int /\ result \in Int
      /\ Worth(open).qty = quantity /\ result = moved + Worth(open).cost
  BY DEF Balanced
<1>4. open \in Seq(Lot)
  BY DEF Balanced
<1>5. Booked(fill, side, open)
  BY <1>1, <1>2, <1>4, FillConserves
<1>6. PICK next \in Seq(Lot), gain \in Int :
        /\ next = Opened(fill, Match(fill, open)) /\ gain = Match(fill, open).gain
        /\ Sided(next, side) \/ Sided(next, fill.side)
        /\ Worth(next).qty = Worth(open).qty + fill.side * fill.qty
        /\ gain = Worth(next).cost - Worth(open).cost - fill.side * fill.qty * fill.price
  BY <1>5 DEF Booked
<1>7. PICK f \in {-1, 1}, q \in Nat, p \in Int : f = fill.side /\ q = fill.qty /\ p = fill.price
  BY <1>1
<1>8. PICK was, now \in Worths : was = Worth(open) /\ now = Worth(next)
  BY <1>4, WorthIsSum, LenProperties
<1>9. PICK oc \in Int, nc \in Int : oc = was.cost /\ nc = now.cost
  BY DEF Worths
<1>10. f * q \in Int /\ f * q * p \in Int
  OBVIOUS
<1>11. result + gain = (moved - f * q * p) + nc
  <2>1. result = moved + oc
    BY <1>3, <1>8, <1>9
  <2>2. gain = nc - oc - f * q * p
    BY <1>6, <1>7, <1>8, <1>9
  <2>3. moved \in Int
    BY <1>3
  <2> QED BY <1>10, <2>1, <2>2, <2>3
<1>12. \E s \in {-1, 1} : Sided(next, s)
  BY <1>1, <1>2, <1>6
<1>13. quantity + f * q \in Int /\ moved - f * q * p \in Int /\ result + gain \in Int
  <2>1. quantity \in Int /\ moved \in Int /\ result \in Int
    BY <1>3
  <2> QED BY <1>10, <2>1
<1>14. Worth(next).qty = quantity + f * q
  BY <1>3, <1>6, <1>7
<1>15. Worth(next).cost = nc
  BY <1>8, <1>9
<1>16. Balanced(next, quantity + f * q, moved - f * q * p, result + gain)
  BY <1>11, <1>12, <1>13, <1>14, <1>15 DEF Balanced
<1> QED BY <1>6, <1>7, <1>16

LEMMA LotsInit == Init => LotsInv
  BY NoLotsBalance DEF Init, LotsInv, NoLots, Zero

LEMMA LotsStep == LotsInv /\ [Next]_vars => LotsInv'
<1> SUFFICES ASSUME LotsInv, [Next]_vars PROVE LotsInv' OBVIOUS
<1> USE DEF LotsInv
<1>1. CASE OnStart
  BY <1>1 DEF OnStart, memory
<1>2. CASE OnStop
  BY <1>2 DEF OnStop, memory
<1>3. CASE ProcessFill
  <2>1. PICK fill \in FillType : fill = Head(tasks)
    BY <1>3, HeadTailProperties DEF ProcessFill
  <2>2. tasks' \in Seq(FillType)
    BY <1>3, HeadTailProperties DEF ProcessFill
  <2>3. PICK i \in Instruments : i = fill.instrument
    BY DEF FillType
  <2>4. PICK start : start = AsOf(fill.date)
    OBVIOUS
  <2>5. /\ DOMAIN start.lots = Instruments /\ DOMAIN start.held = Instruments
        /\ DOMAIN start.flows = Instruments /\ DOMAIN start.realized = Instruments
        /\ \A j \in Instruments :
             Balanced(start.lots[j], start.held[j], start.flows[j], start.realized[j])
    BY <2>4, NoLotsBalance DEF AsOf, NoLots, Zero
  <2>6. PICK m : m = Match(fill, start.lots[i])
    OBVIOUS
  <2>7. /\ lots' = [start.lots EXCEPT ![i] = Opened(fill, m)]
        /\ realized' = [start.realized EXCEPT ![i] = @ + m.gain]
        /\ flows' = [start.flows EXCEPT ![i] = @ - fill.side * fill.qty * fill.price]
        /\ held' = [start.held EXCEPT ![i] = @ + fill.side * fill.qty]
    BY <1>3, <2>1, <2>3, <2>4, <2>6 DEF ProcessFill
  <2>8. Balanced(Opened(fill, m), start.held[i] + fill.side * fill.qty,
                 start.flows[i] - fill.side * fill.qty * fill.price, start.realized[i] + m.gain)
    BY <2>5, <2>6, FillBalances
  <2>9. ASSUME NEW j \in Instruments PROVE Balanced(lots'[j], held'[j], flows'[j], realized'[j])
    <3>1. CASE j = i
      BY <2>5, <2>7, <2>8, <3>1
    <3>2. CASE j # i
      BY <2>5, <2>7, <3>2
    <3> QED BY <3>1, <3>2
  <2>10. /\ DOMAIN lots' = Instruments /\ DOMAIN held' = Instruments
         /\ DOMAIN flows' = Instruments /\ DOMAIN realized' = Instruments
    BY <2>5, <2>7
  <2> QED BY <2>2, <2>9, <2>10
<1>4. CASE Restart
  BY <1>4, NoLotsBalance DEF Restart, NoLots, Zero
<1>5. CASE Midnight
  BY <1>5 DEF Midnight, memory
<1>6. ASSUME NEW fill \in FillType, OnOrderFilled(fill) PROVE LotsInv'
  <2>1. tasks' \in Seq(FillType)
    BY <1>6, AppendProperties DEF OnOrderFilled
  <2> QED BY <1>6, <2>1 DEF OnOrderFilled, memory
<1>7. ASSUME NEW n \in 1..Len(writes), WriteLands(n) PROVE LotsInv'
  BY <1>7 DEF WriteLands, memory
<1>8. ASSUME NEW n \in 1..Len(writes), WriteFails(n) PROVE LotsInv'
  BY <1>8 DEF WriteFails, memory
<1>9. CASE UNCHANGED vars
  BY <1>9 DEF vars
<1> QED BY <1>1, <1>2, <1>3, <1>4, <1>5, <1>6, <1>7, <1>8, <1>9 DEF Next

\* Matching neither loses quantity nor money, whatever is filled, in whatever order, over
\* any number of fills, midnights, stops and restarts: the open lots of an instrument are
\* all of one direction and make up its net quantity, and the result booked is the cash
\* moved with the open lots taken at their cost.
THEOREM LotsHold == Spec => []LotsMatchTheFills
<1>1. LotsInv => LotsMatchTheFills
  <2> SUFFICES ASSUME LotsInv, NEW i \in Instruments PROVE LotsAreThePosition(i) /\ RealizedIsCashFlow(i)
    BY DEF LotsMatchTheFills
  <2>1. Balanced(lots[i], held[i], flows[i], realized[i])
    BY DEF LotsInv
  <2>2. PICK n \in Nat : n = Len(lots[i]) /\ DOMAIN lots[i] = 1..n
    BY <2>1, LenProperties DEF Balanced
  <2>3. \A k \in 1..(n - 1) : k \in 1..n /\ k + 1 \in 1..n
    OBVIOUS
  <2>4. \A k \in 1..(Len(lots[i]) - 1) : lots[i][k].side = lots[i][k + 1].side
    BY <2>1, <2>2, <2>3 DEF Balanced, Sided
  <2> QED BY <2>1, <2>4 DEF Balanced, LotsAreThePosition, RealizedIsCashFlow
<1> QED BY <1>1, LotsInit, LotsStep, PTL DEF Spec
=============================================================================
