------------------------------ MODULE TraderProofs ------------------------------
(* What runs in the trader's process beside the ORB strategy and the execution     *)
(* client, for every value of the constants: the momentum strategy, the rejection  *)
(* monitor, the resubscription of bars, what tells that the trader is well, the    *)
(* limiter of orders and the journal.                                              *)
EXTENDS MomentumStrategy, RejectionMonitor, BarResubscription, TraderHealth, OrderRateLimiter,
        TradeJournal, SequenceTheorems, FiniteSetTheorems, TLAPS

-----------------------------------------------------------------------------
(* The momentum strategy *)

\* The answers h end a streak at i, and have one somewhere.
EndsStreak(h, i) ==
  i >= MomMaxRejections /\ \A j \in (i - MomMaxRejections + 1)..i : h[j] = "rejected"
Earned(h) == MomMaxRejections > 0 /\ \E i \in 1..Len(h) : EndsStreak(h, i)

\* What count and disabled say of the answers h.
TrippedBy(count, disabled, h) ==
  /\ count \in Nat /\ count <= Len(h) /\ count <= MomMaxRejections
  /\ \A j \in (Len(h) - count + 1)..Len(h) : h[j] = "rejected"
  /\ count < MomMaxRejections /\ count < Len(h) => h[Len(h) - count] = "accepted"
  /\ disabled <=> Earned(h)

Answers == {"accepted", "rejected"}
MomFields == {"closes", "loss", "position", "rejections", "disabled"}
MomInv ==
  /\ mom = [f \in MomFields |-> mom[f]]
  /\ mom.disabled \in BOOLEAN /\ heard \in Seq(Answers)
  /\ TrippedBy(mom.rejections, mom.disabled, heard)

LEMMA MaxRejectionsIsNatural == MomMaxRejections \in Nat
BY MomentumAssumption

LEMMA NothingHeard == <<>> \in Seq(Answers) /\ TrippedBy(0, FALSE, <<>>)
BY MaxRejectionsIsNatural DEF TrippedBy, Earned

\* One more answer, and the streaks that were there.
LEMMA OneMoreAnswer ==
  ASSUME NEW h \in Seq(Answers), NEW answer \in Answers
  PROVE  /\ Append(h, answer) \in Seq(Answers) /\ Len(Append(h, answer)) = Len(h) + 1
         /\ Len(h) \in Nat
         /\ \A j \in 1..Len(h) : Append(h, answer)[j] = h[j]
         /\ Append(h, answer)[Len(h) + 1] = answer
OBVIOUS

LEMMA EarnedStays ==
  ASSUME NEW h \in Seq(Answers), NEW answer \in Answers, MomMaxRejections > 0
  PROVE  Earned(Append(h, answer)) <=> Earned(h) \/ EndsStreak(Append(h, answer), Len(h) + 1)
<1> DEFINE n == Len(h)
           all == Append(h, answer)
<1>1. /\ n \in Nat /\ Len(all) = n + 1 /\ \A j \in 1..n : all[j] = h[j]
  BY OneMoreAnswer
<1> HIDE DEF n, all
<1>2. \A i \in 1..n : EndsStreak(all, i) <=> EndsStreak(h, i)
  <2> SUFFICES ASSUME NEW i \in 1..n, i >= MomMaxRejections
               PROVE  EndsStreak(all, i) <=> EndsStreak(h, i)
    BY DEF EndsStreak
  <2>1. \A j \in (i - MomMaxRejections + 1)..i : j \in 1..n
    BY <1>1, MaxRejectionsIsNatural
  <2> QED BY <1>1, <2>1 DEF EndsStreak
<1>3. \A i : i \in 1..(n + 1) <=> i \in 1..n \/ i = n + 1
  BY <1>1
<1>4. (\E i \in 1..(n + 1) : EndsStreak(all, i))
        <=> (\E i \in 1..n : EndsStreak(h, i)) \/ EndsStreak(all, n + 1)
  BY <1>2, <1>3
<1>5. Len(all) = n + 1 /\ Len(h) = n
  BY <1>1 DEF n
<1> QED BY <1>4, <1>5 DEF Earned, n, all

LEMMA AcceptanceCounted ==
  ASSUME NEW count, NEW disabled \in BOOLEAN, NEW h \in Seq(Answers),
         TrippedBy(count, disabled, h)
  PROVE  TrippedBy(0, disabled, Append(h, "accepted"))
<1> DEFINE n == Len(h)
           all == Append(h, "accepted")
<1>1. n \in Nat /\ Len(all) = n + 1 /\ all[n + 1] = "accepted"
  BY OneMoreAnswer DEF Answers
<1>2. Earned(all) <=> Earned(h)
  <2>1. CASE MomMaxRejections > 0
    <3>1. ~EndsStreak(all, n + 1)
      <4> HIDE DEF n, all
      <4>1. n + 1 \in ((n + 1) - MomMaxRejections + 1)..(n + 1)
        BY <1>1, <2>1, MaxRejectionsIsNatural
      <4>2. all[n + 1] # "rejected"
        BY <1>1
      <4> QED BY <4>1, <4>2, Zenon DEF EndsStreak
    <3> QED BY <2>1, <3>1, EarnedStays DEF Answers
  <2>2. CASE ~(MomMaxRejections > 0)
    BY <2>2 DEF Earned
  <2> QED BY <2>1, <2>2
<1> HIDE DEF n, all
<1>3. TrippedBy(0, disabled, all)
  BY <1>1, <1>2, MaxRejectionsIsNatural DEF TrippedBy
<1> QED BY <1>3 DEF all

LEMMA RejectionHeard ==
  ASSUME NEW count, NEW disabled \in BOOLEAN, NEW h \in Seq(Answers),
         TrippedBy(count, disabled, h), MomMaxRejections > 0,
         NEW more, more = IF count < MomMaxRejections THEN count + 1 ELSE count
  PROVE  TrippedBy(more, disabled \/ count + 1 >= MomMaxRejections, Append(h, "rejected"))
<1> DEFINE n == Len(h)
           all == Append(h, "rejected")
<1>1. /\ n \in Nat /\ Len(all) = n + 1 /\ all[n + 1] = "rejected"
      /\ \A j \in 1..n : all[j] = h[j]
  BY OneMoreAnswer DEF Answers
<1>2. Earned(all) <=> Earned(h) \/ EndsStreak(all, n + 1)
  BY EarnedStays DEF Answers
<1>3. /\ count \in Nat /\ count <= n /\ count <= MomMaxRejections /\ (disabled <=> Earned(h))
      /\ \A j \in (n - count + 1)..n : h[j] = "rejected"
      /\ count < MomMaxRejections /\ count < n => h[n - count] = "accepted"
  BY DEF TrippedBy
<1> HIDE DEF n, all
<1>4. \A j \in (n - count + 1)..(n + 1) : all[j] = "rejected"
  <2>1. \A j \in (n - count + 1)..(n + 1) : j = n + 1 \/ (j \in 1..n /\ j \in (n - count + 1)..n)
    BY <1>1, <1>3
  <2> QED BY <1>1, <1>3, <2>1
<1>5. more \in Nat /\ more <= n + 1 /\ more <= count + 1 /\ more <= MomMaxRejections
  BY <1>1, <1>3, MaxRejectionsIsNatural
<1>6. \A j \in (n + 1 - more + 1)..(n + 1) : all[j] = "rejected"
  <2>1. \A j \in (n + 1 - more + 1)..(n + 1) : j \in (n - count + 1)..(n + 1)
    BY <1>1, <1>3, <1>5
  <2> QED BY <1>4, <2>1
<1>7. more < MomMaxRejections /\ more < n + 1 => all[n + 1 - more] = "accepted"
  <2> SUFFICES ASSUME more < MomMaxRejections, more < n + 1
               PROVE  all[n + 1 - more] = "accepted"
    OBVIOUS
  <2>1. count < MomMaxRejections /\ more = count + 1
    BY <1>3, MaxRejectionsIsNatural
  <2>2. count < n /\ n + 1 - more = n - count /\ n - count \in 1..n
    BY <1>1, <1>3, <2>1
  <2> QED BY <1>1, <1>3, <2>1, <2>2
<1>8. EndsStreak(all, n + 1) <=> count + 1 >= MomMaxRejections
  <2>1. ASSUME count + 1 >= MomMaxRejections PROVE EndsStreak(all, n + 1)
    <3>1. \A j \in ((n + 1) - MomMaxRejections + 1)..(n + 1) : j \in (n - count + 1)..(n + 1)
      BY <1>1, <1>3, <2>1, MaxRejectionsIsNatural
    <3>2. n + 1 >= MomMaxRejections
      BY <1>1, <1>3, <2>1, MaxRejectionsIsNatural
    <3> QED BY <1>4, <3>1, <3>2, Zenon DEF EndsStreak
  <2>2. ASSUME ~(count + 1 >= MomMaxRejections), EndsStreak(all, n + 1) PROVE FALSE
    <3>1. count < n /\ count < MomMaxRejections
      BY <1>1, <1>3, <2>2, MaxRejectionsIsNatural DEF EndsStreak
    <3>2. n - count \in 1..n /\ n - count \in ((n + 1) - MomMaxRejections + 1)..(n + 1)
      BY <1>1, <1>3, <2>2, <3>1, MaxRejectionsIsNatural
    <3>3. all[n - count] = "rejected"
      BY <2>2, <3>2, Zenon DEF EndsStreak
    <3> QED BY <1>1, <1>3, <3>1, <3>2, <3>3
  <2> QED BY <2>1, <2>2
<1>9. (disabled \/ count + 1 >= MomMaxRejections) <=> Earned(all)
  BY <1>2, <1>3, <1>8
<1>10. TrippedBy(more, disabled \/ count + 1 >= MomMaxRejections, all)
  BY <1>1, <1>5, <1>6, <1>7, <1>9 DEF TrippedBy
<1> QED BY <1>10 DEF all

\* A rejection where no breaker is configured counts for nothing.
LEMMA RejectionIgnored ==
  ASSUME NEW count, NEW disabled \in BOOLEAN, NEW h \in Seq(Answers),
         TrippedBy(count, disabled, h), ~(MomMaxRejections > 0)
  PROVE  TrippedBy(count, disabled, Append(h, "rejected"))
<1>1. count = 0 /\ count \in Nat
  BY MaxRejectionsIsNatural DEF TrippedBy
<1> QED BY <1>1, OneMoreAnswer, MaxRejectionsIsNatural DEF TrippedBy, Earned, Answers

\* What a step that tells the breaker nothing leaves alone.
LEMMA BreakerAlone ==
  ASSUME MomInv, heard' = heard,
         \/ mom' = mom
         \/ \E n : mom' = [mom EXCEPT !.closes = n]
         \/ \E n, l : mom' = [mom EXCEPT !.position = n, !.loss = l]
  PROVE  MomInv'
<1>1. /\ mom' = [f \in MomFields |-> mom'[f]]
      /\ mom'.rejections = mom.rejections /\ mom'.disabled = mom.disabled
  BY DEF MomInv, MomFields
<1> QED BY <1>1 DEF MomInv

LEMMA FreshStart ==
  ASSUME mom' = MomFresh, heard' = <<>>
  PROVE  MomInv'
<1>1. /\ mom' = [f \in MomFields |-> mom'[f]]
      /\ mom'.rejections = 0 /\ mom'.disabled = FALSE
  BY DEF MomFresh, MomFields
<1> QED BY <1>1, NothingHeard DEF MomInv

LEMMA MomStep ==
  ASSUME MomInv, [MomNext]_momVars
  PROVE  MomInv'
<1>1. CASE UNCHANGED <<mom, heard>>
  BY <1>1, BreakerAlone
<1>2. CASE WarmUpBar
  <2>1. heard' = heard /\ \E n : mom' = [mom EXCEPT !.closes = n]
    BY <1>2 DEF WarmUpBar
  <2> QED BY <2>1, BreakerAlone
<1>3. ASSUME NEW d \in {-1, 1}, MomentumBar(d) PROVE MomInv'
  BY <1>1, <1>3 DEF MomentumBar
<1>4. ASSUME NEW g \in MomGroups, NEW r \in MomRoles, MomAccepted(g, r) PROVE MomInv'
  <2>1. mom' = [mom EXCEPT !.rejections = 0] /\ heard' = Append(heard, "accepted")
    BY <1>4 DEF MomAccepted, Hears
  <2>2. /\ mom' = [f \in MomFields |-> mom'[f]]
        /\ mom'.rejections = 0 /\ mom'.disabled = mom.disabled
    BY <2>1 DEF MomInv, MomFields
  <2>3. TrippedBy(0, mom.disabled, Append(heard, "accepted"))
    BY AcceptanceCounted DEF MomInv
  <2>4. Append(heard, "accepted") \in Seq(Answers)
    BY DEF MomInv, Answers
  <2> QED BY <2>1, <2>2, <2>3, <2>4 DEF MomInv
<1>5. ASSUME NEW g \in MomGroups, NEW r \in MomRoles, MomRejected(g, r) PROVE MomInv'
  <2>1. CASE ~Told
    BY <1>1, <1>5, <2>1 DEF MomRejected, Hears
  <2>2. CASE Told
    <3>1. heard' = Append(heard, "rejected") /\ Append(heard, "rejected") \in Seq(Answers)
      BY <1>5, <2>2 DEF MomRejected, Hears, MomInv, Answers
    <3>2. CASE MomMaxRejections > 0
      <4>1. PICK more, out :
              /\ more = IF mom.rejections < MomMaxRejections THEN mom.rejections + 1
                                                           ELSE mom.rejections
              /\ out = (mom.disabled \/ mom.rejections + 1 >= MomMaxRejections)
              /\ mom' = [mom EXCEPT !.rejections = more, !.disabled = out]
        BY <1>5, <2>2, <3>2, Zenon DEF MomRejected
      <4>2. /\ mom' = [f \in MomFields |-> mom'[f]]
            /\ mom'.rejections = more /\ mom'.disabled = out
        BY <4>1 DEF MomInv, MomFields
      <4>3. TrippedBy(more, mom.disabled \/ mom.rejections + 1 >= MomMaxRejections,
                      Append(heard, "rejected"))
        BY <3>2, <4>1, RejectionHeard DEF MomInv
      <4>4. out \in BOOLEAN
        BY <4>1, Zenon DEF MomInv
      <4>5. TrippedBy(mom'.rejections, mom'.disabled, heard')
        BY <3>1, <4>1, <4>2, <4>3, Zenon
      <4> QED BY <3>1, <4>2, <4>4, <4>5 DEF MomInv
    <3>3. CASE ~(MomMaxRejections > 0)
      <4>1. mom' = mom
        BY <1>5, <2>2, <3>3 DEF MomRejected
      <4> QED BY <3>1, <3>3, <4>1, RejectionIgnored DEF MomInv
    <3> QED BY <3>2, <3>3
  <2> QED BY <2>1, <2>2
<1>6. ASSUME NEW g \in MomGroups, NEW r \in MomRoles, NEW n \in 1..working[g][r].leaves,
             MomFilled(g, r, n)
      PROVE  MomInv'
  <2>1. heard' = heard
    BY <1>6 DEF MomFilled
  <2>2. mom' = mom \/ \E p, l : mom' = [mom EXCEPT !.position = p, !.loss = l]
    BY <1>6, Zenon DEF MomFilled
  <2> QED BY <2>1, <2>2, BreakerAlone
<1>7. CASE OnLunchPause \/ OnLunchResume \/ MomOnStop \/ MomOnStart
  BY <1>1, <1>7 DEF OnLunchPause, OnLunchResume, MomOnStop, MomOnStart
<1>8. CASE MomOnReset
  BY <1>8, FreshStart DEF MomOnReset
<1>9. CASE MomRestart
  BY <1>1, <1>9, FreshStart DEF MomRestart, Saved
<1>10. CASE UNCHANGED momVars
  BY <1>1, <1>10 DEF momVars
<1> QED BY <1>2, <1>3, <1>4, <1>5, <1>6, <1>7, <1>8, <1>9, <1>10 DEF MomNext

\* For any window, size, limits and number of orders: the momentum strategy is disabled
\* exactly when it heard as many rejections in a row as its breaker is set to.
THEOREM BreakerHolds == MomSpec => []BreakerIsEarned
<1>1. MomInit => MomInv
  <2> SUFFICES ASSUME MomInit PROVE MomInv
    OBVIOUS
  <2>1. /\ mom = [f \in MomFields |-> mom[f]]
        /\ mom.rejections = 0 /\ mom.disabled = FALSE /\ heard = <<>>
    BY DEF MomInit, MomFresh, MomFields
  <2> QED BY <2>1, NothingHeard DEF MomInv
<1>2. MomInv /\ [MomNext]_momVars => MomInv'
  BY MomStep
<1>3. MomInv => BreakerIsEarned
  <2> SUFFICES ASSUME MomInv PROVE BreakerIsEarned
    OBVIOUS
  <2>1. (mom.disabled <=> Earned(heard)) /\ DOMAIN heard = 1..Len(heard)
    BY DEF MomInv, TrippedBy
  <2> QED BY <2>1, Zenon DEF BreakerIsEarned, Earned, EndsStreak, Streak
<1> QED BY <1>1, <1>2, <1>3, PTL DEF MomSpec

-----------------------------------------------------------------------------
(* The rejection monitor *)

Record == [count : Nat, last : Nat, halted : BOOLEAN]

\* The rejections j to i belong to one streak, which began at j.
InStreak(times, j, i) ==
  /\ j \in 1..i /\ StreakFrom(times, j)
  /\ \A n \in (j + 1)..i : ~StreakFrom(times, n)
HaltDue(times, i) == \E j \in 1..i : InStreak(times, j, i) /\ i - j + 1 = MaxConsecutive

\* What the record of a key says of the rejections of the key so far.
CountsStreak(record, times) ==
  LET n == Len(times) IN
  /\ record.count = 0 <=> n = 0
  /\ record.halted <=> record.count >= MaxConsecutive
  /\ n > 0 => /\ record.count <= n /\ record.last = times[n] /\ times[n] <= tick
              /\ InStreak(times, n - record.count + 1, n)
RejectionInv ==
  /\ tick \in Nat
  /\ rejected \in [RejectionKeys -> Seq(Nat)]
  /\ counter \in [RejectionKeys -> Record]
  /\ requested \in [RejectionKeys -> SUBSET Nat]
  /\ \A k \in RejectionKeys :
       /\ CountsStreak(counter[k], rejected[k])
       /\ requested[k] = {i \in 1..Len(rejected[k]) : HaltDue(rejected[k], i)}

LEMMA RejectionConstants ==
  MaxConsecutive \in Nat /\ MaxConsecutive > 0 /\ CooldownTime \in Nat
BY RejectionAssumption

\* A rejection belongs to one streak.
LEMMA OneStreak ==
  ASSUME NEW times, NEW i \in Nat, NEW j \in Nat, NEW l \in Nat,
         InStreak(times, j, i), InStreak(times, l, i)
  PROVE  j = l
BY DEF InStreak

\* A later rejection changes nothing about the streaks before it.
LEMMA StreaksStay ==
  ASSUME NEW times \in Seq(Nat), NEW t \in Nat, NEW i \in 1..Len(times)
  PROVE  /\ \A j \in 1..i : InStreak(Append(times, t), j, i) <=> InStreak(times, j, i)
         /\ HaltDue(Append(times, t), i) <=> HaltDue(times, i)
<1>1. \A m \in 1..i : Append(times, t)[m] = times[m]
  OBVIOUS
<1>2. \A m \in 1..i : StreakFrom(Append(times, t), m) <=> StreakFrom(times, m)
  BY <1>1 DEF StreakFrom
<1>3. \A j \in 1..i : InStreak(Append(times, t), j, i) <=> InStreak(times, j, i)
  BY <1>2 DEF InStreak
<1> QED BY <1>3 DEF HaltDue

LEMMA OneMore ==
  ASSUME NEW record \in Record, tick \in Nat
  PROVE  LET r == [record EXCEPT !.count = record.count + 1, !.last = tick]
         IN /\ r \in Record /\ r.count = record.count + 1 /\ r.last = tick
            /\ r.halted = record.halted
<1> DEFINE q == [record EXCEPT !.count = record.count + 1]
<1>1. q \in Record /\ q.count = record.count + 1 /\ q.halted = record.halted
  BY DEF Record
<1> HIDE DEF q
<1>2. /\ [q EXCEPT !.last = tick] \in Record /\ [q EXCEPT !.last = tick].count = q.count
      /\ [q EXCEPT !.last = tick].last = tick /\ [q EXCEPT !.last = tick].halted = q.halted
  BY <1>1 DEF Record
<1> QED BY <1>1, <1>2 DEF q

\* The record after a rejection counts the streak the rejection belongs to.
LEMMA CountedStreak ==
  ASSUME NEW record \in Record, NEW times \in Seq(Nat), tick \in Nat,
         CountsStreak(record, times)
  PROVE  LET r == Counted(record)
             all == Append(times, tick)
         IN /\ r \in Record /\ r.count > 0 /\ r.count <= Len(times) + 1 /\ r.last = tick
            /\ InStreak(all, Len(times) + 1 - r.count + 1, Len(times) + 1)
            /\ (r.count >= MaxConsecutive /\ ~r.halted) <=> r.count = MaxConsecutive
            /\ (r.halted \/ r.count = MaxConsecutive) <=> r.count >= MaxConsecutive
<1> DEFINE n == Len(times)
           all == Append(times, tick)
           r == Counted(record)
<1>1. /\ n \in Nat /\ Len(all) = n + 1 /\ all[n + 1] = tick
      /\ \A m \in 1..n : all[m] = times[m] /\ times[m] \in Nat
  OBVIOUS
<1>2. MaxConsecutive \in Nat /\ MaxConsecutive > 0 /\ CooldownTime \in Nat
  BY RejectionConstants
<1>3. record.count \in Nat /\ record.last \in Nat /\ record.halted \in BOOLEAN
  BY DEF Record
<1>4. CASE n = 0 \/ tick - record.last > CooldownTime
  <2>1. r.count = 1 /\ r.last = tick /\ r.halted = FALSE /\ r \in Record
    <3>1. CASE tick - record.last > CooldownTime
      BY <3>1 DEF Counted, Record
    <3>2. CASE n = 0 /\ ~(tick - record.last > CooldownTime)
      <4>1. record.count = 0 /\ ~record.halted
        BY <1>2, <3>2 DEF CountsStreak
      <4>2. Counted(record) = [record EXCEPT !.count = record.count + 1, !.last = tick]
        BY <3>2, Zenon DEF Counted
      <4>3. record.count + 1 = 1
        BY <4>1
      <4> QED BY <1>3, <4>1, <4>2, <4>3, OneMore, Zenon
    <3> QED BY <1>4, <3>1, <3>2
  <2>2. StreakFrom(all, n + 1)
    <3>1. n > 0 => record.last = all[n]
      BY <1>1 DEF CountsStreak
    <3> QED BY <1>1, <1>4, <3>1 DEF StreakFrom
  <2>3. InStreak(all, n + 1, n + 1)
    BY <1>1, <2>2 DEF InStreak
  <2> HIDE DEF r, all
  <2> QED BY <1>1, <1>2, <2>1, <2>3 DEF r, all
<1>5. CASE n > 0 /\ ~(tick - record.last > CooldownTime)
  <2>1. r.count = record.count + 1 /\ r.last = tick /\ r.halted = record.halted /\ r \in Record
    <3>1. Counted(record) = [record EXCEPT !.count = record.count + 1, !.last = tick]
      BY <1>5, Zenon DEF Counted
    <3> QED BY <3>1, OneMore, Zenon
  <2>2. /\ record.count > 0 /\ record.count <= n /\ record.last = times[n]
        /\ InStreak(times, n - record.count + 1, n)
        /\ record.halted <=> record.count >= MaxConsecutive
    BY <1>3, <1>5 DEF CountsStreak
  <2>3. ~StreakFrom(all, n + 1)
    BY <1>1, <1>5, <2>2 DEF StreakFrom
  <2>4. InStreak(all, n - record.count + 1, n)
    <3>1. n \in 1..Len(times) /\ n - record.count + 1 \in 1..n
      <4> HIDE DEF n
      <4>1. n \in 1..n /\ n - record.count + 1 \in 1..n
        BY <1>1, <1>3, <1>5, <2>2
      <4> QED BY <4>1 DEF n
    <3> QED BY <2>2, <3>1, StreaksStay
  <2>5. InStreak(all, n - record.count + 1, n + 1)
    <3> HIDE DEF n, all
    <3>1. n \in Nat /\ record.count \in 1..n
      BY <1>1, <1>3, <2>2
    <3>2. \A m \in (n - record.count + 1 + 1)..(n + 1) :
            m \in (n - record.count + 1 + 1)..n \/ m = n + 1
      BY <3>1
    <3>3. n - record.count + 1 \in 1..(n + 1)
      BY <3>1
    <3> QED BY <2>3, <2>4, <3>2, <3>3 DEF InStreak
  <2> HIDE DEF r, all
  <2>6. n + 1 - r.count + 1 = n - record.count + 1
    BY <1>1, <1>3, <2>1
  <2>7. (r.count >= MaxConsecutive /\ ~r.halted) <=> r.count = MaxConsecutive
    <3>1. (record.count + 1 >= MaxConsecutive /\ ~(record.count >= MaxConsecutive))
             <=> record.count + 1 = MaxConsecutive
      BY <1>2, <1>3
    <3> QED BY <2>1, <2>2, <3>1, Zenon
  <2>8. (r.halted \/ r.count = MaxConsecutive) <=> r.count >= MaxConsecutive
    BY <1>2, <1>3, <2>1, <2>2
  <2>9. r.count > 0 /\ r.count <= n + 1
    BY <1>1, <1>3, <2>1, <2>2
  <2> QED BY <2>1, <2>5, <2>6, <2>7, <2>8, <2>9 DEF r, all
<1> QED BY <1>1, <1>4, <1>5

\* One key through one rejection.
LEMMA RejectionCounted ==
  ASSUME RejectionInv, NEW k \in RejectionKeys, ProcessRejection(k)
  PROVE  /\ rejected'[k] = Append(rejected[k], tick) /\ counter'[k] \in Record
         /\ CountsStreak(counter[k], rejected[k])'
         /\ requested'[k] = {i \in 1..Len(rejected'[k]) : HaltDue(rejected'[k], i)}
<1> DEFINE times == rejected[k]
           n == Len(times)
           all == Append(times, tick)
           r == Counted(counter[k])
           halts == r.count >= MaxConsecutive /\ ~r.halted
<1>1. /\ tick \in Nat /\ times \in Seq(Nat) /\ counter[k] \in Record /\ n \in Nat
      /\ CountsStreak(counter[k], times)
      /\ requested[k] = {i \in 1..n : HaltDue(times, i)}
  BY DEF RejectionInv
<1>2. /\ r \in Record /\ r.count > 0 /\ r.count <= n + 1 /\ r.last = tick
      /\ InStreak(all, n + 1 - r.count + 1, n + 1)
      /\ halts <=> r.count = MaxConsecutive
      /\ (r.halted \/ r.count = MaxConsecutive) <=> r.count >= MaxConsecutive
  BY <1>1, CountedStreak
<1>3. Len(all) = n + 1 /\ all[n + 1] = tick
  BY <1>1
<1>4. \A i \in 1..n : HaltDue(all, i) <=> HaltDue(times, i)
  BY <1>1, StreaksStay
<1>5. rejected'[k] = all /\ tick' = tick
  BY DEF ProcessRejection, RejectionInv
<1>6. counter'[k] = [r EXCEPT !.halted = r.halted \/ halts]
  BY Zenon DEF ProcessRejection, RejectionInv
<1>7. requested'[k] = IF halts THEN requested[k] \cup {n + 1} ELSE requested[k]
  BY Zenon DEF ProcessRejection, RejectionInv
<1>8. HaltDue(all, n + 1) <=> halts
  <2> HIDE DEF all, n, r, halts
  <2>1. r.count \in Nat /\ n \in Nat /\ MaxConsecutive \in Nat
    BY <1>1, <1>2, RejectionConstants DEF Record
  <2>2. n + 1 - r.count + 1 \in 1..(n + 1)
    BY <1>2, <2>1
  <2>3. (n + 1) - (n + 1 - r.count + 1) + 1 = r.count
    BY <2>1
  <2>4. ASSUME NEW j \in 1..(n + 1), InStreak(all, j, n + 1) PROVE j = n + 1 - r.count + 1
    BY <1>2, <2>1, <2>2, <2>4, OneStreak
  <2>5. HaltDue(all, n + 1) => r.count = MaxConsecutive
    BY <2>3, <2>4 DEF HaltDue
  <2>6. r.count = MaxConsecutive => HaltDue(all, n + 1)
    BY <1>2, <2>2, <2>3 DEF HaltDue
  <2> QED BY <1>2, <2>5, <2>6
<1> HIDE DEF times, n, all, r, halts
<1>9. requested'[k] = {i \in 1..(n + 1) : HaltDue(all, i)}
  <2>1. \A i : i \in 1..(n + 1) <=> i \in 1..n \/ i = n + 1
    BY <1>1
  <2>2. ~(n + 1 \in 1..n)
    BY <1>1
  <2> QED BY <1>1, <1>4, <1>7, <1>8, <2>1, <2>2
<1>10. (r.halted \/ halts) \in BOOLEAN
  BY <1>2, Zenon DEF Record, halts
<1>11. PICK b \in BOOLEAN : (b <=> r.count >= MaxConsecutive) /\ counter'[k] = [r EXCEPT !.halted = b]
  <2>1. (r.halted \/ halts) <=> r.count >= MaxConsecutive
    BY <1>2, Zenon
  <2> QED BY <1>6, <1>10, <2>1, Zenon
<1>12. /\ counter'[k] \in Record /\ counter'[k].count = r.count /\ counter'[k].last = tick
       /\ counter'[k].halted = b
  BY <1>2, <1>11 DEF Record
<1>13. CountsStreak(counter[k], rejected[k])'
  <2>1. Len(rejected'[k]) = n + 1 /\ rejected'[k] = all
    BY <1>3, <1>5
  <2>2. r.count \in Nat /\ tick <= tick
    BY <1>1, <1>2 DEF Record
  <2> QED BY <1>1, <1>2, <1>3, <1>5, <1>11, <1>12, <2>1, <2>2 DEF CountsStreak
<1> QED BY <1>3, <1>5, <1>9, <1>12, <1>13 DEF all, times

\* A process that has just begun has counted what was rejected: nothing.
LEMMA FreshCounts ==
  /\ Fresh \in Record /\ <<>> \in Seq(Nat) /\ Len(<<>>) = 0 /\ (\A i : i \notin 1..0)
  /\ CountsStreak(Fresh, <<>>) /\ CountsStreak(Fresh, <<>>)'
<1>1. Fresh \in Record /\ Fresh.count = 0 /\ Fresh.halted = FALSE
  BY DEF Fresh, Record
<1>2. <<>> \in Seq(Nat) /\ Len(<<>>) = 0 /\ \A i : i \notin 1..0
  OBVIOUS
<1>3. CountsStreak(Fresh, <<>>) /\ CountsStreak(Fresh, <<>>)'
  BY <1>1, <1>2, RejectionConstants DEF CountsStreak
<1> QED BY <1>1, <1>2, <1>3

LEMMA RejectionInvStep ==
  ASSUME RejectionInv, [RejectionNext]_rejectionVars
  PROVE  RejectionInv'
<1>1. CASE \/ UNCHANGED rejectionVars \/ \E s \in haltWrites : HaltWritten(s)
  <2>1. UNCHANGED <<tick, counter, rejected, requested>>
    BY <1>1 DEF rejectionVars, HaltWritten
  <2> QED BY <2>1 DEF RejectionInv, CountsStreak
<1>2. ASSUME NEW k \in RejectionKeys, ProcessRejection(k) PROVE RejectionInv'
  <2>1. /\ rejected'[k] = Append(rejected[k], tick) /\ counter'[k] \in Record
        /\ CountsStreak(counter[k], rejected[k])'
        /\ requested'[k] = {i \in 1..Len(rejected'[k]) : HaltDue(rejected'[k], i)}
    BY <1>2, RejectionCounted
  <2>2. /\ tick' = tick /\ tick \in Nat
        /\ \E c : counter' = [counter EXCEPT ![k] = c]
        /\ rejected' = [rejected EXCEPT ![k] = Append(rejected[k], tick)]
        /\ \E q : requested' = [requested EXCEPT ![k] = q]
    BY <1>2, Zenon DEF ProcessRejection, RejectionInv
  <2>3. requested'[k] \in SUBSET Nat /\ rejected'[k] \in Seq(Nat)
    BY <2>1 DEF RejectionInv
  <2>4. /\ rejected' \in [RejectionKeys -> Seq(Nat)] /\ counter' \in [RejectionKeys -> Record]
        /\ requested' \in [RejectionKeys -> SUBSET Nat]
    BY <2>1, <2>2, <2>3 DEF RejectionInv
  <2>5. ASSUME NEW j \in RejectionKeys, j # k
        PROVE  /\ counter'[j] = counter[j] /\ rejected'[j] = rejected[j]
               /\ requested'[j] = requested[j]
    BY <2>2, <2>5 DEF RejectionInv
  <2>6. ASSUME NEW j \in RejectionKeys, j # k
        PROVE  /\ CountsStreak(counter[j], rejected[j])'
               /\ requested'[j] = {i \in 1..Len(rejected'[j]) : HaltDue(rejected'[j], i)}
    BY <2>2, <2>5, <2>6 DEF RejectionInv, CountsStreak
  <2> QED BY <2>1, <2>2, <2>4, <2>6 DEF RejectionInv
<1>3. CASE RejectionMonitorBoots
  <2>1. ASSUME NEW k \in RejectionKeys PROVE CountsStreak(counter[k], rejected[k])'
    BY <1>3, FreshCounts DEF RejectionMonitorBoots, CountsStreak
  <2> QED BY <1>3, <2>1, FreshCounts DEF RejectionMonitorBoots, RejectionInv
<1>4. CASE Ticks
  <2>1. tick' \in Nat /\ \A t \in Nat : t <= tick => t <= tick'
    BY <1>4 DEF Ticks, RejectionInv
  <2>2. ASSUME NEW k \in RejectionKeys PROVE CountsStreak(counter[k], rejected[k])'
    <3>1. CountsStreak(counter[k], rejected[k]) /\ rejected[k] \in Seq(Nat)
          /\ UNCHANGED <<counter, rejected, requested>>
      BY <1>4 DEF Ticks, RejectionInv
    <3>2. Len(rejected[k]) > 0 => rejected[k][Len(rejected[k])] \in Nat
      BY <3>1
    <3> QED BY <2>1, <3>1, <3>2 DEF CountsStreak
  <2> QED BY <1>4, <2>1, <2>2 DEF Ticks, RejectionInv
<1> QED BY <1>1, <1>2, <1>3, <1>4 DEF RejectionNext

THEOREM RejectionInvariant == RejectionSpec => []RejectionInv
<1>1. RejectionInit => RejectionInv
  BY FreshCounts DEF RejectionInit, RejectionInv
<1>2. RejectionInv /\ [RejectionNext]_rejectionVars => RejectionInv'
  BY RejectionInvStep
<1> QED BY <1>1, <1>2, PTL DEF RejectionSpec

\* For any keys, cooldown and number of rejections: the counting of
\* rejection_monitor.py asks for a halt at the MaxConsecutive-th rejection of every
\* streak, at no other, and so once per streak.
THEOREM StreaksHalt == RejectionSpec => []HaltsAtStreaks
<1>1. ASSUME RejectionInv PROVE HaltsAtStreaks
  <2>1. ASSUME NEW k \in RejectionKeys
        PROVE  LET times == rejected[k]
                   starts(i) == {j \in 1..i : StreakFrom(times, j)
                                              /\ \A n \in (j + 1)..i : ~StreakFrom(times, n)}
               IN requested[k] = {i \in DOMAIN times :
                                    \E j \in starts(i) : i - j + 1 = MaxConsecutive}
    <3>1. /\ requested[k] = {i \in 1..Len(rejected[k]) : HaltDue(rejected[k], i)}
          /\ DOMAIN rejected[k] = 1..Len(rejected[k])
      BY <1>1 DEF RejectionInv
    <3> QED BY <3>1 DEF HaltDue, InStreak
  <2> QED BY <2>1 DEF HaltsAtStreaks
<1> QED BY <1>1, RejectionInvariant, PTL

-----------------------------------------------------------------------------
(* Days, for the resubscription of bars and for the readiness check *)

LEMMA DayAndTime ==
  ASSUME NEW t \in Nat, NEW d \in Nat, d > 0
  PROVE  /\ t \div d \in Nat /\ t % d \in 0..(d - 1)
         /\ t = (t \div d) * d + (t % d)
OBVIOUS

LEMMA DayAndTimeOf ==
  ASSUME NEW d \in Nat, d > 0, NEW q \in Nat, NEW r \in 0..(d - 1), NEW t \in Nat, t = q * d + r
  PROVE  t \div d = q /\ t % d = r
OBVIOUS

LEMMA DaysApart ==
  ASSUME NEW d \in Nat, NEW p \in Nat, NEW q \in Nat, p < q
  PROVE  p * d \in Nat /\ q * d \in Nat /\ p * d + d <= q * d
OBVIOUS

-----------------------------------------------------------------------------
(* The resubscription of bars *)

\* The last check of the bars, or the start before the first.
LastCheck == staleAlert - CheckInterval
SilenceInv ==
  /\ moment \in Nat /\ moment <= MaxClock
  /\ lastBar \in Nat /\ lastBar <= moment
  /\ startedAt \in Nat /\ staleAlert \in Nat
  /\ startedAt = Never => staleAlert = Never
  /\ startedAt # Never =>
       /\ startedAt <= LastCheck /\ LastCheck <= moment /\ moment <= staleAlert
       /\ \/ LastCheck = startedAt
          \/ ~InHours(LastCheck)
          \/ LastCheck - lastBar <= StaleTimeout

LEMMA BarConstants ==
  /\ {DayLength, OpensAt, ClosesAt, StaleTimeout, MaxClock, CheckInterval} \subseteq Nat
  /\ DayLength > 0 /\ CheckInterval > 0 /\ OpensAt < DayLength
  /\ Never \in Nat /\ Never > MaxClock
BY ResubscriptionAssumption DEF Never

LEMMA SilenceStep ==
  ASSUME SilenceInv, [ResubscriptionNext]_resubscriptionVars
  PROVE  SilenceInv'
<1> USE BarConstants DEF SilenceInv, LastCheck
<1>1. CASE UNCHANGED resubscriptionVars
  BY <1>1 DEF resubscriptionVars
<1>2. CASE ResubscriptionStarts
  BY <1>2 DEF ResubscriptionStarts
<1>3. CASE OnBar
  BY <1>3 DEF OnBar
<1>4. CASE OnMarketOpen
  BY <1>4 DEF OnMarketOpen
<1>5. CASE OnStalenessCheck
  <2>1. startedAt # Never /\ staleAlert = moment
    BY <1>5 DEF OnStalenessCheck
  <2>2. staleAlert' = moment + CheckInterval /\ UNCHANGED <<moment, startedAt>>
    BY <1>5 DEF OnStalenessCheck
  <2>3. \/ ~InHours(moment) /\ lastBar' = lastBar
        \/ moment - lastBar <= StaleTimeout /\ lastBar' = lastBar
        \/ lastBar' = moment
    BY <1>5 DEF OnStalenessCheck
  <2> QED BY <2>1, <2>2, <2>3
<1>6. CASE ResubscriptionStops
  BY <1>6 DEF ResubscriptionStops
<1>7. CASE ClockTicks
  BY <1>7 DEF ClockTicks
<1> QED BY <1>1, <1>2, <1>3, <1>4, <1>5, <1>6, <1>7 DEF ResubscriptionNext

THEOREM SilenceInvariant == ResubscriptionSpec => []SilenceInv
<1>1. ResubscriptionInit => SilenceInv
  BY BarConstants DEF ResubscriptionInit, SilenceInv
<1>2. SilenceInv /\ [ResubscriptionNext]_resubscriptionVars => SilenceInv'
  BY SilenceStep
<1> QED BY <1>1, <1>2, PTL DEF ResubscriptionSpec

\* Latest is the latest.
LEMMA LatestOfThree ==
  ASSUME NEW a \in Nat, NEW b \in Nat, NEW c \in Nat
  PROVE  /\ Latest({a, b, c}) \in {a, b, c}
         /\ a <= Latest({a, b, c}) /\ b <= Latest({a, b, c}) /\ c <= Latest({a, b, c})
<1>1. \E t \in {a, b, c} : \A u \in {a, b, c} : u <= t
  <2>1. CASE a >= b /\ a >= c
    BY <2>1
  <2>2. CASE b >= a /\ b >= c
    BY <2>2
  <2>3. CASE c >= a /\ c >= b
    BY <2>3
  <2> QED BY <2>1, <2>2, <2>3
<1> QED BY <1>1 DEF Latest

\* From the open to a moment in hours, all is in hours.
LEMMA HoursSinceOpen ==
  ASSUME NEW t \in Nat, NEW p \in Nat, InHours(t), DayOf(t) * DayLength + OpensAt <= p, p <= t
  PROVE  InHours(p)
<1>1. /\ DayLength \in Nat /\ DayLength > 0 /\ OpensAt \in Nat /\ ClosesAt \in Nat
  BY BarConstants
<1>2. /\ DayOf(t) \in Nat /\ t % DayLength \in 0..(DayLength - 1)
      /\ t = DayOf(t) * DayLength + (t % DayLength)
  BY <1>1, DayAndTime DEF DayOf
<1> DEFINE start == DayOf(t) * DayLength
<1>3. start \in Nat
  BY <1>1, <1>2
<1>4. p - start \in 0..(DayLength - 1) /\ OpensAt <= p - start /\ p - start <= t % DayLength
  <2> HIDE DEF start
  <2>1. t = start + (t % DayLength) /\ start + OpensAt <= p
    BY <1>2 DEF start
  <2> QED BY <1>1, <1>2, <1>3, <2>1
<1>5. p = DayOf(t) * DayLength + (p - start)
  <2> HIDE DEF start
  <2>1. p = start + (p - start)
    BY <1>3
  <2> QED BY <2>1 DEF start
<1> HIDE DEF start
<1>6. DayOf(p) = DayOf(t) /\ p % DayLength = p - start
  BY <1>1, <1>2, <1>4, <1>5, DayAndTimeOf DEF DayOf
<1> QED BY <1>1, <1>2, <1>3, <1>4, <1>6 DEF InHours

\* For any market hours, holidays, timeout and interval: while the actor of
\* bar_resubscription.py runs, in market hours, no silence lasts longer than the timeout
\* and one interval without a check acting on it.
THEOREM SilenceIsNoticed == ResubscriptionSpec => []SilenceNoticed
<1>1. ASSUME SilenceInv, startedAt # Never, InHours(moment)
      PROVE  moment - Latest({lastBar, startedAt, DayOf(moment) * DayLength + OpensAt})
                <= StaleTimeout + CheckInterval
  <2> DEFINE open == DayOf(moment) * DayLength + OpensAt
  <2>1. /\ moment \in Nat /\ lastBar \in Nat /\ startedAt \in Nat /\ LastCheck \in Int
        /\ startedAt <= LastCheck /\ LastCheck <= moment /\ moment <= LastCheck + CheckInterval
        /\ StaleTimeout \in Nat /\ CheckInterval \in Nat
    BY <1>1, BarConstants DEF SilenceInv, LastCheck
  <2>2. open \in Nat
    BY <2>1, BarConstants, DayAndTime DEF DayOf
  <2>3. \/ LastCheck = startedAt \/ LastCheck < open \/ LastCheck - lastBar <= StaleTimeout
    <3>1. ASSUME open <= LastCheck PROVE InHours(LastCheck)
      BY <1>1, <2>1, <3>1, HoursSinceOpen
    <3> QED BY <1>1, <2>1, <2>2, <3>1 DEF SilenceInv
  <2> HIDE DEF open
  <2>4. /\ Latest({lastBar, startedAt, open}) \in Nat
        /\ lastBar <= Latest({lastBar, startedAt, open})
        /\ startedAt <= Latest({lastBar, startedAt, open})
        /\ open <= Latest({lastBar, startedAt, open})
    BY <2>1, <2>2, LatestOfThree
  <2> QED BY <2>1, <2>2, <2>3, <2>4 DEF open
<1>2. SilenceInv => SilenceNoticed
  BY <1>1 DEF SilenceNoticed
<1> QED BY <1>2, SilenceInvariant, PTL

-----------------------------------------------------------------------------
(* What tells that the trader is well *)

HealthTypeOK ==
  /\ second \in Nat /\ second <= MaxSecond /\ actors \in {"up", "stopped", "down"}
  /\ beatAlert \in Nat /\ checkAlert \in Nat
  /\ flying \subseteq Nat /\ beatShown \in Nat
  /\ since \in Nat /\ since <= second /\ faultAt \in Nat /\ faultAt <= second
  /\ healthFaults \in Nat
  /\ checking \in [at : Nat, step : {"none", "pinging", "writing"}, passed : BOOLEAN]
  /\ readiness \in [0..Date(MaxSecond) -> {"none", "PASS", "FAIL"}]

\* The heartbeat of t was sent and is on its way, failed or was shown.
Handed(t) == t \in flying \/ faultAt >= t \/ beatShown \in t..second
LastBeat == beatAlert - Beat
BeatInv ==
  /\ \A w \in flying : w <= second /\ second <= w + 1
  /\ beatShown = NoTime \/ beatShown <= second
  /\ actors # "up" =>
       /\ beatAlert = NoTime /\ \A w \in flying : w <= since
       /\ beatShown = NoTime \/ beatShown <= since
  /\ actors = "up" =>
       /\ since <= LastBeat /\ LastBeat <= second /\ second <= beatAlert
       /\ \A w \in flying : w <= since \/ w = LastBeat
       /\ LastBeat > since => LastBeat >= since + Beat /\ Handed(LastBeat)
       /\ LastBeat - Beat > since => Handed(LastBeat - Beat)

\* The time of the check of day d.
Due(d) == d * DayTicks + CheckAt
CheckInv ==
  /\ checking.step # "none" =>
       /\ checking.at <= second /\ second <= checking.at + 1
       /\ \E d \in Nat : checking.at = Due(d)
  /\ checking.passed =>
       BundlesLoaded /\ (checking.step = "writing" => Date(checking.at) \in TradingDays)
  /\ \A d \in DOMAIN readiness : readiness[d] = "PASS" => d \in TradingDays /\ BundlesLoaded
  /\ actors # "up" => checkAlert = NoTime
  /\ actors = "up" =>
       /\ second <= checkAlert /\ \E d \in Nat : checkAlert = Due(d)
       /\ \A d \in DOMAIN readiness :
            since < Due(d) /\ Due(d) < checkAlert /\ healthFaults = 0 =>
              \/ readiness[d] # "none"
              \/ checking.step # "none" /\ checking.at = Due(d)

HealthInv == HealthTypeOK /\ BeatInv /\ CheckInv

LEMMA HealthConstants ==
  /\ Beat \in Nat /\ Beat >= 2 /\ BeatTimeout \in Nat /\ Beat + 1 <= BeatTimeout
  /\ DayTicks \in Nat /\ DayTicks >= 2 /\ CheckAt \in Nat /\ CheckAt + 1 < DayTicks
  /\ MaxSecond \in Nat /\ NoTime \in Nat /\ NoTime > MaxSecond
BY HealthAssumption DEF NoTime

LEMMA NoCheckIdle == NoCheck.step = "none" /\ ~NoCheck.passed
                     /\ NoCheck \in [at : Nat, step : {"none", "pinging", "writing"}, passed : BOOLEAN]
BY HealthConstants DEF NoCheck

\* The steps that leave the heartbeat alone.
LEMMA BeatStays ==
  ASSUME HealthTypeOK, BeatInv,
         UNCHANGED <<second, actors, beatAlert, flying, beatShown, since>>,
         faultAt' = faultAt \/ faultAt' = second
  PROVE  BeatInv'
BY HealthConstants DEF HealthTypeOK, BeatInv, Handed, LastBeat

LEMMA BeatStep ==
  ASSUME HealthTypeOK, BeatInv, [HealthNext]_healthVars
  PROVE  BeatInv'
<1> USE HealthConstants
<1>1. CASE UNCHANGED healthVars
  BY <1>1, BeatStays DEF healthVars
<1>2. CASE AccountArrives \/ OnReadinessCheck \/ PingsEnd \/ ReportArrives \/ ReportIsLost
           \/ \E i \in Watched : OnQuoteTick(i)
  BY <1>2, BeatStays DEF AccountArrives, OnReadinessCheck, PingsEnd, ReportArrives, ReportIsLost,
       OnQuoteTick, healthCache, healthHistory
<1>3. CASE HealthStarts
  <2>1. /\ actors' = "up" /\ since' = second /\ beatAlert' = second + Beat
        /\ UNCHANGED <<second, flying, beatShown, faultAt>>
    BY <1>3 DEF HealthStarts
  <2> QED BY <2>1 DEF HealthTypeOK, BeatInv, LastBeat, Handed
<1>4. CASE HealthStops
  <2>1. /\ actors' # "up" /\ since' = second /\ beatAlert' = NoTime
        /\ UNCHANGED <<second, flying, beatShown, faultAt>>
    BY <1>4 DEF HealthStops
  <2> QED BY <2>1 DEF HealthTypeOK, BeatInv
<1>5. CASE HealthDies
  <2>1. /\ actors' # "up" /\ since' = second /\ beatAlert' = NoTime /\ flying' = {}
        /\ UNCHANGED <<second, beatShown, faultAt>>
    BY <1>5 DEF HealthDies
  <2> QED BY <2>1 DEF HealthTypeOK, BeatInv
<1>6. CASE OnHeartbeat
  <2>1. /\ beatAlert <= second /\ beatAlert' = second + Beat /\ flying' = flying \cup {second}
        /\ UNCHANGED <<second, actors, beatShown, since, faultAt>>
    BY <1>6 DEF OnHeartbeat, healthHistory
  <2>2. actors = "up" /\ beatAlert = second
    BY <2>1 DEF HealthTypeOK, BeatInv
  <2>3. LastBeat' = second /\ LastBeat = second - Beat /\ LastBeat \in Int /\ second \in Nat
    BY <2>1, <2>2 DEF LastBeat, HealthTypeOK
  <2>4. \A w \in flying : w <= since
    BY <2>2, <2>3 DEF BeatInv, HealthTypeOK
  <2>5. second >= since + Beat /\ since \in Nat
    BY <2>2, <2>3 DEF BeatInv, HealthTypeOK
  <2>6. Handed(second)'
    BY <2>1 DEF Handed
  <2>7. \A t : Handed(t) => Handed(t)'
    BY <2>1 DEF Handed
  <2>8. (LastBeat - Beat)' = LastBeat
    BY <2>3
  <2>9. (LastBeat - Beat > since => Handed(LastBeat - Beat))'
    <3>1. LastBeat > since => Handed(LastBeat)
      BY <2>2 DEF BeatInv
    <3>2. LastBeat > since => \E t : t = LastBeat /\ Handed(t)'
      BY <2>7, <3>1
    <3> QED BY <2>1, <2>8, <3>2 DEF Handed
  <2>10. (LastBeat > since => LastBeat >= since + Beat /\ Handed(LastBeat))'
    BY <2>1, <2>3, <2>5, <2>6 DEF Handed
  <2>11. (since <= LastBeat /\ LastBeat <= second /\ second <= beatAlert)'
    BY <2>1, <2>3, <2>5
  <2>12. (\A w \in flying : w <= since \/ w = LastBeat)'
    BY <2>1, <2>3, <2>4
  <2>13. (\A w \in flying : w <= second /\ second <= w + 1)'
    BY <2>1, <2>3 DEF BeatInv
  <2> QED BY <2>1, <2>2, <2>9, <2>10, <2>11, <2>12, <2>13 DEF BeatInv
<1>7. ASSUME NEW w \in flying, WriteArrives(w) PROVE BeatInv'
  <2>1. /\ flying' = flying \ {w} /\ beatShown' = w
        /\ UNCHANGED <<second, actors, beatAlert, since, faultAt>>
    BY <1>7 DEF WriteArrives, healthHistory
  <2>2. w \in Nat /\ w <= second /\ second <= w + 1 /\ second \in Nat
    BY DEF HealthTypeOK, BeatInv
  <2>3. CASE actors # "up"
    BY <2>1, <2>2, <2>3 DEF BeatInv
  <2>4. CASE actors = "up"
    <3>1. /\ LastBeat \in Int /\ LastBeat <= second /\ since \in Nat
          /\ w <= since \/ w = LastBeat
          /\ LastBeat > since => LastBeat >= since + Beat
      BY <2>4 DEF LastBeat, HealthTypeOK, BeatInv
    <3>2. ASSUME NEW t \in Int, t > since, t <= LastBeat, Handed(t) PROVE Handed(t)'
      BY <2>1, <2>2, <3>1, <3>2 DEF Handed
    <3>3. LastBeat - Beat \in Int /\ LastBeat - Beat <= LastBeat /\ LastBeat <= LastBeat
      BY <3>1
    <3>6. LastBeat' = LastBeat
      BY <2>1 DEF LastBeat
    <3>4. LastBeat > since => Handed(LastBeat)'
      <4>1. LastBeat > since => Handed(LastBeat)
        BY <2>4 DEF BeatInv
      <4>2. LastBeat > since => \E t \in Int : t = LastBeat /\ Handed(t)'
        BY <3>1, <3>2, <3>3, <4>1
      <4> QED BY <3>6, <4>2 DEF Handed
    <3>5. LastBeat - Beat > since => Handed(LastBeat - Beat)'
      <4>1. LastBeat - Beat > since => Handed(LastBeat - Beat)
        BY <2>4 DEF BeatInv
      <4>2. LastBeat - Beat > since => \E t \in Int : t = LastBeat - Beat /\ Handed(t)'
        BY <3>2, <3>3, <4>1
      <4> QED BY <3>6, <4>2 DEF Handed
    <3>7. (LastBeat > since => LastBeat >= since + Beat /\ Handed(LastBeat))'
      BY <2>1, <3>1, <3>4, <3>6 DEF Handed
    <3>8. (LastBeat - Beat > since => Handed(LastBeat - Beat))'
      BY <2>1, <3>5, <3>6 DEF Handed
    <3> QED BY <2>1, <2>2, <2>4, <3>6, <3>7, <3>8 DEF BeatInv
  <2> QED BY <2>3, <2>4
<1>8. ASSUME NEW w \in flying, WriteIsLost(w) PROVE BeatInv'
  <2>1. /\ flying' = flying \ {w} /\ faultAt' = second
        /\ UNCHANGED <<second, actors, beatAlert, since, beatShown>>
    BY <1>8 DEF WriteIsLost
  <2> QED BY <2>1 DEF BeatInv, HealthTypeOK, Handed, LastBeat, NoTime
<1>9. CASE SecondPasses
  <2>1. /\ second < beatAlert /\ second' = second + 1 /\ \A w \in flying : w = second
        /\ UNCHANGED <<actors, beatAlert, since, faultAt, beatShown, flying>>
    BY <1>9 DEF SecondPasses, healthHistory
  <2> QED BY <2>1 DEF BeatInv, HealthTypeOK, Handed, LastBeat, NoTime
<1> QED BY <1>1, <1>2, <1>3, <1>4, <1>5, <1>6, <1>7, <1>8, <1>9 DEF HealthNext

LEMMA DueTimes ==
  /\ \A d \in Nat : Due(d) \in Nat /\ Date(Due(d)) = d
  /\ \A c, d \in Nat : c < d => Due(c) + DayTicks <= Due(d)
<1>1. DayTicks \in Nat /\ DayTicks > 0 /\ CheckAt \in 0..(DayTicks - 1)
  BY HealthConstants
<1>2. ASSUME NEW d \in Nat PROVE Due(d) \in Nat /\ Date(Due(d)) = d
  <2>1. Due(d) \in Nat
    BY <1>1 DEF Due
  <2> QED BY <1>1, <2>1, DayAndTimeOf DEF Due, Date
<1>3. ASSUME NEW c \in Nat, NEW d \in Nat, c < d PROVE Due(c) + DayTicks <= Due(d)
  <2>1. c * DayTicks \in Nat /\ d * DayTicks \in Nat /\ c * DayTicks + DayTicks <= d * DayTicks
    BY <1>1, <1>3, DaysApart
  <2> QED BY <1>1, <2>1 DEF Due
<1> QED BY <1>2, <1>3

\* _compute_next_alert_utc names the first check after t.
LEMMA NextCheckIsNext ==
  ASSUME NEW t \in Nat
  PROVE  /\ NextCheck(t) \in Nat /\ t < NextCheck(t)
         /\ \E d \in Nat : NextCheck(t) = Due(d)
         /\ \A d \in Nat : Due(d) < NextCheck(t) => Due(d) <= t
<1> DEFINE q == Date(t)
           r == t % DayTicks
<1>1. /\ q \in Nat /\ r \in 0..(DayTicks - 1) /\ t = q * DayTicks + r
      /\ DayTicks \in Nat /\ CheckAt \in Nat /\ CheckAt < DayTicks
  BY HealthConstants, DayAndTime DEF Date
<1> HIDE DEF q, r
<1>2. /\ Due(q) \in Nat /\ Due(q + 1) \in Nat /\ q + 1 \in Nat
      /\ Due(q) = q * DayTicks + CheckAt /\ q * DayTicks \in Nat
      /\ Due(q) + DayTicks <= Due(q + 1)
  BY <1>1, DueTimes DEF Due
<1>3. CASE r < CheckAt
  <2>1. NextCheck(t) = Due(q)
    BY <1>3 DEF NextCheck, Due, q, r
  <2>2. ASSUME NEW d \in Nat, Due(d) < Due(q) PROVE Due(d) <= t
    <3>1. d < q
      <4>1. ~(q < d) /\ d # q
        BY <1>1, <1>2, <2>2, DueTimes
      <4> QED BY <1>1, <4>1
    <3>2. Due(d) \in Nat /\ Due(d) + DayTicks <= Due(q)
      BY <1>1, <3>1, DueTimes
    <3> QED BY <1>1, <1>2, <3>2
  <2> QED BY <1>1, <1>2, <1>3, <2>1, <2>2
<1>4. CASE r >= CheckAt
  <2>1. NextCheck(t) = Due(q + 1)
    BY <1>1, <1>4 DEF NextCheck, Due, q, r
  <2>2. ASSUME NEW d \in Nat, Due(d) < Due(q + 1) PROVE Due(d) <= t
    <3>1. ~(q + 1 < d) /\ d # q + 1
      BY <1>1, <1>2, <2>2, DueTimes
    <3>2. d < q \/ d = q
      BY <1>1, <3>1
    <3>3. Due(d) <= Due(q)
      BY <1>1, <1>2, <3>2, DueTimes
    <3> QED BY <1>1, <1>2, <1>4, <3>3, DueTimes
  <2> QED BY <1>1, <1>2, <1>4, <2>1, <2>2
<1> QED BY <1>1, <1>3, <1>4

LEMMA HealthTypeStep ==
  ASSUME HealthTypeOK, [HealthNext]_healthVars
  PROVE  HealthTypeOK'
<1> USE HealthConstants
<1>1. CASE UNCHANGED healthVars
  BY <1>1 DEF healthVars, HealthTypeOK
<1>2. CASE AccountArrives \/ \E i \in Watched : OnQuoteTick(i)
  BY <1>2 DEF AccountArrives, OnQuoteTick, healthCache, healthHistory, HealthTypeOK
<1>3. CASE HealthStarts
  <2>1. NextCheck(second) \in Nat
    BY NextCheckIsNext DEF HealthTypeOK
  <2> QED BY <1>3, <2>1 DEF HealthStarts, HealthTypeOK
<1>4. CASE HealthStops
  BY <1>4 DEF HealthStops, HealthTypeOK
<1>5. CASE HealthDies
  BY <1>5, NoCheckIdle DEF HealthDies, HealthTypeOK
<1>6. CASE OnHeartbeat
  BY <1>6 DEF OnHeartbeat, healthHistory, HealthTypeOK
<1>7. ASSUME NEW w \in flying, WriteArrives(w) \/ WriteIsLost(w) PROVE HealthTypeOK'
  <2>1. CASE WriteArrives(w)
    BY <2>1 DEF WriteArrives, healthHistory, HealthTypeOK
  <2>2. CASE WriteIsLost(w)
    BY <2>2 DEF WriteIsLost, HealthTypeOK
  <2> QED BY <1>7, <2>1, <2>2
<1>8. CASE OnReadinessCheck
  <2>1. NextCheck(second) \in Nat
    BY NextCheckIsNext DEF HealthTypeOK
  <2>2. FirstChecks \in BOOLEAN
    BY Zenon DEF FirstChecks
  <2> QED BY <1>8, <2>1, <2>2 DEF OnReadinessCheck, healthHistory, HealthTypeOK
<1>9. CASE PingsEnd
  <2>1. PICK b \in BOOLEAN :
          checking' = [checking EXCEPT !.step = "writing", !.passed = checking.passed /\ b
                                                /\ Date(checking.at) \in TradingDays]
    BY <1>9, Zenon DEF PingsEnd, HealthTypeOK
  <2>2. (checking.passed /\ b /\ Date(checking.at) \in TradingDays) \in BOOLEAN
    BY Zenon
  <2>3. PICK p \in BOOLEAN : checking' = [checking EXCEPT !.step = "writing", !.passed = p]
    BY <2>1, <2>2, Zenon
  <2>4. checking' \in [at : Nat, step : {"none", "pinging", "writing"}, passed : BOOLEAN]
    BY <2>3 DEF HealthTypeOK
  <2> QED BY <1>9, <2>4 DEF PingsEnd, healthHistory, HealthTypeOK
<1>10. CASE ReportArrives
  BY <1>10, NoCheckIdle DEF ReportArrives, healthHistory, HealthTypeOK
<1>11. CASE ReportIsLost
  BY <1>11, NoCheckIdle DEF ReportIsLost, HealthTypeOK
<1>12. CASE SecondPasses
  BY <1>12 DEF SecondPasses, healthHistory, HealthTypeOK
<1> QED BY <1>1, <1>2, <1>3, <1>4, <1>5, <1>6, <1>7, <1>8, <1>9, <1>10, <1>11, <1>12 DEF HealthNext

\* The steps that leave the readiness check alone.
LEMMA CheckStays ==
  ASSUME HealthTypeOK, CheckInv,
         UNCHANGED <<second, actors, checkAlert, checking, readiness, since>>,
         healthFaults' >= healthFaults
  PROVE  CheckInv'
BY DEF HealthTypeOK, CheckInv

LEMMA CheckStep ==
  ASSUME HealthTypeOK, CheckInv, [HealthNext]_healthVars
  PROVE  CheckInv'
<1> DEFINE Days == 0..Date(MaxSecond)
<1>0. /\ DOMAIN readiness = Days /\ Days \subseteq Nat /\ second \in Nat /\ since \in Nat
      /\ checkAlert \in Nat /\ checking.at \in Nat
      /\ DayTicks \in Nat /\ DayTicks >= 2 /\ second < NoTime
  BY HealthConstants DEF HealthTypeOK
<1> HIDE DEF Days
<1>1. CASE UNCHANGED healthVars
  BY <1>1, CheckStays DEF healthVars, HealthTypeOK
<1>2. CASE \/ AccountArrives \/ OnHeartbeat \/ \E i \in Watched : OnQuoteTick(i)
           \/ \E w \in flying : WriteArrives(w) \/ WriteIsLost(w)
  <2>1. UNCHANGED <<second, actors, checkAlert, checking, readiness, since>>
    BY <1>2 DEF AccountArrives, OnHeartbeat, OnQuoteTick, WriteArrives, WriteIsLost,
         healthCache, healthHistory
  <2>2. healthFaults' \in {healthFaults, healthFaults + 1}
    BY <1>2 DEF AccountArrives, OnHeartbeat, OnQuoteTick, WriteArrives, WriteIsLost,
         healthCache, healthHistory
  <2> QED BY <2>1, <2>2, CheckStays DEF HealthTypeOK
<1>3. CASE HealthStarts
  <2>1. /\ actors' = "up" /\ since' = second /\ checkAlert' = NextCheck(second)
        /\ UNCHANGED <<second, checking, readiness, healthFaults>>
    BY <1>3 DEF HealthStarts
  <2>2. /\ second <= NextCheck(second) /\ \E d \in Nat : NextCheck(second) = Due(d)
        /\ \A d \in Days : ~(second < Due(d) /\ Due(d) < NextCheck(second))
    <3>1. /\ NextCheck(second) \in Nat /\ second < NextCheck(second)
          /\ \E d \in Nat : NextCheck(second) = Due(d)
          /\ \A d \in Nat : Due(d) < NextCheck(second) => Due(d) <= second
      BY <1>0, NextCheckIsNext
    <3>2. \A d \in Nat : Due(d) \in Nat
      BY DueTimes
    <3> QED BY <1>0, <3>1, <3>2
  <2> QED BY <1>0, <2>1, <2>2 DEF CheckInv
<1>4. CASE HealthStops
  <2>1. /\ actors' # "up" /\ checkAlert' = NoTime
        /\ UNCHANGED <<second, checking, readiness>>
    BY <1>4 DEF HealthStops
  <2> QED BY <2>1 DEF CheckInv
<1>5. CASE HealthDies
  <2>1. /\ actors' # "up" /\ checkAlert' = NoTime /\ checking' = NoCheck
        /\ UNCHANGED <<second, readiness>>
    BY <1>5 DEF HealthDies
  <2> QED BY <2>1, NoCheckIdle DEF CheckInv
<1>6. CASE OnReadinessCheck
  <2>1. /\ checkAlert <= second /\ checkAlert' = NextCheck(second)
        /\ checking' = [at |-> second, step |-> "pinging", passed |-> FirstChecks]
        /\ UNCHANGED <<second, actors, since, readiness, healthFaults>>
    BY <1>6 DEF OnReadinessCheck, healthHistory
  <2>2. actors = "up" /\ checkAlert = second
    BY <1>0, <2>1 DEF CheckInv
  <2>3. /\ second <= NextCheck(second) /\ \E d \in Nat : NextCheck(second) = Due(d)
        /\ \A d \in Days : Due(d) < NextCheck(second) => Due(d) <= second
    <3>1. /\ NextCheck(second) \in Nat /\ second < NextCheck(second)
          /\ \E d \in Nat : NextCheck(second) = Due(d)
          /\ \A d \in Nat : Due(d) < NextCheck(second) => Due(d) <= second
      BY <1>0, NextCheckIsNext
    <3> QED BY <1>0, <3>1
  <2>4. PICK c \in Nat : second = Due(c)
    BY <2>2 DEF CheckInv
  <2>5. ASSUME NEW d \in Days, since < Due(d), Due(d) < NextCheck(second), healthFaults = 0
        PROVE  readiness[d] # "none" \/ second = Due(d)
    <3>1. CASE Due(d) = second
      BY <3>1
    <3>2. CASE Due(d) # second
      <4>1. Due(d) \in Nat /\ Due(d) < second
        <5>1. d \in Nat /\ Due(d) <= second
          BY <1>0, <2>3, <2>5
        <5>2. Due(d) \in Nat
          BY <5>1, DueTimes
        <5> QED BY <1>0, <3>2, <5>1, <5>2
      <4>2. d < c
        <5>1. ~(c < d) /\ c # d
          BY <1>0, <2>4, <4>1, DueTimes
        <5>2. d \in Nat
          BY <1>0
        <5> QED BY <5>1, <5>2
      <4>3. Due(d) + DayTicks <= second
        BY <1>0, <2>4, <4>2, DueTimes
      <4>4. \/ readiness[d] # "none"
            \/ checking.step # "none" /\ checking.at = Due(d)
        BY <1>0, <2>2, <2>5, <4>1 DEF CheckInv
      <4>5. checking.step # "none" => second <= checking.at + 1
        BY DEF CheckInv
      <4> QED BY <1>0, <4>1, <4>3, <4>4, <4>5
    <3> QED BY <3>1, <3>2
  <2>6. /\ checking'.at = second /\ checking'.step = "pinging"
        /\ checking'.passed => BundlesLoaded
    BY <2>1 DEF FirstChecks
  <2>7. /\ checking'.at <= second' /\ second' <= checking'.at + 1
        /\ \E d \in Nat : checking'.at = Due(d)
    BY <1>0, <2>1, <2>4, <2>6
  <2> QED BY <1>0, <2>1, <2>2, <2>3, <2>5, <2>6, <2>7 DEF CheckInv
<1>7. CASE PingsEnd
  <2>1. PICK b \in BOOLEAN :
          checking' = [checking EXCEPT !.step = "writing", !.passed = checking.passed /\ b
                                                /\ Date(checking.at) \in TradingDays]
    BY <1>7, Zenon DEF PingsEnd, HealthTypeOK
  <2>2. (checking.passed /\ b /\ Date(checking.at) \in TradingDays) \in BOOLEAN
    BY Zenon
  <2>3. PICK p \in BOOLEAN :
          /\ checking' = [checking EXCEPT !.step = "writing", !.passed = p]
          /\ p => checking.passed /\ Date(checking.at) \in TradingDays
    BY <2>1, <2>2, Zenon
  <2>4. checking'.at = checking.at /\ checking'.step = "writing" /\ checking'.passed = p
    BY <2>3 DEF HealthTypeOK
  <2>5. /\ checking.step = "pinging"
        /\ UNCHANGED <<second, actors, checkAlert, readiness, since, healthFaults>>
    BY <1>7 DEF PingsEnd, healthHistory
  <2> QED BY <1>0, <2>3, <2>4, <2>5 DEF CheckInv
<1>8. CASE ReportArrives
  <2>1. /\ checking.step = "writing" /\ checking' = NoCheck
        /\ readiness' = [readiness EXCEPT ![Date(checking.at)] =
                           IF checking.passed THEN "PASS" ELSE "FAIL"]
        /\ UNCHANGED <<second, actors, checkAlert, since, healthFaults>>
    BY <1>8 DEF ReportArrives, healthHistory
  <2>2. DOMAIN readiness' = Days
    BY <1>0, <2>1
  <2>3. ASSUME NEW d \in Days, readiness'[d] = "PASS" PROVE d \in TradingDays /\ BundlesLoaded
    <3>1. CASE d = Date(checking.at)
      <4>1. checking.passed
        BY <1>0, <2>1, <2>3, <3>1
      <4> QED BY <2>1, <3>1, <4>1 DEF CheckInv
    <3>2. CASE d # Date(checking.at)
      BY <1>0, <2>1, <2>3, <3>2 DEF CheckInv
    <3> QED BY <3>1, <3>2
  <2>4. ASSUME NEW d \in Days, actors = "up", since < Due(d), Due(d) < checkAlert, healthFaults = 0
        PROVE  readiness'[d] # "none"
    <3>1. readiness[d] # "none" \/ checking.at = Due(d)
      BY <1>0, <2>4 DEF CheckInv
    <3>2. CASE checking.at = Due(d)
      <4>1. Date(checking.at) = d
        BY <1>0, <3>2, DueTimes
      <4> QED BY <1>0, <2>1, <4>1
    <3>3. CASE readiness[d] # "none"
      BY <1>0, <2>1, <3>3
    <3> QED BY <3>1, <3>2, <3>3
  <2> QED BY <1>0, <2>1, <2>2, <2>3, <2>4, NoCheckIdle DEF CheckInv
<1>9. CASE ReportIsLost
  <2>1. /\ checking' = NoCheck /\ healthFaults' = healthFaults + 1
        /\ UNCHANGED <<second, actors, checkAlert, since, readiness>>
    BY <1>9 DEF ReportIsLost
  <2>2. healthFaults' # 0
    BY <2>1 DEF HealthTypeOK
  <2> QED BY <1>0, <2>1, <2>2, NoCheckIdle DEF CheckInv
<1>10. CASE SecondPasses
  <2>1. /\ second' = second + 1 /\ second < checkAlert
        /\ checking # NoCheck => checking.at = second
        /\ UNCHANGED <<actors, checkAlert, checking, readiness, since, healthFaults>>
    BY <1>10 DEF SecondPasses, healthHistory
  <2>2. checking.step # "none" => checking.at = second
    BY <2>1, NoCheckIdle
  <2> QED BY <1>0, <2>1, <2>2 DEF CheckInv
<1> QED BY <1>1, <1>2, <1>3, <1>4, <1>5, <1>6, <1>7, <1>8, <1>9, <1>10 DEF HealthNext

THEOREM HealthInvariant == HealthSpec => []HealthInv
<1>1. HealthInit => HealthInv
  <2>1. ASSUME HealthInit PROVE HealthTypeOK
    BY <2>1, HealthConstants, NoCheckIdle DEF HealthInit, HealthTypeOK
  <2>2. ASSUME HealthInit PROVE BeatInv /\ CheckInv
    BY <2>2, NoCheckIdle DEF HealthInit, BeatInv, CheckInv
  <2> QED BY <2>1, <2>2 DEF HealthInv
<1>2. HealthInv /\ [HealthNext]_healthVars => HealthInv'
  BY HealthTypeStep, BeatStep, CheckStep DEF HealthInv
<1> QED BY <1>1, <1>2, PTL DEF HealthSpec

\* For any interval, timeout, days and time of the check: connectivity alarms
\* (safety.py) tell the truth about the heartbeats of health_monitor.py, and every check
\* of readiness_checker.py the actors were up for leaves its report.
THEOREM HealthToldTruly == HealthSpec => []HealthIsTold
<1>1. ASSUME HealthInv PROVE AlarmIsTrue
  <2>0. /\ second \in Nat /\ since \in Nat /\ faultAt \in Nat /\ beatShown \in Nat /\ beatAlert \in Nat
        /\ second < NoTime /\ LastBeat \in Int
    BY <1>1, HealthConstants DEF HealthInv, HealthTypeOK, LastBeat
  <2>1. ASSUME actors = "up", Since(since, Beat + 1), Since(faultAt, Beat + 1) PROVE Breaker = "fresh"
    <3>1. /\ LastBeat <= second /\ second <= LastBeat + Beat
          /\ LastBeat > since => Handed(LastBeat)
          /\ LastBeat - Beat > since => Handed(LastBeat - Beat)
          /\ \A w \in flying : w <= second /\ second <= w + 1
      BY <1>1, <2>0, <2>1, HealthConstants DEF HealthInv, BeatInv, LastBeat
    <3>2. second > since + (Beat + 1) /\ second > faultAt + (Beat + 1)
      BY <2>1 DEF Since
    <3>3. Handed(LastBeat)
      BY <2>0, <3>1, <3>2, HealthConstants
    <3>4. CASE beatShown \in LastBeat..second
      BY <2>0, <3>1, <3>4, HealthConstants DEF Breaker
    <3>5. CASE LastBeat \in flying
      <4>1. second <= LastBeat + 1
        BY <3>1, <3>5
      <4>2. Handed(LastBeat - Beat)
        BY <2>0, <3>1, <3>2, <4>1, HealthConstants
      <4>3. LastBeat - Beat \notin flying
        BY <2>0, <3>1, HealthConstants
      <4>4. ~(faultAt >= LastBeat - Beat)
        BY <2>0, <3>2, <4>1, HealthConstants
      <4>5. beatShown \in (LastBeat - Beat)..second
        BY <4>2, <4>3, <4>4 DEF Handed
      <4> QED BY <2>0, <4>1, <4>5, HealthConstants DEF Breaker
    <3>6. ~(faultAt >= LastBeat)
      BY <2>0, <3>1, <3>2, HealthConstants
    <3> QED BY <3>3, <3>4, <3>5, <3>6 DEF Handed
  <2>2. ASSUME actors # "up", Since(since, BeatTimeout) PROVE Breaker # "fresh"
    <3>1. beatShown = NoTime \/ beatShown <= since
      BY <1>1, <2>2 DEF HealthInv, BeatInv
    <3>2. second > since + BeatTimeout
      BY <2>2 DEF Since
    <3> QED BY <2>0, <3>1, <3>2, HealthConstants DEF Breaker
  <2> QED BY <2>1, <2>2 DEF AlarmIsTrue
<1>2. ASSUME HealthInv, NEW d \in DOMAIN readiness
      PROVE  LET due == d * DayTicks + CheckAt IN
             /\ actors = "up" /\ since < due /\ Since(due, 1) /\ healthFaults = 0 =>
                  readiness[d] # "none"
             /\ readiness[d] = "PASS" => d \in TradingDays /\ BundlesLoaded
  <2>1. d \in Nat /\ Due(d) \in Nat /\ second \in Nat
    BY <1>2, DueTimes DEF HealthInv, HealthTypeOK
  <2>2. ASSUME actors = "up", since < Due(d), Since(Due(d), 1), healthFaults = 0
        PROVE  readiness[d] # "none"
    <3>1. second > Due(d) + 1
      BY <2>2 DEF Since
    <3>2. second <= checkAlert /\ checkAlert \in Nat
      BY <1>2, <2>2 DEF HealthInv, CheckInv, HealthTypeOK
    <3>3. Due(d) < checkAlert
      BY <2>1, <3>1, <3>2
    <3>4. \/ readiness[d] # "none"
          \/ checking.step # "none" /\ checking.at = Due(d)
      BY <1>2, <2>2, <3>3 DEF HealthInv, CheckInv
    <3>5. checking.step # "none" => second <= checking.at + 1
      BY <1>2 DEF HealthInv, CheckInv
    <3> QED BY <2>1, <3>1, <3>4, <3>5
  <2>3. readiness[d] = "PASS" => d \in TradingDays /\ BundlesLoaded
    BY <1>2 DEF HealthInv, CheckInv
  <2> QED BY <2>2, <2>3, Zenon DEF Due
<1>3. HealthInv => HealthIsTold
  BY <1>1, <1>2 DEF HealthIsTold, DaysAreChecked
<1> QED BY <1>3, HealthInvariant, PTL

-----------------------------------------------------------------------------
(* The limiter of orders *)

\* The timestamps are the end of what was placed: the first `old` have expired.
Forgotten(old) ==
  /\ old \in 0..Len(placed)
  /\ timestamps = SubSeq(placed, old + 1, Len(placed))
  /\ \A n \in 1..old : placed[n] < now - WindowSeconds

LimiterInv ==
  /\ now \in Nat /\ wakeAt \in [Callers -> Int]
  /\ placed \in Seq(Nat)
  /\ \E old \in Nat : Forgotten(old)

LEMMA LimiterConstants ==
  ASSUME LimiterAssumption
  PROVE  MaxOrders \in Nat \ {0} /\ WindowSeconds \in Nat \ {0} /\ MaxThrottleDelay \in Nat \ {0}
         /\ Instants \subseteq Nat
BY DEF LimiterAssumption

\* The end of a sequence, without its first k.
IsEndOf(s, k, e) ==
  e \in Seq(Nat) /\ Len(e) = Len(s) - k /\ e = [i \in 1..(Len(s) - k) |-> s[k + i]]
LEMMA EndOfSequence ==
  ASSUME NEW s \in Seq(Nat), NEW k \in 0..Len(s)
  PROVE  IsEndOf(s, k, SubSeq(s, k + 1, Len(s)))
<1> DEFINE n == Len(s)
           e == SubSeq(s, k + 1, n)
<1>1. n \in Nat /\ k \in 0..n /\ \A i \in (k + 1)..n : s[i] \in Nat
  BY ElementOfSeq, LenProperties
<1>2. /\ n - (k + 1) + 1 = n - k /\ n - k \in Nat /\ (k + 1 > n => n - k = 0)
      /\ \A i \in 1..(n - k) : (k + 1) + i - 1 = k + i
  BY <1>1
<1>3. e \in Seq(Nat) /\ Len(e) = n - k /\ \A i \in 1..(n - k) : e[i] = s[k + i]
  <2> HIDE DEF n
  <2>1. /\ e \in Seq(Nat) /\ Len(e) = IF k + 1 <= n THEN n - (k + 1) + 1 ELSE 0
        /\ \A i \in 1..(n - (k + 1) + 1) : e[i] = s[(k + 1) + i - 1]
    <3>1. k + 1 \in Int /\ n \in Int /\ \A i \in (k + 1)..n : s[i] \in Nat
      BY <1>1
    <3>2. PICK m \in Int : m = k + 1
      BY <3>1
    <3> HIDE DEF e
    <3>3. /\ SubSeq(s, m, n) \in Seq(Nat) /\ Len(SubSeq(s, m, n)) = IF m <= n THEN n - m + 1 ELSE 0
          /\ \A i \in 1..(n - m + 1) : SubSeq(s, m, n)[i] = s[m + i - 1]
      BY <3>1, <3>2, SubSeqProperties
    <3> QED BY <3>2, <3>3 DEF e
  <2> HIDE DEF e
  <2> QED BY <1>1, <1>2, <2>1
<1>4. e = [i \in 1..(n - k) |-> s[k + i]]
  <2>1. DOMAIN e = 1..(n - k) /\ e = [i \in DOMAIN e |-> e[i]]
    BY <1>3, LenProperties
  <2> HIDE DEF e, n
  <2> QED BY <1>3, <2>1
<1> QED BY <1>3, <1>4 DEF IsEndOf

\* What acquire keeps is a later end of what was placed.
LEMMA KeptIsAnEnd ==
  ASSUME LimiterInv, LimiterAssumption, NEW kept \in Unexpired
  PROVE  \E old \in 0..Len(placed) :
           /\ kept = SubSeq(placed, old + 1, Len(placed)) /\ Len(kept) = Len(placed) - old
           /\ \A n \in 1..old : placed[n] < now - WindowSeconds
           /\ kept # <<>> => Head(kept) = placed[old + 1] /\ Head(kept) >= now - WindowSeconds
<1> USE LimiterConstants
<1> DEFINE L == Len(placed)
<1>1. PICK before \in Nat : Forgotten(before)
  BY DEF LimiterInv
<1>2. placed \in Seq(Nat) /\ L \in Nat /\ before <= L /\ now \in Nat
  BY <1>1, LenProperties DEF LimiterInv, Forgotten
<1>3. /\ timestamps \in Seq(Nat) /\ Len(timestamps) = L - before
      /\ \A k \in 1..(L - before) : timestamps[k] = placed[before + k]
  <2>1. placed \in Seq(Nat) /\ before \in 0..Len(placed)
    BY <1>2, <1>1 DEF Forgotten
  <2>2. IsEndOf(placed, before, timestamps)
    BY <1>1, <2>1, EndOfSequence DEF Forgotten
  <2> QED BY <2>2 DEF IsEndOf
<1>4. PICK m \in Expired : kept = SubSeq(timestamps, m + 1, Len(timestamps))
  BY DEF Unexpired
<1>5. m \in 0..(L - before) /\ \A k \in 1..m : timestamps[k] < now - WindowSeconds
  BY <1>3, <1>4 DEF Expired, PastCutoff
<1>6. m < L - before => timestamps[m + 1] >= now - WindowSeconds
  <2>1. m < Len(timestamps) => ~(timestamps[m + 1] < now - WindowSeconds)
    BY <1>4 DEF Expired, PastCutoff
  <2>2. m < Len(timestamps) => timestamps[m + 1] \in Nat
    BY <1>3, <1>5, ElementOfSeq
  <2> QED BY <1>2, <1>3, <2>1, <2>2
<1> DEFINE old == before + m
           n == L - old
<1>7. old \in 0..L /\ n \in Nat
  BY <1>2, <1>5
<1>8. kept = [k \in 1..n |-> placed[old + k]]
  <2>1. kept = [k \in 1..(Len(timestamps) - m) |-> timestamps[m + k]]
    BY <1>3, <1>4, <1>5, EndOfSequence DEF IsEndOf
  <2>2. L - before - m = n /\ \A k \in 1..n : m + k \in 1..(L - before) /\ before + (m + k) = old + k
    BY <1>2, <1>5
  <2> QED BY <1>3, <2>1, <2>2
<1>9. kept = SubSeq(placed, old + 1, L)
  <2> HIDE DEF old
  <2> QED BY <1>2, <1>7, <1>8, EndOfSequence DEF IsEndOf
<1>10. Len(kept) = n
  BY <1>7, <1>8
<1>11. ASSUME NEW k \in 1..old PROVE placed[k] < now - WindowSeconds
  <2>1. CASE k <= before
    BY <1>1, <2>1, <1>2 DEF Forgotten
  <2>2. CASE k > before
    <3>1. k - before \in 1..m /\ before + (k - before) = k /\ k - before \in 1..(L - before)
      BY <1>2, <1>5, <2>2
    <3> QED BY <1>3, <1>5, <3>1
  <2> QED BY <1>2, <2>1, <2>2
<1>12. kept # <<>> => Head(kept) = placed[old + 1] /\ Head(kept) >= now - WindowSeconds
  <2>1. kept # <<>> => n >= 1
    BY <1>7, <1>8
  <2>2. n >= 1 => m < L - before /\ m + 1 \in 1..(L - before) /\ before + (m + 1) = old + 1
    BY <1>2, <1>5
  <2>3. ASSUME n >= 1 PROVE placed[old + 1] >= now - WindowSeconds
    <3>1. timestamps[m + 1] = placed[before + (m + 1)]
      BY <1>3, <2>2, <2>3
    <3>2. before + (m + 1) = old + 1
      BY <1>2, <1>5
    <3>3. timestamps[m + 1] >= now - WindowSeconds
      BY <1>6, <2>2, <2>3
    <3> HIDE DEF old
    <3> QED BY <3>1, <3>2, <3>3
  <2>4. n >= 1 => Head(kept) = placed[old + 1]
    <3> HIDE DEF n, old
    <3> QED BY <1>7, <1>8
  <2> QED BY <2>1, <2>3, <2>4
<1> QED BY <1>7, <1>9, <1>10, <1>11, <1>12

\* One more order at the end: the window that ends now holds no more than what was
\* kept, and this one.
LEMMA WindowHoldsWhatIsKept ==
  ASSUME LimiterInv, LimiterAssumption, NEW kept \in Unexpired, LetThrough(kept), now' = now
  PROVE  Cardinality(PlacedIn(now - WindowSeconds, now)') <= Len(kept) + 1
<1> USE LimiterConstants
<1> DEFINE L == Len(placed)
<1>1. PICK old \in 0..L : /\ Len(kept) = L - old
                          /\ \A n \in 1..old : placed[n] < now - WindowSeconds
  BY KeptIsAnEnd
<1>2. placed \in Seq(Nat) /\ L \in Nat /\ now \in Nat
  BY LenProperties DEF LimiterInv
<1>3. Len(placed') = L + 1 /\ placed' \in Seq(Nat) /\ \A n \in 1..L : placed'[n] = placed[n]
  BY <1>2, AppendProperties DEF LetThrough
<1>4. PICK window : window = PlacedIn(now - WindowSeconds, now)'
  OBVIOUS
<1>5. ASSUME NEW n \in window PROVE n \in (old + 1)..(L + 1)
  <2>1. n \in 1..(L + 1) /\ now - WindowSeconds < placed'[n]
    <3>1. n \in DOMAIN placed' /\ now - WindowSeconds < placed'[n]
      BY <1>4, <1>5 DEF PlacedIn
    <3> QED BY <1>3, <3>1, LenProperties
  <2>2. ASSUME n <= old PROVE FALSE
    <3>1. n \in 1..old /\ n \in 1..L
      BY <1>1, <1>2, <2>1, <2>2
    <3>2. placed[n] < now - WindowSeconds /\ placed'[n] = placed[n] /\ placed[n] \in Nat
      BY <1>1, <1>2, <1>3, <3>1, ElementOfSeq
    <3>3. PICK t \in Nat : t = placed[n]
      BY <3>2
    <3>4. t < now - WindowSeconds /\ now - WindowSeconds < t
      BY <2>1, <3>2, <3>3
    <3> QED BY <1>2, <3>4
  <2> QED BY <1>1, <1>2, <2>1, <2>2
<1>6. /\ IsFiniteSet((old + 1)..(L + 1))
      /\ Cardinality((old + 1)..(L + 1)) = L - old + 1
  <2>1. old + 1 \in Int /\ L + 1 \in Int /\ ~(old + 1 > L + 1) /\ (L + 1) - (old + 1) + 1 = L - old + 1
    BY <1>1, <1>2
  <2> HIDE DEF L
  <2> QED BY <2>1, FS_Interval
<1>7. Cardinality(window) <= L - old + 1
  <2>1. PICK S : S = (old + 1)..(L + 1)
    OBVIOUS
  <2>2. window \in SUBSET S /\ IsFiniteSet(S)
    BY <1>5, <1>6, <2>1
  <2>3. Cardinality(window) <= Cardinality(S)
    BY <2>2, FS_Subset
  <2> QED BY <1>6, <2>1, <2>3
<1> QED BY <1>1, <1>4, <1>7

LEMMA AcquireMeetsTheLimit ==
  ASSUME LimiterInv, LimiterAssumption, NEW c \in Callers, Acquire(c), placed' # placed
  PROVE  \/ Cardinality(PlacedIn(now - WindowSeconds, now)') <= MaxOrders
         \/ \E n \in DOMAIN placed : placed[n] = now - WindowSeconds
<1> USE LimiterConstants
<1>1. PICK kept \in Unexpired : (Len(kept) < MaxOrders \/ Delay(kept) = 0) /\ LetThrough(kept)
  BY DEF Acquire
<1>2. now' = now
  BY DEF Acquire
<1>3. PICK old \in 0..Len(placed) :
        /\ kept = SubSeq(placed, old + 1, Len(placed)) /\ Len(kept) = Len(placed) - old
        /\ kept # <<>> => Head(kept) = placed[old + 1] /\ Head(kept) >= now - WindowSeconds
  BY KeptIsAnEnd
<1>4. placed \in Seq(Nat) /\ Len(placed) \in Nat /\ now \in Nat /\ Len(kept) \in Nat
  BY <1>3, LenProperties DEF LimiterInv
<1>5. PICK many : many = Cardinality(PlacedIn(now - WindowSeconds, now)') /\ many <= Len(kept) + 1
  BY <1>1, <1>2, WindowHoldsWhatIsKept
<1>6. CASE Len(kept) < MaxOrders
  <2>1. PICK window : window = PlacedIn(now - WindowSeconds, now)'
    OBVIOUS
  <2>2. IsFiniteSet(window)
    <3>1. PICK m \in Nat : DOMAIN placed' = 1..m
      BY <1>1, <1>4, AppendProperties, LenProperties DEF LetThrough
    <3>2. IsFiniteSet(1..m) /\ window \in SUBSET (1..m)
      BY <2>1, <3>1, FS_Interval DEF PlacedIn
    <3> QED BY <3>2, FS_Subset
  <2>3. many \in Nat
    BY <1>5, <2>1, <2>2, FS_CardinalityType
  <2>4. many <= MaxOrders
    BY <1>4, <1>5, <1>6, <2>3
  <2> QED BY <1>5, <2>4
<1>7. CASE ~(Len(kept) < MaxOrders)
  <2>1. Delay(kept) = 0 /\ Len(kept) >= 1 /\ kept # <<>>
    BY <1>1, <1>4, <1>7
  <2>2. old + 1 \in 1..Len(placed)
    BY <1>3, <1>4, <2>1
  <2> HIDE DEF Delay
  <2>7. placed[old + 1] \in Nat
    BY <1>4, <2>2, ElementOfSeq
  <2>3. PICK t \in Nat : t = placed[old + 1] /\ t = Head(kept)
    BY <1>3, <2>1, <2>7
  <2>4. t >= now - WindowSeconds
    BY <1>3, <2>1, <2>3
  <2>5. t + WindowSeconds - now <= 0
    BY <2>1, <2>3, <1>4 DEF Delay
  <2>6. t = now - WindowSeconds
    BY <1>4, <2>4, <2>5
  <2> QED BY <1>4, <2>2, <2>3, <2>6, LenProperties
<1> QED BY <1>6, <1>7

LEMMA LimiterKeeps ==
  ASSUME LimiterInv, LimiterAssumption, [LimiterNext]_limiterVars
  PROVE  LimiterInv'
<1> USE LimiterConstants
<1>1. ASSUME NEW kept \in Unexpired, now' = now,
             (timestamps' = kept /\ placed' = placed) \/ LetThrough(kept),
             wakeAt' \in [Callers -> Int]
      PROVE  LimiterInv'
  <2>1. PICK old \in 0..Len(placed) :
          /\ kept = SubSeq(placed, old + 1, Len(placed))
          /\ \A n \in 1..old : placed[n] < now - WindowSeconds
    BY KeptIsAnEnd
  <2>2. placed \in Seq(Nat) /\ now \in Nat /\ Len(placed) \in Nat
    BY LenProperties DEF LimiterInv
  <2>3. CASE timestamps' = kept /\ placed' = placed
    <3>1. Forgotten(old)'
      BY <1>1, <2>1, <2>3 DEF Forgotten
    <3> QED BY <1>1, <2>2, <2>3, <3>1 DEF LimiterInv
  <2>4. CASE LetThrough(kept)
    <3> DEFINE L == Len(placed)
    <3>1. /\ placed' \in Seq(Nat) /\ Len(placed') = L + 1 /\ placed' = Append(placed, now)
          /\ \A n \in 1..L : placed'[n] = placed[n]
          /\ placed'[L + 1] = now
      BY <2>2, <2>4, AppendProperties DEF LetThrough
    <3>2. timestamps' = Append(kept, now)
      BY <2>4 DEF LetThrough
    <3>3. kept \in Seq(Nat) /\ Len(kept) = L - old /\ kept = [i \in 1..(L - old) |-> placed[old + i]]
      <4>1. IsEndOf(placed, old, kept)
        BY <2>1, <2>2, EndOfSequence
      <4> QED BY <4>1 DEF IsEndOf
    <3>4. SubSeq(placed', old + 1, Len(placed')) = [i \in 1..((L + 1) - old) |-> placed'[old + i]]
      <4>1. old \in 0..Len(placed')
        BY <2>1, <2>2, <3>1
      <4>2. IsEndOf(placed', old, SubSeq(placed', old + 1, Len(placed')))
        BY <3>1, <4>1, EndOfSequence
      <4> QED BY <3>1, <4>2 DEF IsEndOf
    <3>5. Append(kept, now) = [i \in 1..((L + 1) - old) |-> placed'[old + i]]
      <4>1. /\ Append(kept, now) \in Seq(Nat) /\ Len(Append(kept, now)) = (L - old) + 1
            /\ \A i \in 1..(L - old) : Append(kept, now)[i] = kept[i]
            /\ Append(kept, now)[(L - old) + 1] = now
        BY <2>2, <3>3, AppendProperties
      <4>2. PICK a : a = Append(kept, now)
        OBVIOUS
      <4>3. DOMAIN a = 1..((L + 1) - old) /\ a = [i \in DOMAIN a |-> a[i]]
        <5>1. (L - old) + 1 = (L + 1) - old
          BY <2>1, <2>2
        <5> QED BY <4>1, <4>2, <5>1, LenProperties
      <4>4. ASSUME NEW i \in 1..((L + 1) - old) PROVE a[i] = placed'[old + i]
        <5>1. CASE i \in 1..(L - old)
          <6>1. old + i \in 1..L
            BY <2>1, <2>2, <5>1
          <6> QED BY <3>1, <3>3, <4>1, <4>2, <5>1, <6>1
        <5>2. CASE i \notin 1..(L - old)
          <6>1. \A l \in Nat : \A o \in 0..l : \A j \in 1..((l + 1) - o) :
                  j \notin 1..(l - o) => j = (l - o) + 1 /\ o + j = l + 1
            OBVIOUS
          <6>2. i = (L - old) + 1 /\ old + i = L + 1
            BY <2>1, <2>2, <5>2, <6>1
          <6> HIDE DEF L
          <6> QED BY <3>1, <4>1, <4>2, <6>2
        <5> QED BY <5>1, <5>2
      <4> QED BY <4>2, <4>3, <4>4
    <3>6. \A n \in 1..old : placed'[n] < now - WindowSeconds
      <4>1. \A n \in 1..old : n \in 1..L
        BY <2>1, <2>2
      <4> QED BY <2>1, <3>1, <4>1
    <3>7. old \in 0..Len(placed') /\ old \in Nat
      BY <2>1, <2>2, <3>1
    <3> HIDE DEF L
    <3>8. Forgotten(old)'
      BY <1>1, <3>2, <3>4, <3>5, <3>6, <3>7 DEF Forgotten
    <3> QED BY <1>1, <2>2, <3>1, <3>7, <3>8 DEF LimiterInv
  <2> QED BY <1>1, <2>3, <2>4
<1>2. ASSUME NEW c \in Callers, Acquire(c) PROVE LimiterInv'
  <2>1. PICK kept \in Unexpired :
          IF Len(kept) < MaxOrders \/ Delay(kept) = 0
          THEN LetThrough(kept) /\ UNCHANGED wakeAt
          ELSE /\ timestamps' = kept /\ UNCHANGED placed
               /\ wakeAt' = [wakeAt EXCEPT ![c] = now + Delay(kept)]
    BY <1>2 DEF Acquire
  <2>2. now' = now
    BY <1>2 DEF Acquire
  <2>3. wakeAt' \in [Callers -> Int]
    <3>1. CASE UNCHANGED wakeAt
      BY <3>1 DEF LimiterInv
    <3>2. CASE wakeAt' = [wakeAt EXCEPT ![c] = now + Delay(kept)] /\ ~(Len(kept) < MaxOrders)
      <4>1. PICK old \in 0..Len(placed) :
              /\ kept = SubSeq(placed, old + 1, Len(placed)) /\ Len(kept) = Len(placed) - old
              /\ kept # <<>> => Head(kept) = placed[old + 1]
        BY KeptIsAnEnd
      <4>2. placed \in Seq(Nat) /\ Len(placed) \in Nat /\ now \in Nat
        BY LenProperties DEF LimiterInv
      <4>3. Len(kept) >= 1 /\ MaxOrders >= 1
        BY <3>2, <4>1, <4>2
      <4>4. kept # <<>>
        BY <4>3
      <4>5. kept # <<>> /\ old + 1 \in 1..Len(placed)
        BY <4>1, <4>2, <4>3, <4>4
      <4>6. Head(kept) \in Nat
        BY <4>1, <4>2, <4>5, ElementOfSeq
      <4>7. PICK h \in Nat : h = Head(kept)
        BY <4>6
      <4>8. Delay(kept) \in Int
        BY <4>2, <4>7 DEF Delay
      <4>9. now + Delay(kept) \in Int
        BY <4>2, <4>8
      <4> QED BY <3>2, <4>9 DEF LimiterInv
    <3> QED BY <2>1, <3>1, <3>2
  <2>4. (timestamps' = kept /\ placed' = placed) \/ LetThrough(kept)
    BY <2>1
  <2> QED BY <1>1, <2>2, <2>3, <2>4
<1>3. ASSUME NEW c \in Callers, Resume(c) PROVE LimiterInv'
  <2>1. wakeAt' \in [Callers -> Int] /\ now' = now
    BY <1>3 DEF Resume, LimiterInv, Awake
  <2>2. PICK kept \in Unexpired : LetThrough(kept)
    BY <1>3 DEF Resume
  <2> QED BY <1>1, <2>1, <2>2
<1>4. CASE TimePasses
  <2>1. now' \in Nat /\ now' > now /\ now \in Nat /\ UNCHANGED <<timestamps, wakeAt, placed>>
    BY <1>4 DEF TimePasses, LimiterInv
  <2>2. PICK old \in Nat : Forgotten(old)
    BY DEF LimiterInv
  <2>3. ASSUME NEW n \in 1..old PROVE placed[n] < now' - WindowSeconds
    <3>1. placed[n] < now - WindowSeconds /\ n \in 1..Len(placed)
      BY <2>2, LenProperties DEF Forgotten, LimiterInv
    <3>2. PICK t \in Nat : t = placed[n]
      BY <3>1, ElementOfSeq DEF LimiterInv
    <3> QED BY <2>1, <3>1, <3>2
  <2>4. Forgotten(old)'
    BY <2>1, <2>2, <2>3 DEF Forgotten
  <2> QED BY <2>1, <2>4 DEF LimiterInv
<1>5. CASE UNCHANGED limiterVars
  BY <1>5 DEF limiterVars, LimiterInv, Forgotten
<1> QED BY <1>2, <1>3, <1>4, <1>5 DEF LimiterNext

\* An order let through without a sleep never makes the window that ends with it
\* exceed the limit, whatever the tasks asleep have done and will do, unless one was
\* let through a window ago to the instant: for any limit, window, cap of the sleep,
\* callers and times (adapters/futu/execution.py, OrderRateLimiter.acquire).
THEOREM ImmediateOrdersMeetTheLimit == LimiterSpec => ImmediateWithinLimit
<1> USE LimiterAssumption, LimiterConstants
<1> DEFINE Meets == \/ Cardinality(PlacedIn(now - WindowSeconds, now)') <= MaxOrders
                    \/ \E n \in DOMAIN placed : placed[n] = now - WindowSeconds
<1>1. LimiterInit => LimiterInv
  <2> SUFFICES ASSUME LimiterInit PROVE LimiterInv
    OBVIOUS
  <2>1. placed = <<>> /\ timestamps = <<>> /\ now = 1 /\ wakeAt \in [Callers -> Int]
    BY DEF LimiterInit, Awake
  <2>2. placed \in Seq(Nat) /\ Len(placed) = 0
    BY <2>1, EmptySeq
  <2>3. SubSeq(placed, 1, 0) = <<>>
    BY SubSeqEmpty
  <2>4. Forgotten(0)
    BY <2>1, <2>2, <2>3 DEF Forgotten
  <2> QED BY <2>1, <2>2, <2>4 DEF LimiterInv
<1>2. LimiterInv /\ [LimiterNext]_limiterVars => LimiterInv'
  BY LimiterKeeps
<1>3. LimiterInv /\ [LimiterNext]_limiterVars => [placed' # placed /\ wakeAt' = wakeAt => Meets]_limiterVars
  <2> SUFFICES ASSUME LimiterInv, LimiterNext, placed' # placed, wakeAt' = wakeAt PROVE Meets
    BY DEF limiterVars
  <2>1. ASSUME NEW c \in Callers, Resume(c) PROVE FALSE
    BY <2>1 DEF Resume, LimiterInv
  <2>2. ~TimePasses
    BY DEF TimePasses
  <2>3. PICK c \in Callers : Acquire(c)
    BY <2>1, <2>2 DEF LimiterNext
  <2> QED BY <2>3, AcquireMeetsTheLimit
<1> QED BY <1>1, <1>2, <1>3, PTL DEF LimiterSpec, ImmediateWithinLimit

-----------------------------------------------------------------------------
(* The journal *)

\* Every fill is stored, or on its way, or known to be lost; a task that has come to the
\* fill has its order's row; and what is stored was made.
Fill == [of : Holdings, qty : {-1, 1}]
Tasks == [trade : Trades, step : {"order", "fill"}]
UnderWay == {task.trade : task \in persisting}
FillsInv ==
  /\ made \in Seq(Fill)
  /\ persisting \subseteq Tasks
  /\ fillRows \in Seq(Trades) /\ IsInjective(fillRows)
  /\ lost \subseteq Trades
  /\ Trades \subseteq StoredTrades \cup lost \cup UnderWay
RowsInv ==
  /\ DOMAIN orderRows = Holdings
  /\ \A trade \in StoredTrades : orderRows[made[trade].of] # NoRow
  /\ \A task \in persisting : task.step = "fill" => orderRows[made[task.trade].of] # NoRow

\* A position row is right once it is written, until the position changes; and an
\* instrument without a position in the cache is flat.
PositionsInv ==
  /\ cached \subseteq Holdings /\ todo \subseteq cached /\ dirty \subseteq Holdings
  /\ DOMAIN positionRows = Holdings
  /\ \A i \in cached \ (dirty \cup todo) : positionRows[i] = Net(i, Trades)
  /\ \A i \in Holdings \ cached : Net(i, Trades) = 0

\* The sections so far have stored trades, each no fewer than those before it unless its
\* query failed; of a calm report each has every fill it asked for, and nothing is on
\* its way.
Grows(r, all) ==
  /\ r.pnl.trades \subseteq all /\ r.fills.trades \subseteq all /\ r.drawdown.trades \subseteq all
  /\ r.at \in {"fills", "drawdown", "positions"} /\ ~r.fills.failed => r.pnl.trades \subseteq r.fills.trades
  /\ r.at \in {"drawdown", "positions"} /\ ~r.drawdown.failed /\ r.drawdown.totals = {} =>
       r.pnl.trades \cup r.fills.trades \subseteq r.drawdown.trades
Calm(r) ==
  r.calm =>
    /\ persisting = {} /\ lost = {}
    /\ r.at # "none" /\ ~r.pnl.failed => r.pnl.trades = {t \in Trades : made[t].of \notin r.pnl.totals}
    /\ r.at \in {"fills", "drawdown", "positions"} /\ ~r.fills.failed => r.fills.trades = Trades
    /\ r.at \in {"drawdown", "positions"} /\ ~r.drawdown.failed /\ r.drawdown.totals = {} =>
         r.drawdown.trades = Trades
    /\ r.at = "positions" => r.open = {i \in Holdings : Net(i, Trades) # 0}
SectionType == [totals : SUBSET Holdings, trades : SUBSET Nat, failed : BOOLEAN]
Report == [at : {"none", "pnl", "fills", "drawdown", "positions"}, pnl : SectionType, fills : SectionType,
           drawdown : SectionType, open : SUBSET Holdings, calm : BOOLEAN]
ReportInv ==
  /\ totals \subseteq Holdings
  /\ report \in Report /\ Grows(report, StoredTrades) /\ Calm(report)
DailyInv ==
  /\ SectionsAgree(dailyReport)
  /\ dailyReport.pnl.trades \subseteq Trades /\ dailyReport.fills.trades \subseteq Trades

JournalInv == FillsInv /\ RowsInv /\ PositionsInv /\ ReportInv /\ DailyInv

\* No quantities add up to 0.
LEMMA NothingSums ==
  ASSUME NEW f, DOMAIN f = {}
  PROVE  SumFunction(f) = 0
<1> DEFINE Sums(iter) == [s \in SUBSET {} |->
                            IF s = {} THEN 0
                            ELSE LET x == CHOOSE x \in s : TRUE IN f[x] + iter[s \ {x}]]
           sum == CHOOSE iter : iter = Sums(iter)
<1>1. sum = Sums(sum)
  <2>1. [s \in SUBSET {} |-> 0] = Sums([s \in SUBSET {} |-> 0])
    OBVIOUS
  <2> HIDE DEF Sums
  <2> QED BY <2>1
<1>2. SumFunction(f) = sum[{}]
  BY DEF SumFunction, SumFunctionOnSet, FoldFunctionOnSet, MapThenFoldSet
<1>3. Sums(sum)[{}] = 0
  OBVIOUS
<1> HIDE DEF Sums, sum
<1> QED BY <1>1, <1>2, <1>3

LEMMA JournalTypes ==
  ASSUME FillsInv
  PROVE  /\ StoredTrades \subseteq Trades /\ Trades = 1..Len(made) /\ Len(made) \in Nat
         /\ \A trade \in Trades : made[trade] \in Fill /\ made[trade].of \in Holdings
<1>1. StoredTrades \subseteq Trades
  <2>1. \A row \in DOMAIN fillRows : fillRows[row] \in Trades
    BY ElementOfSeq, LenProperties DEF FillsInv
  <2> QED BY <2>1 DEF StoredTrades, Range
<1>2. Trades = 1..Len(made) /\ Len(made) \in Nat
  BY LenProperties DEF FillsInv, Trades
<1>3. \A trade \in Trades : made[trade] \in Fill
  BY <1>2, ElementOfSeq DEF FillsInv
<1> QED BY <1>1, <1>2, <1>3 DEF Fill

\* While the fills stay as they are, so do the quantities they add up to.
LEMMA NetIsOfTheFills ==
  ASSUME made' = made, NEW i, NEW trades
  PROVE  Net(i, trades)' = Net(i, trades)
BY DEF Net, FillsOf

LEMMA NetStays ==
  ASSUME made' = made
  PROVE  Trades' = Trades /\ \A i : Net(i, Trades)' = Net(i, Trades)
BY DEF Net, FillsOf, Trades

\* A new fill adds to one instrument; and nothing that was summed up before changes.
LEMMA FillAddsOne ==
  ASSUME FillsInv, NEW i \in Holdings, NEW qty \in {-1, 1}, made' = Append(made, [of |-> i, qty |-> qty])
  PROVE  /\ made' \in Seq(Fill) /\ Trades' = Trades \cup {Len(made) + 1} /\ Len(made) + 1 \notin Trades
         /\ \A trade \in Trades : made'[trade] = made[trade]
         /\ \A j \in Holdings \ {i} : Net(j, Trades)' = Net(j, Trades)
         /\ \A j : \A trades \in SUBSET Trades : Net(j, trades)' = Net(j, trades)
<1> DEFINE n == Len(made)
           f == [of |-> i, qty |-> qty]
<1>1. made \in Seq(Fill) /\ f \in Fill /\ Trades = 1..n /\ n \in Nat
  BY JournalTypes DEF FillsInv, Fill
<1>2. /\ made' \in Seq(Fill) /\ Len(made') = n + 1
      /\ \A trade \in 1..n : made'[trade] = made[trade]
      /\ made'[n + 1] = f
  BY <1>1, AppendProperties
<1>3. Trades' = Trades \cup {n + 1} /\ n + 1 \notin Trades
  <2>1. Trades' = 1..(n + 1)
    BY <1>2, LenProperties DEF Trades
  <2> QED BY <1>1, <2>1
<1>4. \A trade \in Trades : made'[trade] = made[trade]
  BY <1>1, <1>2
<1>5. ASSUME NEW j, NEW trades \in SUBSET Trades PROVE Net(j, trades)' = Net(j, trades)
  <2>1. FillsOf(j, trades)' = FillsOf(j, trades)
    BY <1>4 DEF FillsOf
  <2>2. [t \in FillsOf(j, trades)' |-> made'[t].qty] = [t \in FillsOf(j, trades) |-> made[t].qty]
    <3>1. PICK S : S = FillsOf(j, trades) /\ S = FillsOf(j, trades)'
      BY <2>1
    <3>2. \A t \in S : made'[t] = made[t]
      BY <1>4, <3>1 DEF FillsOf
    <3>3. [t \in S |-> made'[t].qty] = [t \in S |-> made[t].qty]
      BY <3>2
    <3> QED BY <3>1, <3>3
  <2> QED BY <2>2 DEF Net
<1>6. ASSUME NEW j \in Holdings \ {i} PROVE Net(j, Trades)' = Net(j, Trades)
  <2>1. FillsOf(j, Trades)' = FillsOf(j, Trades)
    <3>1. FillsOf(j, Trades)' = {t \in Trades \cup {n + 1} : made'[t].of = j}
      BY <1>3 DEF FillsOf
    <3>2. made'[n + 1].of # j
      BY <1>2, <1>6
    <3> QED BY <1>4, <3>1, <3>2 DEF FillsOf
  <2>2. [t \in FillsOf(j, Trades)' |-> made'[t].qty] = [t \in FillsOf(j, Trades) |-> made[t].qty]
    <3>1. PICK S : S = FillsOf(j, Trades) /\ S = FillsOf(j, Trades)'
      BY <2>1
    <3>2. \A t \in S : made'[t] = made[t]
      BY <1>4, <3>1 DEF FillsOf
    <3>3. [t \in S |-> made'[t].qty] = [t \in S |-> made[t].qty]
      BY <3>2
    <3> QED BY <3>1, <3>3
  <2> QED BY <2>2 DEF Net
<1> QED BY <1>2, <1>3, <1>4, <1>5, <1>6

LEMMA OrderFilledKeeps ==
  ASSUME JournalInv, NEW i \in Holdings, NEW qty \in {-1, 1}, OrderFilled(i, qty)
  PROVE  JournalInv'
<1> DEFINE n == Len(made)
<1>1. /\ made' = Append(made, [of |-> i, qty |-> qty])
      /\ cached' = cached \cup {i} /\ dirty' = dirty \cup {i} /\ report' = Disturbed
      /\ Taken(n + 1)
      /\ UNCHANGED <<orderRows, fillRows, todo, positionRows, totals, dailyReport>>
  BY DEF OrderFilled, snapshots
<1>2. FillsInv
  BY DEF JournalInv
<1>3. /\ made' \in Seq(Fill) /\ Trades' = Trades \cup {n + 1} /\ n + 1 \notin Trades
      /\ \A trade \in Trades : made'[trade] = made[trade]
  BY <1>1, <1>2, FillAddsOne
<1>4. \A j \in Holdings \ {i} : Net(j, Trades)' = Net(j, Trades)
  BY <1>1, <1>2, FillAddsOne
<1>5. \A j : \A trades \in SUBSET Trades : Net(j, trades)' = Net(j, trades)
  BY <1>1, <1>2, FillAddsOne
<1>6. StoredTrades' = StoredTrades /\ StoredTrades \subseteq Trades
  BY <1>1, <1>2, JournalTypes DEF StoredTrades
<1>7. \/ persisting' = persisting \cup {[trade |-> n + 1, step |-> "order"]} /\ lost' = lost
      \/ persisting' = persisting /\ lost' = lost \cup {n + 1}
  BY <1>1, <1>3, <1>6 DEF Taken
<1>8. FillsInv'
  <2>1. persisting' \subseteq Tasks' /\ lost' \subseteq Trades'
    BY <1>2, <1>3, <1>7 DEF FillsInv, Tasks
  <2>2. fillRows' \in Seq(Trades') /\ IsInjective(fillRows)'
    <3>1. fillRows \in Seq(Trades \cup {n + 1})
      BY <1>2 DEF FillsInv
    <3> QED BY <1>1, <1>2, <1>3, <3>1 DEF FillsInv, IsInjective
  <2>3. UnderWay \subseteq UnderWay' /\ lost \subseteq lost' /\ (n + 1 \in lost' \/ n + 1 \in UnderWay')
    BY <1>7 DEF UnderWay
  <2>4. Trades' \subseteq StoredTrades' \cup lost' \cup UnderWay'
    BY <1>2, <1>3, <1>6, <2>3 DEF FillsInv
  <2> QED BY <1>3, <2>1, <2>2, <2>4 DEF FillsInv
<1>9. RowsInv'
  <2>1. \A trade \in StoredTrades : made'[trade] = made[trade]
    BY <1>3, <1>6
  <2>2. \A task \in persisting : made'[task.trade] = made[task.trade]
    BY <1>2, <1>3 DEF FillsInv, Tasks
  <2>3. \A task \in persisting' : task.step = "fill" => task \in persisting
    BY <1>7
  <2> QED BY <1>1, <1>6, <2>1, <2>2, <2>3 DEF JournalInv, RowsInv
<1>10. PositionsInv'
  <2>1. ASSUME NEW j \in cached' \ (dirty' \cup todo') PROVE positionRows'[j] = Net(j, Trades)'
    <3>1. j \in Holdings \ {i} /\ j \in cached \ (dirty \cup todo)
      BY <1>1, <2>1 DEF JournalInv, PositionsInv
    <3>2. positionRows[j] = Net(j, Trades)
      BY <3>1 DEF JournalInv, PositionsInv
    <3> QED BY <1>1, <1>4, <3>1, <3>2
  <2>2. ASSUME NEW j \in Holdings \ cached' PROVE Net(j, Trades)' = 0
    <3>1. j \in Holdings \ {i} /\ j \in Holdings \ cached
      BY <1>1, <2>2
    <3>2. Net(j, Trades) = 0
      BY <3>1 DEF JournalInv, PositionsInv
    <3> QED BY <1>4, <3>1, <3>2
  <2> QED BY <1>1, <2>1, <2>2 DEF JournalInv, PositionsInv
<1>11. ReportInv'
  <2>1. /\ report' \in Report /\ ~report'.calm
        /\ report'.at = report.at /\ report'.pnl = report.pnl /\ report'.fills = report.fills
        /\ report'.drawdown = report.drawdown
    BY <1>1 DEF JournalInv, ReportInv, Disturbed, Report
  <2>2. Grows(report', StoredTrades)
    BY <2>1 DEF JournalInv, ReportInv, Grows
  <2> QED BY <1>1, <1>6, <2>1, <2>2 DEF JournalInv, ReportInv, Grows, Calm
<1>12. DailyInv'
  <2>1. PICK r : r = dailyReport /\ r = dailyReport'
    BY <1>1
  <2>2. r.pnl.trades \in SUBSET Trades /\ r.fills.trades \in SUBSET Trades /\ SectionsAgree(r)
    BY <2>1 DEF JournalInv, DailyInv
  <2>3. \A j : Net(j, r.fills.trades)' = Net(j, r.fills.trades)
    <3>1. PICK trades \in SUBSET Trades : trades = r.fills.trades
      BY <2>2
    <3>2. \A j : Net(j, trades)' = Net(j, trades)
      BY <1>5
    <3> QED BY <3>1, <3>2 DEF Net, FillsOf
  <2>4. {t \in r.fills.trades : made'[t].of \notin r.pnl.totals} = {t \in r.fills.trades : made[t].of \notin r.pnl.totals}
    BY <1>3, <2>2
  <2>5. SectionsAgree(r)'
    BY <2>2, <2>3, <2>4 DEF SectionsAgree
  <2>6. r.pnl.trades \subseteq Trades' /\ r.fills.trades \subseteq Trades'
    BY <1>3, <2>2
  <2> QED BY <2>1, <2>5, <2>6 DEF DailyInv, SectionsAgree
<1> QED BY <1>8, <1>9, <1>10, <1>11, <1>12 DEF JournalInv

\* What leaves the fills, and the tables of positions and reports, as they are.
LEMMA TablesStay ==
  ASSUME PositionsInv, DailyInv, UNCHANGED <<made, cached, todo, positionRows, dirty, dailyReport>>
  PROVE  PositionsInv' /\ DailyInv'
<1>1. Trades' = Trades /\ \A i : Net(i, Trades)' = Net(i, Trades)
  BY NetStays
<1>2. PositionsInv'
  BY <1>1 DEF PositionsInv
<1>3. DailyInv'
  BY <1>1 DEF DailyInv, SectionsAgree, Net, FillsOf
<1> QED BY <1>2, <1>3

\* A report stays what it is while what is stored can only grow, and none that is calm
\* meets a change.
LEMMA ReportStays ==
  ASSUME ReportInv, UNCHANGED <<made, cached, totals, report>>, StoredTrades \subseteq StoredTrades',
         report.calm => persisting' = {} /\ lost' = {}
  PROVE  ReportInv'
<1>1. Trades' = Trades /\ \A i : Net(i, Trades)' = Net(i, Trades)
  BY NetStays
<1>2. Grows(report, StoredTrades')
  BY DEF ReportInv, Grows
<1>3. PICK r : r = report /\ r = report'
  OBVIOUS
<1>4. Calm(r)'
  BY <1>1, <1>3 DEF ReportInv, Calm
<1> QED BY <1>2, <1>3, <1>4 DEF ReportInv, Grows, Calm

LEMMA FillReplayedKeeps ==
  ASSUME JournalInv, NEW trade \in Trades, FillReplayed(trade)
  PROVE  JournalInv'
<1>1. /\ UNCHANGED <<made, cached, orderRows, fillRows, todo, positionRows, dirty, totals, dailyReport>>
      /\ report' = Disturbed /\ Taken(trade)
  BY DEF FillReplayed, snapshots
<1>2. Trades' = Trades /\ StoredTrades' = StoredTrades
  BY <1>1 DEF Trades, StoredTrades
<1>3. \/ persisting' = persisting \cup {[trade |-> trade, step |-> "order"]} /\ lost' = lost
      \/ persisting' = persisting /\ lost' = lost \cup ({trade} \ StoredTrades)
  BY <1>1 DEF Taken
<1>4. FillsInv'
  <2>1. persisting' \subseteq Tasks' /\ lost' \subseteq Trades'
    BY <1>2, <1>3 DEF JournalInv, FillsInv, Tasks
  <2>2. UnderWay \subseteq UnderWay' /\ lost \subseteq lost'
    BY <1>3 DEF UnderWay
  <2>3. IsInjective(fillRows)'
    BY <1>1 DEF JournalInv, FillsInv, IsInjective
  <2> QED BY <1>1, <1>2, <2>1, <2>2, <2>3 DEF JournalInv, FillsInv
<1>5. RowsInv'
  <2>1. \A task \in persisting' : task.step = "fill" => task \in persisting
    BY <1>3
  <2> QED BY <1>1, <1>2, <2>1 DEF JournalInv, RowsInv
<1>6. ReportInv'
  <2>1. /\ report' \in Report /\ ~report'.calm
        /\ report'.at = report.at /\ report'.pnl = report.pnl /\ report'.fills = report.fills
        /\ report'.drawdown = report.drawdown
    BY <1>1 DEF JournalInv, ReportInv, Disturbed, Report
  <2>2. Grows(report', StoredTrades)
    BY <2>1 DEF JournalInv, ReportInv, Grows
  <2> QED BY <1>1, <1>2, <2>1, <2>2 DEF JournalInv, ReportInv, Grows, Calm
<1> QED BY <1>1, <1>4, <1>5, <1>6, TablesStay DEF JournalInv

LEMMA TotalStoredKeeps ==
  ASSUME JournalInv, NEW i \in Holdings, TotalStored(i)
  PROVE  JournalInv'
<1>1. /\ UNCHANGED <<made, cached, persisting, orderRows, fillRows, lost, todo, positionRows, dirty,
                     dailyReport>>
      /\ totals' = totals \cup {i} /\ report' = Disturbed
  BY DEF TotalStored, snapshots
<1>2. Trades' = Trades /\ StoredTrades' = StoredTrades /\ UnderWay' = UnderWay
  BY <1>1 DEF Trades, StoredTrades, UnderWay
<1>3. FillsInv' /\ RowsInv'
  BY <1>1, <1>2 DEF JournalInv, FillsInv, RowsInv, Tasks, IsInjective
<1>4. ReportInv'
  <2>1. /\ report' \in Report /\ ~report'.calm
        /\ report'.at = report.at /\ report'.pnl = report.pnl /\ report'.fills = report.fills
        /\ report'.drawdown = report.drawdown
    BY <1>1 DEF JournalInv, ReportInv, Disturbed, Report
  <2>2. Grows(report', StoredTrades)
    BY <2>1 DEF JournalInv, ReportInv, Grows
  <2> QED BY <1>1, <1>2, <2>1, <2>2 DEF JournalInv, ReportInv, Grows, Calm
<1> QED BY <1>1, <1>3, <1>4, TablesStay DEF JournalInv

LEMMA TasksKeep ==
  ASSUME JournalInv, JournalAssumption, NEW task \in persisting, UpsertOrder(task) \/ WriteFill(task) \/ PersistFails(task)
  PROVE  JournalInv'
<1>1. UNCHANGED <<made, cached, todo, positionRows, dirty, totals, report, dailyReport>>
  BY DEF UpsertOrder, WriteFill, PersistFails, snapshots
<1>2. Trades' = Trades
  BY <1>1 DEF Trades
<1>3. task \in Tasks /\ ~report.calm /\ FillsInv
  BY DEF JournalInv, FillsInv, ReportInv, Calm
<1>4. \A trade \in Trades : made[trade].of \in Holdings
  BY <1>3, JournalTypes
<1>5. CASE UpsertOrder(task)
  <2> DEFINE next == [task EXCEPT !.step = "fill"]
             i == made[task.trade].of
  <2>1. /\ task.step = "order" /\ UNCHANGED <<fillRows, lost>>
        /\ orderRows' = IF orderRows[i] = NoRow THEN [orderRows EXCEPT ![i] = StatusOf(i)] ELSE orderRows
        /\ persisting' = (persisting \ {task}) \cup {next}
    BY <1>5 DEF UpsertOrder
  <2>2. next \in Tasks /\ next.trade = task.trade
    BY <1>3 DEF Tasks
  <2>3. StoredTrades' = StoredTrades
    BY <2>1 DEF StoredTrades
  <2>4. FillsInv'
    <3>1. UnderWay \subseteq UnderWay'
      BY <2>1, <2>2 DEF UnderWay
    <3>2. persisting' \subseteq Tasks'
      BY <1>2, <2>1, <2>2 DEF JournalInv, FillsInv, Tasks
    <3>3. IsInjective(fillRows)'
      BY <2>1 DEF JournalInv, FillsInv, IsInjective
    <3> QED BY <1>1, <1>2, <2>1, <2>3, <3>1, <3>2, <3>3 DEF JournalInv, FillsInv
  <2>5. StatusOf(i) # NoRow
    BY DEF StatusOf, JournalAssumption
  <2>6. DOMAIN orderRows' = Holdings /\ orderRows'[i] # NoRow
        /\ \A j \in Holdings : orderRows[j] # NoRow => orderRows'[j] # NoRow
    BY <1>3, <1>4, <2>1, <2>5 DEF JournalInv, RowsInv, Tasks
  <2>7. RowsInv'
    <3>1. \A trade \in StoredTrades : orderRows'[made[trade].of] # NoRow
      BY <1>3, <1>4, <2>6, JournalTypes DEF JournalInv, RowsInv
    <3>2. ASSUME NEW t \in persisting', t.step = "fill" PROVE orderRows'[made[t.trade].of] # NoRow
      <4>1. CASE t = next
        BY <2>2, <2>6, <4>1
      <4>2. CASE t \in persisting
        <5>1. t.trade \in Trades
          BY <1>3, <4>2 DEF FillsInv, Tasks
        <5> QED BY <1>4, <2>6, <3>2, <4>2, <5>1 DEF JournalInv, RowsInv
      <4> QED BY <2>1, <4>1, <4>2
    <3> QED BY <1>1, <2>3, <2>6, <3>1, <3>2 DEF RowsInv
  <2>8. ReportInv'
    BY <1>1, <1>3, <2>3, ReportStays DEF JournalInv
  <2> QED BY <1>1, <2>4, <2>7, <2>8, TablesStay DEF JournalInv
<1>6. CASE WriteFill(task)
  <2>1. /\ task.step = "fill" /\ UNCHANGED orderRows
        /\ fillRows' = IF task.trade \in StoredTrades THEN fillRows ELSE Append(fillRows, task.trade)
        /\ persisting' = persisting \ {task} /\ lost' = lost \ {task.trade}
    BY <1>6 DEF WriteFill
  <2> DEFINE trade == task.trade
             m == Len(fillRows)
  <2>2. trade \in Trades /\ fillRows \in Seq(Trades) /\ m \in Nat /\ DOMAIN fillRows = 1..m
    BY <1>3, LenProperties DEF FillsInv, Tasks
  <2>3. /\ fillRows' \in Seq(Trades) /\ IsInjective(fillRows')
        /\ StoredTrades' = StoredTrades \cup {trade}
    <3>1. CASE trade \in StoredTrades
      BY <1>3, <2>1, <2>2, <3>1 DEF FillsInv, StoredTrades
    <3>2. CASE trade \notin StoredTrades
      <4>1. /\ fillRows' \in Seq(Trades) /\ Len(fillRows') = m + 1
            /\ \A row \in 1..m : fillRows'[row] = fillRows[row]
            /\ fillRows'[m + 1] = trade
        BY <2>1, <2>2, <3>2, AppendProperties
      <4>2. DOMAIN fillRows' = 1..(m + 1)
        BY <4>1, LenProperties
      <4>3. \A row \in 1..m : fillRows[row] # trade
        BY <2>2, <3>2 DEF StoredTrades, Range
      <4>4. \A row \in 1..(m + 1) : row \in 1..m \/ row = m + 1
        BY <2>2
      <4>5. IsInjective(fillRows')
        <5> SUFFICES ASSUME NEW a \in 1..(m + 1), NEW b \in 1..(m + 1), fillRows'[a] = fillRows'[b] PROVE a = b
          BY <4>2 DEF IsInjective
        <5>1. CASE a \in 1..m /\ b \in 1..m
          BY <1>3, <2>2, <4>1, <5>1 DEF FillsInv, IsInjective
        <5>2. CASE a = m + 1 \/ b = m + 1
          BY <4>1, <4>3, <4>4, <5>2
        <5> QED BY <4>4, <5>1, <5>2
      <4>6. StoredTrades' = StoredTrades \cup {trade}
        <5>1. StoredTrades' = {fillRows'[row] : row \in 1..(m + 1)}
          BY <4>2 DEF StoredTrades, Range
        <5>2. StoredTrades = {fillRows[row] : row \in 1..m}
          BY <2>2 DEF StoredTrades, Range
        <5>3. 1..m \subseteq 1..(m + 1) /\ m + 1 \in 1..(m + 1)
          BY <2>2
        <5> QED BY <4>1, <4>4, <5>1, <5>2, <5>3
      <4> QED BY <4>1, <4>5, <4>6
    <3> QED BY <3>1, <3>2
  <2>4. FillsInv'
    <3>1. UnderWay \subseteq UnderWay' \cup {trade}
      BY <2>1 DEF UnderWay
    <3>2. Trades' \subseteq StoredTrades' \cup lost' \cup UnderWay'
      BY <1>2, <1>3, <2>1, <2>3, <3>1 DEF FillsInv
    <3>3. persisting' \subseteq Tasks' /\ lost' \subseteq Trades'
      BY <1>2, <1>3, <2>1 DEF FillsInv, Tasks
    <3>4. IsInjective(fillRows)'
      BY <2>3 DEF IsInjective
    <3> QED BY <1>1, <1>2, <1>3, <2>3, <3>2, <3>3, <3>4 DEF FillsInv
  <2>5. RowsInv'
    BY <1>1, <2>1, <2>3 DEF JournalInv, RowsInv
  <2>6. ReportInv'
    BY <1>1, <1>3, <2>3, ReportStays DEF JournalInv
  <2> QED BY <1>1, <2>4, <2>5, <2>6, TablesStay DEF JournalInv
<1>7. CASE PersistFails(task)
  <2>1. /\ UNCHANGED <<orderRows, fillRows>>
        /\ persisting' = persisting \ {task} /\ lost' = lost \cup ({task.trade} \ StoredTrades)
    BY <1>7 DEF PersistFails
  <2>2. StoredTrades' = StoredTrades /\ task.trade \in Trades
    BY <1>3, <2>1 DEF StoredTrades, Tasks
  <2>3. FillsInv'
    <3>1. UnderWay \subseteq UnderWay' \cup {task.trade}
      BY <2>1 DEF UnderWay
    <3>2. persisting' \subseteq Tasks'
      BY <1>2, <1>3, <2>1 DEF FillsInv, Tasks
    <3>3. IsInjective(fillRows)'
      BY <1>3, <2>1 DEF FillsInv, IsInjective
    <3>4. lost' \subseteq Trades' /\ Trades' \subseteq StoredTrades' \cup lost' \cup UnderWay'
      BY <1>2, <1>3, <2>1, <2>2, <3>1 DEF FillsInv
    <3> QED BY <1>1, <1>2, <1>3, <2>1, <3>2, <3>3, <3>4 DEF FillsInv
  <2>4. RowsInv'
    BY <1>1, <2>1, <2>2 DEF JournalInv, RowsInv
  <2>5. ReportInv'
    BY <1>1, <1>3, <2>2, ReportStays DEF JournalInv
  <2> QED BY <1>1, <2>3, <2>4, <2>5, TablesStay DEF JournalInv
<1> QED BY <1>5, <1>6, <1>7

LEMMA SnapshotsKeep ==
  ASSUME JournalInv, PoolReady \/ SnapshotBegins \/ (\E i \in Holdings : SnapshotWrites(i)) \/ StopActors
  PROVE  JournalInv'
<1>1. UNCHANGED <<made, cached, persisting, orderRows, fillRows, lost, totals, report, dailyReport>>
  BY DEF PoolReady, SnapshotBegins, SnapshotWrites, StopActors, journal
<1>2. Trades' = Trades /\ StoredTrades' = StoredTrades /\ UnderWay' = UnderWay
  BY <1>1 DEF Trades, StoredTrades, UnderWay
<1>3. \A i : Net(i, Trades)' = Net(i, Trades)
  BY <1>1, NetStays
<1>4. FillsInv' /\ RowsInv'
  BY <1>1, <1>2 DEF JournalInv, FillsInv, RowsInv, Tasks, IsInjective
<1>5. ReportInv'
  <2>1. report.calm => persisting' = {} /\ lost' = {}
    BY <1>1 DEF JournalInv, ReportInv, Calm
  <2> QED BY <1>1, <1>2, <2>1, ReportStays DEF JournalInv
<1>6. DailyInv'
  BY <1>1, <1>2 DEF JournalInv, DailyInv, SectionsAgree, Net, FillsOf
<1>7. PositionsInv'
  <2>1. CASE PoolReady
    <3>1. UNCHANGED <<todo, positionRows, dirty>>
      BY <2>1 DEF PoolReady
    <3> QED BY <1>1, <1>3, <3>1 DEF JournalInv, PositionsInv
  <2>2. CASE SnapshotBegins
    <3>1. todo' = cached /\ dirty' = dirty \ cached /\ positionRows' = positionRows
      BY <2>2 DEF SnapshotBegins
    <3> QED BY <1>1, <1>3, <3>1 DEF JournalInv, PositionsInv
  <2>3. CASE StopActors
    <3>1. todo' = {} /\ dirty' = dirty \cup todo /\ positionRows' = positionRows
      BY <2>3 DEF StopActors
    <3> QED BY <1>1, <1>3, <3>1 DEF JournalInv, PositionsInv
  <2>4. ASSUME NEW i \in Holdings, SnapshotWrites(i) PROVE PositionsInv'
    <3>1. /\ i \in todo /\ todo' = todo \ {i}
          /\ \/ positionRows' = [positionRows EXCEPT ![i] = Net(i, Trades)] /\ dirty' = dirty
             \/ dirty' = dirty \cup {i} /\ positionRows' = positionRows
      BY <2>4 DEF SnapshotWrites
    <3>2. DOMAIN positionRows' = Holdings
          /\ \A j \in Holdings \ {i} : positionRows'[j] = positionRows[j]
      BY <3>1 DEF JournalInv, PositionsInv
    <3>3. ASSUME NEW j \in cached \ (dirty' \cup todo') PROVE positionRows'[j] = Net(j, Trades)
      <4>1. CASE j = i
        BY <3>1, <3>3, <4>1 DEF JournalInv, PositionsInv
      <4>2. CASE j # i
        <5>1. j \in cached \ (dirty \cup todo) /\ j \in Holdings \ {i}
          BY <3>1, <3>3, <4>2 DEF JournalInv, PositionsInv
        <5> QED BY <3>2, <5>1 DEF JournalInv, PositionsInv
      <4> QED BY <4>1, <4>2
    <3>4. \A j \in cached' \ (dirty' \cup todo') : positionRows'[j] = Net(j, Trades)'
      BY <1>1, <1>3, <3>3
    <3> QED BY <1>1, <1>3, <3>1, <3>2, <3>4 DEF JournalInv, PositionsInv
  <2> QED BY <2>1, <2>2, <2>3, <2>4
<1> QED BY <1>4, <1>5, <1>6, <1>7 DEF JournalInv

LEMMA ReportsKeep ==
  ASSUME JournalInv, ReportPnl \/ ReportFills \/ ReportDrawdown \/ ReportPositions \/ ReportWritten
  PROVE  JournalInv'
<1>1. UNCHANGED <<made, cached, persisting, orderRows, fillRows, lost, todo, positionRows, dirty>>
  BY DEF ReportPnl, ReportFills, ReportDrawdown, ReportPositions, ReportWritten, journal, snapshots
<1>2. Trades' = Trades /\ StoredTrades' = StoredTrades /\ UnderWay' = UnderWay
  BY <1>1 DEF Trades, StoredTrades, UnderWay
<1>3. \A i : Net(i, Trades)' = Net(i, Trades)
  BY <1>1, NetStays
<1>4. FillsInv' /\ RowsInv' /\ PositionsInv'
  BY <1>1, <1>2, <1>3 DEF JournalInv, FillsInv, RowsInv, PositionsInv, Tasks, IsInjective
<1>5. StoredTrades \subseteq Trades /\ Trades \subseteq Nat /\ (persisting = {} /\ lost = {} => StoredTrades = Trades)
  <2>1. FillsInv
    BY DEF JournalInv
  <2>2. StoredTrades \subseteq Trades /\ Trades = 1..Len(made)
    BY <2>1, JournalTypes
  <2>3. Trades \subseteq Nat
    BY <2>2
  <2>4. persisting = {} /\ lost = {} => StoredTrades = Trades
    BY <2>1, <2>2 DEF FillsInv, UnderWay
  <2> QED BY <2>2, <2>3, <2>4
<1>6. report \in Report /\ Grows(report, StoredTrades) /\ Calm(report)
  BY DEF JournalInv, ReportInv
<1>11. totals \subseteq Holdings /\ totals' = totals
  BY DEF JournalInv, ReportInv, ReportPnl, ReportFills, ReportDrawdown, ReportPositions, ReportWritten, journal
<1>7. {i \in cached : Net(i, Trades) # 0} = {i \in Holdings : Net(i, Trades) # 0}
  BY DEF JournalInv, PositionsInv
<1>8. report' \in Report /\ Grows(report', StoredTrades) /\ Calm(report')
  <2>1. CASE ReportPnl
    <3>1. PICK found \in SUBSET totals, unread \in SUBSET totals, failed \in BOOLEAN :
            report' = [NoReport EXCEPT !.at = "pnl", !.calm = persisting = {} /\ lost = {},
                         !.pnl = Section(found, Selected(failed, found \cup unread), failed \/ unread # {})]
      BY <2>1, ZenonT(30) DEF ReportPnl
    <3>2. Section(found, Selected(failed, found \cup unread), failed \/ unread # {}) \in SectionType
      BY <1>5, <1>11 DEF Section, Selected, SectionType
    <3>3. /\ report'.at = "pnl" /\ (report'.calm <=> persisting = {} /\ lost = {})
          /\ report'.pnl.totals = found /\ (report'.pnl.failed <=> failed \/ unread # {})
          /\ report'.pnl.trades = Selected(failed, found \cup unread)
          /\ report'.fills = NoSection /\ report'.drawdown = NoSection
          /\ report' \in Report
      BY <3>1, <3>2 DEF NoReport, NoSection, Section, SectionType, Report
    <3> QED BY <1>5, <3>3 DEF Grows, Calm, Selected, NoSection, Section
  <2>2. CASE ReportFills
    <3>1. PICK failed \in BOOLEAN :
            report' = [report EXCEPT !.at = "fills", !.fills = Section({}, Selected(failed, {}), failed)]
      BY <2>2 DEF ReportFills
    <3>2. Section({}, Selected(failed, {}), failed) \in SectionType
      BY <1>5 DEF Section, Selected, SectionType
    <3>3. /\ report'.at = "fills" /\ report'.fills = Section({}, Selected(failed, {}), failed)
          /\ report'.pnl = report.pnl /\ report'.drawdown = report.drawdown
          /\ report'.calm = report.calm /\ report' \in Report
      BY <1>6, <3>1, <3>2 DEF Report
    <3>4. Selected(failed, {}) = (IF failed THEN {} ELSE StoredTrades)
      BY DEF Selected
    <3>6. report'.fills.failed = failed /\ report'.fills.trades = (IF failed THEN {} ELSE StoredTrades)
      BY <3>3, <3>4 DEF Section
    <3>5. report.at = "pnl"
      BY <2>2 DEF ReportFills
    <3> QED BY <1>5, <1>6, <3>3, <3>5, <3>6 DEF Grows, Calm
  <2>3. CASE ReportDrawdown
    <3>1. PICK found \in SUBSET totals, failed \in BOOLEAN :
            report' = [report EXCEPT !.at = "drawdown",
                         !.drawdown = Section(found, Selected(failed \/ found # {}, {}), failed)]
      BY <2>3 DEF ReportDrawdown
    <3>2. Section(found, Selected(failed \/ found # {}, {}), failed) \in SectionType
      BY <1>5, <1>11 DEF Section, Selected, SectionType
    <3>3. /\ report'.at = "drawdown"
          /\ report'.drawdown = Section(found, Selected(failed \/ found # {}, {}), failed)
          /\ report'.pnl = report.pnl /\ report'.fills = report.fills
          /\ report'.calm = report.calm /\ report' \in Report
      BY <1>6, <3>1, <3>2 DEF Report
    <3>4. Selected(failed \/ found # {}, {}) = (IF failed \/ found # {} THEN {} ELSE StoredTrades)
      BY DEF Selected
    <3>6. /\ report'.drawdown.failed = failed /\ report'.drawdown.totals = found
          /\ report'.drawdown.trades = (IF failed \/ found # {} THEN {} ELSE StoredTrades)
      BY <3>3, <3>4 DEF Section
    <3>5. report.at = "fills"
      BY <2>3 DEF ReportDrawdown
    <3> QED BY <1>5, <1>6, <3>3, <3>6, <3>5 DEF Grows, Calm
  <2>4. CASE ReportPositions
    <3>1. report.at = "drawdown"
          /\ report' = [report EXCEPT !.at = "positions", !.open = {i \in cached : Net(i, Trades) # 0}]
      BY <2>4 DEF ReportPositions
    <3>2. /\ report'.at = "positions" /\ report'.open = {i \in Holdings : Net(i, Trades) # 0}
          /\ report'.drawdown = report.drawdown /\ report'.fills = report.fills
          /\ report'.pnl = report.pnl /\ report'.calm = report.calm /\ report' \in Report
      BY <1>6, <1>7, <3>1 DEF Report
    <3> QED BY <1>6, <3>1, <3>2 DEF Grows, Calm
  <2>5. CASE ReportWritten
    <3>1. report' = NoReport
      BY <2>5 DEF ReportWritten
    <3> QED BY <3>1 DEF NoReport, NoSection, Section, SectionType, Report, Grows, Calm
  <2> QED BY <2>1, <2>2, <2>3, <2>4, <2>5
<1>9. ReportInv'
  <2>1. PICK r : r = report' /\ Calm(r) /\ Grows(r, StoredTrades')
    BY <1>2, <1>8
  <2>2. Calm(r)'
    BY <1>1, <1>2, <1>3, <2>1 DEF Calm
  <2> QED BY <1>8, <1>11, <2>1, <2>2 DEF ReportInv, Calm, Grows
<1>10. DailyInv'
  <2>1. CASE UNCHANGED dailyReport
    BY <1>1, <1>2, <2>1 DEF JournalInv, DailyInv, SectionsAgree, Net, FillsOf
  <2>2. CASE report.at = "positions" /\ dailyReport' = report
    <3>1. /\ report.pnl.trades \subseteq Trades /\ report.fills.trades \subseteq Trades
          /\ ~report.fills.failed => report.pnl.trades \subseteq report.fills.trades
          /\ ~report.drawdown.failed /\ report.drawdown.totals = {} =>
               report.pnl.trades \cup report.fills.trades \subseteq report.drawdown.trades
      BY <1>5, <1>6, <2>2 DEF Grows
    <3>2. report.calm /\ ~report.fills.failed =>
            /\ report.fills.trades = Trades
            /\ ~report.pnl.failed => report.pnl.trades = {t \in Trades : made[t].of \notin report.pnl.totals}
            /\ ~report.drawdown.failed /\ report.drawdown.totals = {} => report.drawdown.trades = Trades
            /\ report.open = {i \in Holdings : Net(i, Trades) # 0}
      BY <1>6, <2>2 DEF Calm
    <3>3. SectionsAgree(report)
      BY <3>1, <3>2 DEF SectionsAgree
    <3>4. PICK r : r = report /\ r = dailyReport'
      BY <2>2
    <3>5. SectionsAgree(r)'
      BY <1>1, <3>3, <3>4 DEF SectionsAgree, Net, FillsOf
    <3> QED BY <1>2, <3>1, <3>4, <3>5 DEF DailyInv, SectionsAgree
  <2> QED BY <2>1, <2>2 DEF ReportPnl, ReportFills, ReportDrawdown, ReportPositions, ReportWritten
<1> QED BY <1>4, <1>9, <1>10 DEF JournalInv

LEMMA JournalBootKeeps ==
  ASSUME JournalInv, JournalBoot
  PROVE  JournalInv'
<1>1. /\ lost' = lost \cup (UnderWay \ StoredTrades)
      /\ persisting' = {} /\ todo' = {} /\ dirty' = Holdings /\ report' = NoReport
      /\ cached' = {i \in Holdings : Net(i, Trades) # 0}
      /\ UNCHANGED <<made, orderRows, fillRows, positionRows, totals, dailyReport>>
  BY DEF JournalBoot, UnderWay
<1>2. Trades' = Trades /\ StoredTrades' = StoredTrades
  BY <1>1 DEF Trades, StoredTrades
<1>3. \A i : Net(i, Trades)' = Net(i, Trades)
  BY <1>1, NetStays
<1>4. FillsInv'
  <2>1. UnderWay \subseteq Trades
    BY DEF JournalInv, FillsInv, UnderWay, Tasks
  <2>2. IsInjective(fillRows)'
    BY <1>1 DEF JournalInv, FillsInv, IsInjective
  <2> QED BY <1>1, <1>2, <2>1, <2>2 DEF JournalInv, FillsInv
<1>5. RowsInv'
  BY <1>1, <1>2 DEF JournalInv, RowsInv
<1>6. PositionsInv'
  BY <1>1, <1>3 DEF JournalInv, PositionsInv
<1>7. ReportInv'
  BY <1>1 DEF JournalInv, ReportInv, NoReport, NoSection, Section, SectionType, Report, Grows, Calm
<1>8. DailyInv'
  BY <1>1, <1>2 DEF JournalInv, DailyInv, SectionsAgree, Net, FillsOf
<1> QED BY <1>4, <1>5, <1>6, <1>7, <1>8 DEF JournalInv

\* The tables of the journal agree with each other, whatever was replayed, dropped or
\* restarted: every fill has one row and an order, the position row of an instrument at
\* rest is what the fills add up to once all are in, and the sections of the daily
\* report agree wherever they were read; for any instruments, fills and failures
\* (actors/trade_journal.py, position_snapshot.py, eod_reporter.py).
THEOREM JournalHolds == JournalSpec => []TablesAgree
<1> USE JournalAssumption
<1>1. JournalInit => JournalInv
  <2> SUFFICES ASSUME JournalInit PROVE JournalInv
    OBVIOUS
  <2> USE DEF JournalInit
  <2>1. Trades = {} /\ StoredTrades = {} /\ UnderWay = {}
    BY DEF Trades, StoredTrades, UnderWay, Range
  <2>2. \A i : Net(i, Trades) = 0 /\ Net(i, {}) = 0
    <3> SUFFICES ASSUME NEW i PROVE Net(i, {}) = 0
      BY <2>1
    <3>1. FillsOf(i, {}) = {}
      BY DEF FillsOf
    <3> DEFINE quantities == [t \in FillsOf(i, {}) |-> made[t].qty]
    <3>2. DOMAIN quantities = {}
      BY <3>1
    <3> HIDE DEF quantities
    <3>3. SumFunction(quantities) = 0
      BY <3>2, NothingSums
    <3> QED BY <3>3 DEF Net, quantities
  <2>3. FillsInv /\ RowsInv
    BY <2>1 DEF FillsInv, RowsInv, IsInjective
  <2>4. PositionsInv
    BY <2>1, <2>2 DEF PositionsInv
  <2>5. ReportInv
    BY DEF ReportInv, NoReport, NoSection, Section, SectionType, Report, Grows, Calm
  <2>6. DailyInv
    BY DEF DailyInv, SectionsAgree, NoReport, NoSection, Section
  <2> QED BY <2>3, <2>4, <2>5, <2>6 DEF JournalInv
<1>2. JournalInv /\ [JournalNext]_journalVars => JournalInv'
  <2> SUFFICES ASSUME JournalInv, [JournalNext]_journalVars PROVE JournalInv'
    OBVIOUS
  <2>1. ASSUME NEW i \in Holdings, NEW qty \in {-1, 1}, OrderFilled(i, qty) PROVE JournalInv'
    BY <2>1, OrderFilledKeeps
  <2>2. ASSUME NEW trade \in Trades, FillReplayed(trade) PROVE JournalInv'
    BY <2>2, FillReplayedKeeps
  <2>3. ASSUME NEW task \in persisting, UpsertOrder(task) \/ WriteFill(task) \/ PersistFails(task) PROVE JournalInv'
    BY <2>3, TasksKeep
  <2>4. CASE PoolReady \/ SnapshotBegins \/ (\E i \in Holdings : SnapshotWrites(i)) \/ StopActors
    BY <2>4, SnapshotsKeep
  <2>5. CASE ReportPnl \/ ReportFills \/ ReportDrawdown \/ ReportPositions \/ ReportWritten
    BY <2>5, ReportsKeep
  <2>6. CASE JournalBoot
    BY <2>6, JournalBootKeeps
  <2>8. ASSUME NEW i \in Holdings, TotalStored(i) PROVE JournalInv'
    BY <2>8, TotalStoredKeeps
  <2>7. CASE UNCHANGED journalVars
    <3>1. UNCHANGED <<made, cached, persisting, orderRows, fillRows, lost, todo, positionRows, dirty, totals,
                      report, dailyReport>>
      BY <2>7 DEF journalVars
    <3>2. FillsInv' /\ RowsInv' /\ PositionsInv' /\ DailyInv'
      BY <3>1, TablesStay DEF JournalInv, FillsInv, RowsInv, Tasks, IsInjective, Trades, StoredTrades, UnderWay
    <3>3. ReportInv'
      BY <3>1, ReportStays DEF JournalInv, ReportInv, Calm, StoredTrades
    <3> QED BY <3>2, <3>3 DEF JournalInv
  <2> QED BY <2>1, <2>2, <2>3, <2>4, <2>5, <2>6, <2>7, <2>8 DEF JournalNext
<1>3. JournalInv => TablesAgree
  <2> SUFFICES ASSUME JournalInv PROVE TablesAgree
    OBVIOUS
  <2>1. StoredTrades \subseteq Trades
    BY JournalTypes DEF JournalInv
  <2>2. lost = {} /\ persisting = {} => StoredTrades = Trades
    BY <2>1 DEF JournalInv, FillsInv, UnderWay
  <2>3. ASSUME lost = {}, persisting = {}, todo = {}, NEW i \in cached \ dirty
        PROVE  positionRows[i] = Net(i, StoredTrades)
    <3>1. positionRows[i] = Net(i, Trades)
      BY <2>3 DEF JournalInv, PositionsInv
    <3> QED BY <2>2, <2>3, <3>1
  <2> QED BY <2>3 DEF TablesAgree, JournalInv, FillsInv, RowsInv, DailyInv
<1> QED BY <1>1, <1>2, <1>3, PTL DEF JournalSpec
=============================================================================
