---------------------------- MODULE MCOrbStrategy ----------------------------
(* OrbStrategy for TLC: order groups are interchangeable in the safety runs.   *)
EXTENDS OrbStrategy, TLC

GroupSymmetry == Permutations(Groups)

\* What can happen where nobody stops or restarts the trader, entries need no second
\* bar and nothing cools down, as the constants of orb_hard_stop have it.  The rest of
\* Next is in MCTrader, of its instance Orb.
HardStopNext ==
  \/ HardStopBar \/ RangeBar \/ BreakoutBar
  \/ \E g \in Groups, r \in Roles : Report(g, r)
  \/ \E g \in Groups : DropReduceOnly(g)
  \/ Tick \/ NextDay \/ OnReset \/ OnStart

HardStopSpec == Init /\ [][HardStopNext]_vars /\ Fairness
=============================================================================
