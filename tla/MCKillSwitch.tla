----------------------------- MODULE MCKillSwitch -----------------------------
(* KillSwitch for TLC, from two sides that keep a run small: in a behaviour      *)
(* either no strategy has anything to send, and all that is left is who commands *)
(* what and when it is applied; or strategies trade, and nobody but the operator *)
(* commands.                                                                     *)
EXTENDS KillSwitch

CONSTANTS s1, s2

VARIABLE trading

killVars == <<vars, trading>>

KillInit == trading \in BOOLEAN /\ Init

TradingNext ==
  \/ \E state \in Commands : Command(state)
  \/ Publishing \/ Listening \/ Applying \/ Orders
  \/ TraderStops \/ Boot \/ NodeRuns
CommandsNext ==
  \/ \E state \in Commands : Command(state)
  \/ MonitorRun \/ LossMoves \/ RejectionHalt(s1)
  \/ Publishing \/ Listening \/ Applying
  \/ TraderStops \/ Boot \/ NodeRuns

KillNext == UNCHANGED trading /\ IF trading THEN TradingNext ELSE CommandsNext

KillSpec == KillInit /\ [][KillNext]_killVars /\ Fairness
=============================================================================
