-------------------------------- MODULE MCTrader --------------------------------
(* What runs in the trader's process beside the execution client, for TLC, side by *)
(* side: both strategies, the data client with the quota manager and the limiter of *)
(* orders, the rejection monitor, the resubscription of bars, the journal, and what *)
(* tells that the trader is well.  One of them moves in a behaviour, the others     *)
(* rest.  The quota manager is driven by any caller or, as the data client's own,   *)
(* by the client.                                                                   *)
EXTENDS FutuDataClient, OrderRateLimiter, MomentumStrategy, RejectionMonitor, BarResubscription,
        TradeJournal, TraderHealth, TLC

CONSTANTS i1, i2, i3, k1, k2, s1, h1, h2, NoOrbState

VARIABLES
  part,
  orbMem, orbPending, orbEntry, orbLife, orbSaved, orbOrders, orbNet, orbPhase, orbStops,
  orbRestarts, orbDay

orbVars == <<orbMem, orbPending, orbEntry, orbLife, orbSaved, orbOrders, orbNet, orbPhase,
             orbStops, orbRestarts, orbDay>>
traderVars == <<orbVars, dataVars, limiterVars, momVars, rejectionVars, resubscriptionVars, journalVars,
                healthVars, part>>

-----------------------------------------------------------------------------
(* Values of the constants *)

Quote(i) == [instrument |-> i, dataType |-> "QUOTE", name |-> "quote"]
BarsOf(i, n) == [instrument |-> i, dataType |-> "KLINE", name |-> n]
ClientSubscriptions ==
  {Quote(i1), Quote(i2), Quote(i3), BarsOf(i1, "1-MINUTE"), BarsOf(i1, "5-MINUTE")}
BothWays == {-1, 1}
OneStrategy == [k \in {k1, k2} |-> s1]

\* Brackets of one lot at a venue that links them, one group alive at once, two bars
\* to confirm, one entry a day by the limit and two by the bound, and a breaker that
\* trips at once.
Orb == INSTANCE OrbStrategy WITH
  Groups <- {1}, NoGroup <- 0, NoState <- NoOrbState, EntryMode <- "BRACKET", Contingent <- TRUE,
  ReduceOnly <- TRUE, LegsMayReject <- FALSE, FirstCandleBars <- 1, ConfirmationBars <- 2,
  TradeSize <- 1, MaxPosition <- 1, MaxTradesPerDay <- 1, MaxConsecutiveRejections <- 1,
  LossLimit <- 1, Cooldown <- TRUE, AtrFilter <- FALSE, LunchPause <- TRUE, MaxCloses <- 1,
  MaxTrades <- 2, MaxStops <- 1, MaxRestarts <- 1, MaxDays <- 0,
  mem <- orbMem, pending <- orbPending, entry <- orbEntry, life <- orbLife,
  saved <- orbSaved, orders <- orbOrders, net <- orbNet, phase <- orbPhase,
  stops <- orbStops, restarts <- orbRestarts, day <- orbDay

BreakerLatched == Orb!BreakerLatched
OvershootWasUnderWay == Orb!OvershootWasUnderWay

\* A bound: a stop or a restart, and what is saved only before a restart.
OneUpset == orbStops' + orbRestarts' <= 1 /\ (orbStops' > 0 => orbSaved' = NoOrbState)
\* A bound: two entries, or one and an interruption.
EntriesAndInterruptions == 2

\* A bound: a failing call or a new process for the journal, which is only started with
\* the fills of one instrument.  Instruments and signs are alike: the first fill is h1's
\* and buys.
OneHitch ==
  /\ boots' + dbErrors' <= 1
  /\ boots' > 0 => \A t \in DOMAIN made' : made'[t].of = made'[1].of
  /\ made' # <<>> => made'[1] = [of |-> h1, qty |-> 1]

\* The momentum strategy does not tell its groups of orders apart.
TraderSymmetry == Permutations(MomGroups)

-----------------------------------------------------------------------------

TraderInit ==
  /\ part \in {"orb", "quota", "client", "limiter", "momentum", "rejections", "bars", "journal",
              "health"}
  /\ Orb!Init
  /\ DataInit /\ (managed => part = "client")
  /\ LimiterInit /\ MomInit /\ RejectionInit /\ ResubscriptionInit /\ JournalInit
  /\ HealthInit

Moves(p) == part = p /\ UNCHANGED part

OrbStep ==
  /\ Moves("orb") /\ Orb!Next /\ OneUpset
  /\ UNCHANGED <<dataVars, limiterVars, momVars, rejectionVars, resubscriptionVars, journalVars,
                 healthVars>>
QuotaStep ==
  /\ Moves("quota") /\ Next
  /\ UNCHANGED <<orbVars, quoteCtx, pushing, tracked, atOpenD, klineHandler, pushed, managed, refusals,
                 unrestored, limiterVars, momVars, rejectionVars, resubscriptionVars, journalVars,
                 healthVars>>
ClientStep ==
  /\ Moves("client") /\ DataNext
  /\ UNCHANGED <<orbVars, limiterVars, momVars, rejectionVars, resubscriptionVars, journalVars,
                 healthVars>>
LimiterStep ==
  /\ Moves("limiter") /\ LimiterNext
  /\ UNCHANGED <<orbVars, dataVars, momVars, rejectionVars, resubscriptionVars, journalVars,
                 healthVars>>
MomentumStep ==
  /\ Moves("momentum") /\ MomNext /\ entries' + interruptions' <= EntriesAndInterruptions
  /\ UNCHANGED <<orbVars, dataVars, limiterVars, rejectionVars, resubscriptionVars, journalVars,
                 healthVars>>
RejectionStep ==
  /\ Moves("rejections") /\ RejectionNext
  /\ UNCHANGED <<orbVars, dataVars, limiterVars, momVars, resubscriptionVars, journalVars,
                 healthVars>>
ResubscriptionStep ==
  /\ Moves("bars") /\ ResubscriptionNext
  /\ UNCHANGED <<orbVars, dataVars, limiterVars, momVars, rejectionVars, journalVars, healthVars>>
JournalStep ==
  /\ Moves("journal") /\ JournalNext /\ OneHitch
  /\ UNCHANGED <<orbVars, dataVars, limiterVars, momVars, rejectionVars, resubscriptionVars, healthVars>>

HealthStep ==
  /\ Moves("health") /\ HealthNext
  /\ UNCHANGED <<orbVars, dataVars, limiterVars, momVars, rejectionVars, resubscriptionVars, journalVars>>

TraderNext ==
  \/ OrbStep \/ QuotaStep \/ ClientStep \/ LimiterStep \/ MomentumStep \/ RejectionStep
  \/ ResubscriptionStep \/ JournalStep \/ HealthStep

TraderSpec == TraderInit /\ [][TraderNext]_traderVars
=============================================================================
