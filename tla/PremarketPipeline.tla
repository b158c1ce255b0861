--------------------------- MODULE PremarketPipeline ---------------------------
(* The pre-market pipeline as services/pipeline.py runs it: gap scan, scoring,   *)
(* sizing, risk checks, heat, merge, bundles to Redis.  run_pipeline gives the   *)
(* executor no venue limits, no portfolio states and no regime bars, so the risk *)
(* checks have nothing to compare with and the regime stage does nothing.  One   *)
(* stage is one step; every run of the day (a pass) is a process of its own that *)
(* remembers nothing of the one before.  Money and prices are integers,          *)
(* percentages are of 100; quotes, whose mid is taken as their last price, and   *)
(* the Monte-Carlo estimate are chosen from small sets.                          *)
EXTENDS Integers, Sequences, FiniteSets

CONSTANTS
  Symbols, Gone,
  Tradable,            \* symbols with an eligible pre-market suffix
  MaxCandidates,       \* of the watchlist
  QuotePrices, Spreads,                   \* of the quotes; a spread is a class, 0 tightest
  Closes,                                 \* previous closes
  MinGap, MaxGap, MinPrice, MaxPrice,
  Capital, RiskPerTrade, ValuesAtRisk,   \* VaR per share, as a percentage of the price
  Nav, MaxConcentration,
  DefaultSize, DefaultLoss,
  MaxPasses, MaxFailures             \* bounds: runs, and failures over all runs

ASSUME PipelineAssumption ==
  /\ IsFiniteSet(Symbols) /\ Tradable \subseteq Symbols /\ Gone \notin Symbols
  /\ QuotePrices \cup Closes \subseteq Nat \ {0} /\ Spreads \subseteq 0..4
  /\ \A p \in QuotePrices : p >= 50      \* in units that a stop of 2 percent has at least one of
  /\ {Capital, RiskPerTrade, Nav} \cup ValuesAtRisk \subseteq Nat \ {0}
  /\ {MaxPasses, MaxFailures, MaxCandidates, MaxConcentration} \subseteq Nat
  /\ Capital * 100 <= MaxConcentration * Nav     \* 100 000 and 10 percent of 1 000 000

VARIABLES
  stage,          \* what the run does next, "over" between runs
  passNo,         \* runs of the day so far, and the pass number of this one
  cands,          \* per symbol: the candidate as it has come so far, or Gone
  heat,           \* the symbols with a warning in the HeatMonitorResult
  toPublish,      \* bundles of this run still to publish
  published,      \* messages on sam:bundle:load, oldest first
  announced,      \* counts on sam:bundle:load_complete
  mishaps

pipelineVars == <<stage, passNo, cands, heat, toPublish, published, announced, mishaps>>
outputs == <<toPublish, published, announced>>

Least(a, b) == IF a <= b THEN a ELSE b
Most(a, b) == IF a >= b THEN a ELSE b
Clamp(lo, hi, n) == Most(lo, Least(hi, n))
Magnitude(n) == IF n < 0 THEN -n ELSE n

PipelineInit ==
  /\ stage = "over" /\ passNo = 0
  /\ cands = [s \in Symbols |-> Gone]
  /\ heat = {}
  /\ toPublish = <<>> /\ published = <<>> /\ announced = <<>>
  /\ mishaps = 0

\* A stage goes through the candidates one by one; one that raises (a quote without
\* bid and ask has an entry of 0, which sizing refuses) is left out.
Live == {s \in Symbols : cands[s] # Gone}
Through(processed) ==
  \E lost \in SUBSET Live :
    /\ mishaps + Cardinality(lost) <= MaxFailures
    /\ mishaps' = mishaps + Cardinality(lost)
    /\ cands' = [s \in Symbols |-> IF s \in Live \ lost THEN processed[s] ELSE Gone]

-----------------------------------------------------------------------------
(* Watchlist and gap scan *)

\* A holiday ends the run before any work is done.
RunStarts ==
  /\ stage = "over" /\ passNo < MaxPasses
  /\ passNo' = passNo + 1
  /\ cands' = [s \in Symbols |-> Gone] /\ heat' = {}
  /\ stage' \in {"scan", "over"}
  /\ UNCHANGED <<outputs, mishaps>>

\* build_watchlist: eligible symbols, up to the cap.
Watchlist == {w \in SUBSET Tradable : Cardinality(w) = Least(MaxCandidates, Cardinality(Tradable))}

\* The scanner of this process has seen no earlier pass.
Trend == IF passNo >= 2 THEN "LATE_BREAKER" ELSE "STABLE"

PassesFilters(gap, price) ==
  /\ MinPrice <= price /\ price <= MaxPrice
  /\ MinGap <= Magnitude(gap) /\ Magnitude(gap) <= MaxGap

\* QuoteCollectionService: a symbol whose subscription is refused, or that is silent
\* while quotes are collected, has none.
Collected == [Symbols -> [price : QuotePrices, spread : Spreads] \cup {Gone}]

\* The previous close is the price of the newest fill, else that of the daily k-line,
\* whichever loader answers first; a symbol without any is passed over.
LoadedCloses == [Symbols -> Closes \cup {Gone}]
GapOf(price, close) == ((price - close) * 100) \div close

\* What has a quote and a close becomes a candidate if no filter holds it back.
Scan ==
  /\ stage = "scan" /\ stage' = "score"
  /\ \E list \in Watchlist :
     \E quotes \in Collected, closes \in LoadedCloses :
       cands' = [s \in Symbols |->
         IF /\ s \in list /\ quotes[s] # Gone /\ closes[s] # Gone
            /\ PassesFilters(GapOf(quotes[s].price, closes[s]), quotes[s].price)
         THEN [gap |-> GapOf(quotes[s].price, closes[s]), price |-> quotes[s].price, spread |-> quotes[s].spread,
               trend |-> Trend, grade |-> "none", stop |-> 0, size |-> -1, risk |-> 0,
               checked |-> "no", approved |-> FALSE]
         ELSE Gone]
  /\ UNCHANGED <<passNo, heat, outputs, mishaps>>

ScanFails ==
  /\ stage = "scan" /\ mishaps < MaxFailures
  /\ stage' = "over" /\ mishaps' = mishaps + 1
  /\ UNCHANGED <<passNo, cands, heat, outputs>>

-----------------------------------------------------------------------------
(* Scoring, by rules: the pipeline configures no language model *)

TrendQuality(t) == IF t = "RISING" THEN 5 ELSE IF t = "STABLE" THEN 2
                   ELSE IF t = "FADING" THEN -2 ELSE 1
GapQuality(c) == Clamp(0, 25, Least((Magnitude(c.gap) * 5) \div 2, 15) + TrendQuality(c.trend))
TechnicalSetup(c) == <<8, 5, 5, 2, 1>>[c.spread + 1] + (IF c.gap # 0 THEN 5 ELSE 2) + 3
Liquidity(c) == <<10, 7, 4, 1, 1>>[c.spread + 1] + (IF c.price \in 5..500 THEN 1 ELSE 0)
LowRisk(c) ==
  LET base == Most(0, (20 - Magnitude(c.gap)) \div 2)
  IN Clamp(0, 10, IF c.gap <= 0 THEN base
                  ELSE IF c.trend = "RISING" THEN base + 1
                  ELSE IF c.trend = "FADING" THEN base - 2 ELSE base)
MarketContext == IF passNo >= 2 THEN 7 ELSE 5
Score(c) == GapQuality(c) + TechnicalSetup(c) + 10 + Liquidity(c) + LowRisk(c) + MarketContext
Confidence == IF passNo >= 2 THEN 35 ELSE 25

Grade(score, confidence) ==
  IF score >= 80 /\ confidence >= 70 THEN "STRONG_BUY"
  ELSE IF score >= 60 /\ confidence >= 50 THEN "BUY"
  ELSE IF score >= 40 \/ confidence >= 30 THEN "HOLD" ELSE "SKIP"

\* _compute_trade_params, which the pipeline gives no ATR: the stop is 3 percent away.
StopDistance(price) == (price * 3) \div 100
Scored(c) ==
  LET grade == Grade(Score(c), Confidence)
  IN IF grade = "SKIP" THEN Gone
     ELSE [c EXCEPT !.grade = grade, !.stop = StopDistance(c.price)]

StageScore ==
  /\ stage = "score" /\ stage' = "size"
  /\ Through([s \in Live |-> Scored(cands[s])])
  /\ UNCHANGED <<passNo, heat, outputs>>

-----------------------------------------------------------------------------
(* Sizing, risk checks, heat *)

\* MonteCarloPositionSizer.size: the stop, the simulated loss and the capital each
\* bound the shares.
Shares(c, valueAtRisk) ==
  Least(Least(RiskPerTrade \div c.stop, (RiskPerTrade * 100) \div (c.price * valueAtRisk)),
        Capital \div c.price)

WithShares(c, shares) == [c EXCEPT !.size = shares, !.risk = shares * c.stop]

StageSizeKeepsLost ==                        \* mutant: one that raises goes on without a size
  /\ stage = "size" /\ stage' = "risk"
  /\ \E valueAtRisk \in ValuesAtRisk, lost \in SUBSET Live :
       /\ mishaps + Cardinality(lost) <= MaxFailures /\ mishaps' = mishaps + Cardinality(lost)
       /\ cands' = [s \in Symbols |-> IF s \in Live \ lost THEN WithShares(cands[s], Shares(cands[s], valueAtRisk))
                                      ELSE cands[s]]
  /\ UNCHANGED <<passNo, heat, outputs>>
StageSize ==
  /\ stage = "size" /\ stage' = "risk"
  /\ \E valueAtRisk \in ValuesAtRisk :
       Through([s \in Live |-> WithShares(cands[s], Shares(cands[s], valueAtRisk))])
  /\ UNCHANGED <<passNo, heat, outputs>>

\* PreTradeRiskChecker.check with no limits: every check that returns passes.  A
\* candidate without a size goes on unchecked.
RiskChecked(c) == IF c.size <= 0 THEN c ELSE [c EXCEPT !.checked = "passed"]
StageRisk ==
  /\ stage = "risk" /\ stage' = "heat"
  /\ Through([s \in Live |-> RiskChecked(cands[s])])
  /\ UNCHANGED <<passNo, heat, outputs>>

\* PortfolioHeatMonitor.compute: the symbols with a warning of their own.  The
\* warnings about the total and about sectors decide nothing and are left out; the
\* regime stage that follows has no bars and does nothing.
Notional(c) == IF c.size < 0 THEN 0 ELSE c.size * c.price
StageHeat ==
  /\ stage = "heat" /\ stage' = "merge"
  /\ heat' = {s \in Live : Notional(cands[s]) * 100 > MaxConcentration * Nav}
  /\ UNCHANGED <<passNo, cands, outputs, mishaps>>

-----------------------------------------------------------------------------
(* Merge, bundles, publication *)

\* No shares or a warning of its own rejects.  What a stage has not left on the
\* candidate rejects nothing: without a size there is no zero size, without a check
\* no failed one.
Rejected(s) == cands[s].size = 0 \/ s \in heat
Approved(c) == [c EXCEPT !.approved = TRUE]

\* _candidate_to_bundle: defaults for a candidate that was never sized.
Bundle(s, c) ==
  [symbol |-> s, pass |-> passNo,
   size |-> IF c.size < 0 THEN DefaultSize ELSE c.size,
   loss |-> IF c.size >= 0 /\ c.risk > 0 THEN c.risk ELSE DefaultLoss]

\* The bundles go out in the order of their gaps; any order of equal ones.
Orderings(S) == {f \in [1..Cardinality(S) -> S] : \A i, j \in DOMAIN f :
                   i < j => f[i] # f[j] /\ Magnitude(cands[f[i]].gap) >= Magnitude(cands[f[j]].gap)}
StageMerge ==
  LET taken == {s \in Live : ~Rejected(s)}
  IN /\ stage = "merge"
     /\ stage' \in IF taken = {} THEN {"over"} ELSE {"publish", "over"}     \* over: no Redis client
     /\ cands' = [s \in Symbols |-> IF s \in taken THEN Approved(cands[s]) ELSE cands[s]]
     /\ \E order \in Orderings(taken) :
          toPublish' = [i \in 1..Cardinality(taken) |-> Bundle(order[i], Approved(cands[order[i]]))]
     /\ UNCHANGED <<passNo, heat, published, announced, mishaps>>

\* publish_bundles_to_redis, one message, which may fail on its own.
SentOfRun == {i \in DOMAIN published : published[i].pass = passNo}
PublishBundle ==
  /\ stage = "publish" /\ toPublish # <<>>
  /\ toPublish' = Tail(toPublish)
  /\ \/ published' = Append(published, Head(toPublish)) /\ UNCHANGED mishaps
     \/ mishaps < MaxFailures /\ mishaps' = mishaps + 1 /\ UNCHANGED published
  /\ UNCHANGED <<stage, passNo, cands, heat, announced>>
PublishComplete ==
  /\ stage = "publish" /\ toPublish = <<>> /\ stage' = "over"
  /\ \/ announced' = Append(announced, Cardinality(SentOfRun)) /\ UNCHANGED mishaps
     \/ mishaps < MaxFailures /\ mishaps' = mishaps + 1 /\ UNCHANGED announced
  /\ UNCHANGED <<passNo, cands, heat, toPublish, published>>

-----------------------------------------------------------------------------

PipelineNext ==
  \/ RunStarts \/ Scan \/ ScanFails \/ StageScore \/ StageSize \/ StageRisk \/ StageHeat
  \/ StageMerge \/ PublishBundle \/ PublishComplete

PipelineSpec == PipelineInit /\ [][PipelineNext]_pipelineVars

-----------------------------------------------------------------------------
(* Properties *)

\* Merge and bundle generation read a missing size or check as nothing to object to,
\* and give a candidate that was never sized DefaultSize shares.  Whichever
\* candidates the stages fail on, in whichever pass of the day: a bundle goes out only
\* for a candidate that every stage has dealt with, has shares, puts no more than
\* RiskPerTrade at its stop, and fits the capital and the concentration limit.
BundlesWithinBudget ==
  \A i \in SentOfRun :
    LET b == published[i]
        c == cands[b.symbol]
    IN /\ c.approved /\ c.grade # "none" /\ c.checked = "passed" /\ b.symbol \notin heat
       /\ b.size = c.size /\ b.size >= 1 /\ b.size * c.stop <= RiskPerTrade /\ b.loss <= RiskPerTrade
       /\ b.size * c.price <= Capital /\ b.size * c.price * 100 <= MaxConcentration * Nav
=============================================================================
