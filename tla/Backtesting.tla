------------------------------ MODULE Backtesting ------------------------------
(* The backtests the dashboard starts, one thread each (backtest/dashboard_api.py,*)
(* engine.py, sweep.py, walk_forward.py), with the rows they leave in PostgreSQL *)
(* (results.py).  The registry of runs is in the memory of the dashboard; the    *)
(* threads end with it.  What the engine makes of the bars is left open; its     *)
(* measure of a parameter combination is the combination's own number.           *)
EXTENDS Integers, Sequences, FiniteSets

LOCAL INSTANCE Functions
LOCAL INSTANCE TLC

CONSTANTS
  Requests,           \* bodies of POST /api/backtest/run, see RunRequested
  NoMetric, NoEntry,
  MaxRuns, MaxErrors, MaxDashboardRestarts     \* bounds

ASSUME BacktestingAssumption ==
  /\ \A q \in Requests :
       /\ q.mode \in {"backtest", "sweep", "walk_forward"} /\ q.parses \in BOOLEAN
       /\ q.instruments \in Nat \ {0} /\ {q.combos[i] : i \in DOMAIN q.combos} \subseteq Nat
       /\ {q.start, q.end} \subseteq Nat /\ {q.train, q.test} \subseteq Int
  /\ {MaxRuns, MaxErrors, MaxDashboardRestarts} \subseteq Nat

VARIABLES
  request,            \* per run so far: its body
  registry,           \* per run: [status, progress], or NoEntry after a restart
  thread,             \* per run: "none", "run", "save" or "ended"
  outcome,            \* per run: the windows or the ranking it is to save
  saving,             \* per run: instruments saved so far
  rows,               \* backtest_results: [key, instrument, outcome]
  errors, dashboardRestarts

backtestingVars == <<request, registry, thread, outcome, saving, rows, errors, dashboardRestarts>>

BacktestingInit ==
  /\ request = <<>> /\ registry = <<>> /\ thread = <<>> /\ outcome = <<>> /\ saving = <<>>
  /\ rows = {}
  /\ errors = 0 /\ dashboardRestarts = 0

RunsSoFar == 1..Len(request)

-----------------------------------------------------------------------------
(* What a run computes *)

\* _extract_result looks a metric up under the dashboard's name of it, the engine
\* gives it under its own.
EngineStats(sharpe) == [n \in {"Sharpe Ratio (252 days)"} |-> sharpe]
ExtractSharpe(stats) == IF "sharpe_ratio" \in DOMAIN stats THEN stats["sharpe_ratio"] ELSE NoMetric

\* ParameterSweep.run: by Sharpe, descending, what has none last, else as in the grid.
Ranked(combos) ==
  LET metric == [c \in Range(combos) |-> ExtractSharpe(EngineStats(c))]
      numbered == SelectSeq(combos, LAMBDA c : metric[c] # NoMetric)
  IN SortSeq(numbered, LAMBDA a, b : metric[a] > metric[b])
       \o SelectSeq(combos, LAMBDA c : metric[c] = NoMetric)

\* _generate_windows, the loop: each window starts test days after the last.
RollingShared(q) ==                                   \* mutant: the test starts on the last train day
  LET n == ((q.end - q.start) - (q.train + q.test)) \div q.test + 1
  IN [i \in 1..n |->
       LET from == q.start + (i - 1) * q.test
       IN [train |-> from..(from + q.train - 1),
           test |-> (from + q.train - 1)..(from + q.train + q.test - 2)]]
Rolling(q) ==
  LET n == ((q.end - q.start) - (q.train + q.test)) \div q.test + 1
  IN [i \in 1..n |->
       LET from == q.start + (i - 1) * q.test
       IN [train |-> from..(from + q.train - 1),
           test |-> (from + q.train)..(from + q.train + q.test - 1)]]

\* Too short for that: one window with a shorter training, or none.
Shortened(q) ==
  LET trainEnd == q.end - q.test
  IN IF trainEnd >= q.start + q.test
     THEN <<[train |-> q.start..trainEnd, test |-> (trainEnd + 1)..q.end]>> ELSE <<>>

Windows(q) == IF q.start + q.train + q.test > q.end THEN Shortened(q) ELSE Rolling(q)

\* WalkForward.run raises on these.
BadDays(q) == q.train <= 0 \/ q.test <= 0 \/ q.start >= q.end

\* _process_window: the first of the ranking is tested; a window may fail.
WindowResults(q) ==
  {[i \in DOMAIN Windows(q) |->
     [window |-> Windows(q)[i], best |-> Head(Ranked(q.combos)), failed |-> i \in lost]] :
   lost \in SUBSET DOMAIN Windows(q)}

Nothing == [ranking |-> <<>>, windows |-> <<>>]
Outcomes(q) ==
  CASE q.mode = "backtest" -> {Nothing}
    [] q.mode = "sweep" -> {[Nothing EXCEPT !.ranking = Ranked(q.combos)]}
    [] q.mode = "walk_forward" -> {[Nothing EXCEPT !.windows = w] : w \in WindowResults(q)}

-----------------------------------------------------------------------------
(* The runs *)

\* handle_backtest_run: the entry is made first; days that do not parse or a missing
\* grid are answered with an error then, and the entry stays.
LaunchesThread(q) == q.mode = "walk_forward" => q.parses /\ q.combos # <<>>
RunRequested ==
  /\ Len(request) < MaxRuns
  /\ \E q \in Requests :
       /\ request' = Append(request, q)
       /\ registry' = Append(registry, [status |-> "started", progress |-> 0])
       /\ thread' = Append(thread, IF LaunchesThread(q) THEN "run" ELSE "none")
  /\ outcome' = Append(outcome, Nothing) /\ saving' = Append(saving, 0)
  /\ UNCHANGED <<rows, errors, dashboardRestarts>>

\* _update_run_status: progress never goes back.
Updated(r, status, progress) ==
  [registry EXCEPT ![r] =
     [status |-> status, progress |-> IF progress > @.progress THEN progress ELSE @.progress]]

\* The thread is under way; the walk-forward and the sweep have built their configuration.
ThreadBegins(r) ==
  /\ thread[r] = "run" /\ registry[r].status = "started"
  /\ registry' = Updated(r, "running", IF request[r].mode = "backtest" THEN 0 ELSE 50)
  /\ UNCHANGED <<request, thread, outcome, saving, rows, errors, dashboardRestarts>>

ThreadComputes(r) ==
  /\ thread[r] = "run" /\ registry[r].status = "running"
  /\ request[r].mode = "walk_forward" => ~BadDays(request[r])
  /\ outcome' \in {[outcome EXCEPT ![r] = o] : o \in Outcomes(request[r])}
  /\ thread' = [thread EXCEPT ![r] = "save"]
  /\ registry' = Updated(r, "running", 80)
  /\ UNCHANGED <<request, saving, rows, errors, dashboardRestarts>>

\* The engine or the arguments raise, or PostgreSQL does: the run has failed.
ThreadFails(r) ==
  /\ thread[r] \in {"run", "save"} /\ registry[r].status = "running"
  /\ \/ thread[r] = "run" /\ request[r].mode = "walk_forward" /\ BadDays(request[r]) /\ UNCHANGED errors
     \/ errors < MaxErrors /\ errors' = errors + 1
  /\ registry' = Updated(r, "failed", 0)
  /\ thread' = [thread EXCEPT ![r] = "ended"]
  /\ UNCHANGED <<request, outcome, saving, rows, dashboardRestarts>>

\* save: a plain backtest has a row per instrument, all under the engine's id of the
\* result, so that the second only updates the metrics of the first; save_walk_forward
\* and save_sweep make one row under the run's own id.
RowKey(r) == [of |-> IF request[r].mode = "backtest" THEN "engine" ELSE "api", run |-> r]
BacktestRow(r) == [key |-> RowKey(r), instrument |-> saving[r] + 1, outcome |-> Nothing]
WalkForwardRow(r) == [key |-> RowKey(r), instrument |-> 1,
                      outcome |-> [Nothing EXCEPT !.windows = outcome[r].windows]]
SweepRow(r) == [key |-> RowKey(r), instrument |-> 1,
                outcome |-> [Nothing EXCEPT !.ranking = outcome[r].ranking]]
RowToSave(r) ==
  CASE request[r].mode = "backtest" -> BacktestRow(r)
    [] request[r].mode = "walk_forward" -> WalkForwardRow(r)
    [] request[r].mode = "sweep" -> SweepRow(r)
Upserted(row) == IF \E old \in rows : old.key = row.key
                 THEN {IF old.key = row.key THEN [old EXCEPT !.outcome = row.outcome] ELSE old : old \in rows}
                 ELSE rows \cup {row}
RowsToSave(r) == IF request[r].mode = "backtest" THEN request[r].instruments ELSE 1

ThreadSavesNothing(r) ==                           \* mutant: completed before it is saved
  /\ thread[r] = "save"
  /\ thread' = [thread EXCEPT ![r] = "ended"]
  /\ registry' = Updated(r, "completed", 100)
  /\ UNCHANGED <<request, outcome, saving, rows, errors, dashboardRestarts>>
ThreadSaves(r) ==
  /\ thread[r] = "save" /\ saving[r] < RowsToSave(r)
  /\ rows' = Upserted(RowToSave(r))
  /\ saving' = [saving EXCEPT ![r] = @ + 1]
  /\ IF saving[r] + 1 = RowsToSave(r)
     THEN thread' = [thread EXCEPT ![r] = "ended"] /\ registry' = Updated(r, "completed", 100)
     ELSE UNCHANGED <<thread, registry>>
  /\ UNCHANGED <<request, outcome, errors, dashboardRestarts>>

\* Registry and daemon threads go with the process; the rows stay.
DashboardRestarts ==
  /\ dashboardRestarts < MaxDashboardRestarts /\ dashboardRestarts' = dashboardRestarts + 1
  /\ registry' = [r \in RunsSoFar |-> NoEntry] /\ thread' = [r \in RunsSoFar |-> "ended"]
  /\ UNCHANGED <<request, outcome, saving, rows, errors>>

-----------------------------------------------------------------------------

BacktestingNext ==
  \/ RunRequested \/ DashboardRestarts
  \/ \E r \in RunsSoFar : ThreadBegins(r) \/ ThreadComputes(r) \/ ThreadFails(r) \/ ThreadSaves(r)

BacktestingSpec == BacktestingInit /\ [][BacktestingNext]_backtestingVars

-----------------------------------------------------------------------------
(* Properties *)

\* Whatever the threads, the failures and the restarts: a thread that ended has given
\* its verdict, and what is called completed is in the database, as computed.
VerdictsAreStored ==
  \A r \in RunsSoFar : registry[r] # NoEntry =>
    /\ thread[r] = "ended" => registry[r].status \in {"completed", "failed"}
    /\ registry[r].status = "completed" =>
         \E row \in rows : row.key = RowKey(r) /\ row.outcome = outcome[r]

LastOf(days) == CHOOSE d \in days : \A e \in days : e <= d

\* Walk-forward tests out of sample: every window of a stored result is tested on the
\* days right after its training, inside the range asked for, and no day is tested twice.
TestedOutOfSample ==
  \A row \in rows :
    LET q == request[row.key.run]
        w == [i \in DOMAIN row.outcome.windows |-> row.outcome.windows[i].window]
    IN q.mode = "walk_forward" =>
         /\ \A i \in DOMAIN w :
              /\ w[i].train \cup w[i].test \subseteq q.start..q.end
              /\ w[i].train # {} /\ w[i].test # {}
              /\ LastOf(w[i].train) + 1 \in w[i].test
              /\ w[i].train \cap w[i].test = {}
         /\ \A i, j \in DOMAIN w : i # j => w[i].test \cap w[j].test = {}
=============================================================================
