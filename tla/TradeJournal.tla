------------------------------ MODULE TradeJournal ------------------------------
(* What the trader writes to PostgreSQL while it trades: every fill and its      *)
(* order (actors/trade_journal.py), the positions now and then                   *)
(* (position_snapshot.py), and the end-of-day report, which is put together from *)
(* the journal and the engine's cache (eod_reporter.py).  All are tasks on the   *)
(* node's loop that any fill can come between, and none tries again what failed. *)
EXTENDS Integers, Sequences, FiniteSets, Functions

CONSTANTS
  Holdings,           \* instruments, one order each and a strategy of its own for each
  OrderSize,
  NoRow,
  MaxFillsSeen, MaxReplays, MaxBoots, MaxDbErrors     \* bounds

ASSUME JournalAssumption ==
  /\ IsFiniteSet(Holdings) /\ OrderSize \in Nat \ {0}
  /\ NoRow \notin {"PARTIALLY_FILLED", "FILLED"}
  /\ {MaxFillsSeen, MaxReplays, MaxBoots, MaxDbErrors} \subseteq Nat

VARIABLES
  made,               \* the fills so far, oldest first: [of, qty]; a trade id is an index
  cached,             \* instruments with a position in the cache, flat ones included
  pool, snapshotPool, \* "off", "creating" or "ready"
  persisting,         \* _persist_fill under way: [trade, step]
  orderRows,          \* per order: its status when its row was made, or NoRow
  fillRows,           \* trade ids in fills, each as often as it is there
  lost,               \* fills handed to the journal that are in no table (history)
  todo,               \* instruments the snapshot under way has yet to write
  positionRows,       \* per instrument: net_quantity, or NoRow
  dirty,              \* instruments that changed since the last snapshot of them began,
                      \* or whose write failed (history)
  totals,             \* strategies with a total of the day in Redis
  report,             \* the report under way: where it is, its sections, and whether
                      \* the trader was at rest all the while (history)
  dailyReport,        \* the day's row in daily_reports
  replays, boots, dbErrors

journalVars == <<made, cached, pool, snapshotPool, persisting, orderRows, fillRows, lost, todo,
                 positionRows, dirty, totals, report, dailyReport, replays, boots, dbErrors>>
journal == <<pool, persisting, orderRows, fillRows, lost, totals>>
snapshots == <<snapshotPool, todo, positionRows>>

\* A section: the strategies whose total it has from Redis, the trades it has from the
\* fills table, and whether a failed call left trades out of it.
Section(found, trades, failed) == [totals |-> found, trades |-> trades, failed |-> failed]
NoSection == Section({}, {}, FALSE)
NoReport == [at |-> "none", pnl |-> NoSection, fills |-> NoSection, drawdown |-> NoSection,
             open |-> {}, calm |-> FALSE]

JournalInit ==
  /\ made = <<>> /\ cached = {}
  /\ pool = "creating" /\ snapshotPool = "creating" /\ persisting = {}
  /\ orderRows = [i \in Holdings |-> NoRow] /\ fillRows = <<>> /\ lost = {}
  /\ todo = {} /\ positionRows = [i \in Holdings |-> NoRow] /\ dirty = Holdings
  /\ totals = {} /\ report = NoReport /\ dailyReport = NoReport
  /\ replays = 0 /\ boots = 0 /\ dbErrors = 0

FillsOf(i, trades) == {t \in trades : made[t].of = i}
Net(i, trades) == SumFunction([t \in FillsOf(i, trades) |-> made[t].qty])
Volume(i, trades) == SumFunction([t \in FillsOf(i, trades) |-> IF made[t].qty < 0 THEN -made[t].qty ELSE made[t].qty])
Trades == DOMAIN made
StoredTrades == Range(fillRows)
Disturbed == [report EXCEPT !.calm = FALSE]

\* A call to PostgreSQL that fails.
DbFails == dbErrors < MaxDbErrors /\ dbErrors' = dbErrors + 1

-----------------------------------------------------------------------------
(* The journal *)

\* _create_pool, of both actors; a failure is logged and the pool stays away.
PoolReady ==
  /\ \/ pool = "creating" /\ UNCHANGED snapshotPool
        /\ \/ pool' = "ready" /\ UNCHANGED dbErrors
           \/ DbFails /\ pool' = "off"
     \/ snapshotPool = "creating" /\ UNCHANGED pool
        /\ \/ snapshotPool' = "ready" /\ UNCHANGED dbErrors
           \/ DbFails /\ snapshotPool' = "off"
  /\ UNCHANGED <<made, cached, persisting, orderRows, fillRows, lost, todo, positionRows, dirty,
                 totals, report, dailyReport, replays, boots>>

\* on_order_filled: without a pool the fill is dropped.
Taken(trade) ==
  IF pool = "ready" THEN persisting' = persisting \cup {[trade |-> trade, step |-> "order"]} /\ UNCHANGED lost
  ELSE lost' = lost \cup ({trade} \ StoredTrades) /\ UNCHANGED persisting

OrderFilled(i, qty) ==
  /\ Len(made) < MaxFillsSeen
  /\ made' = Append(made, [of |-> i, qty |-> qty])
  /\ cached' = cached \cup {i} /\ dirty' = dirty \cup {i} /\ report' = Disturbed
  /\ Taken(Len(made) + 1)
  /\ UNCHANGED <<pool, orderRows, fillRows, snapshots, totals, dailyReport, replays, boots, dbErrors>>

\* Reconciliation may hand over a fill again that an earlier process journalled.
FillReplayed(trade) ==
  /\ boots > 0 /\ replays < MaxReplays /\ replays' = replays + 1
  /\ trade \notin {t.trade : t \in persisting}
  /\ Taken(trade) /\ report' = Disturbed
  /\ UNCHANGED <<made, cached, pool, orderRows, fillRows, snapshots, dirty, totals,
                 dailyReport, boots, dbErrors>>

\* _upsert_order: the row is made with the status of then and stays as it is.
StatusOf(i) == IF Volume(i, Trades) >= OrderSize THEN "FILLED" ELSE "PARTIALLY_FILLED"
UpsertOrder(task) ==
  LET i == made[task.trade].of
  IN /\ task.step = "order" /\ pool = "ready"
     /\ orderRows' = IF orderRows[i] = NoRow THEN [orderRows EXCEPT ![i] = StatusOf(i)] ELSE orderRows
     /\ persisting' = (persisting \ {task}) \cup {[task EXCEPT !.step = "fill"]}
     /\ UNCHANGED <<made, cached, pool, fillRows, lost, snapshots, dirty, totals, report, dailyReport,
                    replays, boots, dbErrors>>

\* _write_fill: ON CONFLICT (trade_id) DO NOTHING.
WriteFill(task) ==
  /\ task.step = "fill" /\ pool = "ready"
  /\ fillRows' = IF task.trade \in StoredTrades THEN fillRows ELSE Append(fillRows, task.trade)
  /\ persisting' = persisting \ {task} /\ lost' = lost \ {task.trade}
  /\ UNCHANGED <<made, cached, pool, orderRows, snapshots, dirty, totals, report, dailyReport, replays,
                 boots, dbErrors>>

\* Either call fails, or finds the pool gone: the fill is logged and forgotten.
PersistFails(task) ==
  /\ IF pool = "ready" THEN DbFails ELSE UNCHANGED dbErrors
  /\ persisting' = persisting \ {task} /\ lost' = lost \cup ({task.trade} \ StoredTrades)
  /\ UNCHANGED <<made, cached, pool, orderRows, fillRows, snapshots, dirty, totals, report, dailyReport,
                 replays, boots>>

-----------------------------------------------------------------------------
(* Snapshots of the positions *)

\* _snapshot_positions, every interval: all positions of the cache, closed ones too.
SnapshotOpenOnly ==                                   \* mutant: open positions only
  /\ snapshotPool = "ready" /\ todo = {} /\ cached # {}
  /\ todo' = {i \in cached : Net(i, Trades) # 0} /\ dirty' = dirty \ cached
  /\ UNCHANGED <<made, cached, journal, snapshotPool, positionRows, report, dailyReport, replays, boots, dbErrors>>
SnapshotBegins ==
  /\ snapshotPool = "ready" /\ todo = {} /\ cached # {}
  /\ todo' = cached /\ dirty' = dirty \ cached
  /\ UNCHANGED <<made, cached, journal, snapshotPool, positionRows, report, dailyReport, replays, boots, dbErrors>>
SnapshotWrites(i) ==
  /\ i \in todo /\ todo' = todo \ {i}
  /\ \/ positionRows' = [positionRows EXCEPT ![i] = Net(i, Trades)] /\ UNCHANGED <<dirty, dbErrors>>
     \/ DbFails /\ dirty' = dirty \cup {i} /\ UNCHANGED positionRows
  /\ UNCHANGED <<made, cached, journal, snapshotPool, report, dailyReport, replays, boots>>

-----------------------------------------------------------------------------
(* The end-of-day report.  Its sections are put together one after the other, each *)
(* from queries of its own; what fails leaves its part out, and the rest goes on.    *)

\* The tracker of realized P&L keeps a total per strategy in Redis, from the first of its
\* fills that got there.
TotalStored(i) ==
  /\ i \in Holdings \ totals /\ FillsOf(i, Trades) # {}
  /\ totals' = totals \cup {i} /\ report' = Disturbed
  /\ UNCHANGED <<made, cached, pool, persisting, orderRows, fillRows, lost, snapshots, dirty,
                 dailyReport, replays, boots, dbErrors>>

\* What is read of Redis, all the totals or those before its failure, and of the fills.
One(fails) == IF fails THEN 1 ELSE 0
CallsFail(n) == dbErrors + n <= MaxDbErrors /\ dbErrors' = dbErrors + n
Selected(failed, skip) == IF failed THEN {} ELSE {t \in StoredTrades : made[t].of \notin skip}

\* The alert comes once a day, and this is one day.  Redis' totals, and the fills of the
\* strategies not found there.  A strategy whose key is listed and whose value cannot be
\* read counts as found and comes from neither; nothing in the section tells of a failure.
ReportPnl ==
  /\ report = NoReport /\ dailyReport = NoReport
  /\ \E found, unread \in SUBSET totals, failed \in BOOLEAN :
       /\ unread \cap found = {} /\ Cardinality(unread) <= 1
       /\ CallsFail(One(found # totals) + One(failed))
       /\ report' = [NoReport EXCEPT !.at = "pnl", !.calm = persisting = {} /\ lost = {},
                        !.pnl = Section(found, Selected(failed, found \cup unread), failed \/ unread # {})]
  /\ UNCHANGED <<made, cached, journal, snapshots, dirty, dailyReport, replays, boots>>
ReportFills ==
  /\ report.at = "pnl"
  /\ \E failed \in BOOLEAN :
       /\ CallsFail(One(failed))
       /\ report' = [report EXCEPT !.at = "fills", !.fills = Section({}, Selected(failed, {}), failed)]
  /\ UNCHANGED <<made, cached, journal, snapshots, dirty, dailyReport, replays, boots>>
\* The fills are asked only when not one total was found.
ReportDrawdown ==
  /\ report.at = "fills"
  /\ \E found \in SUBSET totals, failed \in BOOLEAN :
       /\ failed => found = {}
       /\ CallsFail(One(found # totals) + One(failed))
       /\ report' = [report EXCEPT !.at = "drawdown",
                        !.drawdown = Section(found, Selected(failed \/ found # {}, {}), failed)]
  /\ UNCHANGED <<made, cached, journal, snapshots, dirty, dailyReport, replays, boots>>
\* The positions are the cache's; nothing is awaited for them.
ReportPositions ==
  /\ report.at = "drawdown"
  /\ report' = [report EXCEPT !.at = "positions", !.open = {i \in cached : Net(i, Trades) # 0}]
  /\ UNCHANGED <<made, cached, journal, snapshots, dirty, dailyReport, replays, boots, dbErrors>>
\* A write that fails is logged.
ReportWritten ==
  /\ report.at = "positions" /\ report' = NoReport
  /\ \/ dailyReport' = report /\ UNCHANGED dbErrors
     \/ DbFails /\ UNCHANGED dailyReport
  /\ UNCHANGED <<made, cached, journal, snapshots, dirty, replays, boots>>
-----------------------------------------------------------------------------
(* The trader *)

\* on_stop of the actors: the pools are gone, tasks under way find out.
StopActors ==
  /\ boots < MaxBoots /\ pool # "off"
  /\ pool' = "off" /\ snapshotPool' = "off"
  /\ todo' = {} /\ dirty' = dirty \cup todo
  /\ UNCHANGED <<made, cached, persisting, orderRows, fillRows, lost, positionRows, totals,
                 report, dailyReport, replays, boots, dbErrors>>

\* A new process: open positions come back from the venue, closed ones do not.
JournalBoot ==
  /\ boots < MaxBoots /\ boots' = boots + 1
  /\ lost' = lost \cup ({t.trade : t \in persisting} \ StoredTrades)
  /\ persisting' = {} /\ todo' = {} /\ pool' = "creating" /\ snapshotPool' = "creating"
  /\ cached' = {i \in Holdings : Net(i, Trades) # 0} /\ dirty' = Holdings
  /\ report' = NoReport
  /\ UNCHANGED <<made, orderRows, fillRows, positionRows, totals, dailyReport, replays, dbErrors>>

-----------------------------------------------------------------------------

JournalNext ==
  \/ PoolReady \/ SnapshotBegins \/ \E i \in Holdings : SnapshotWrites(i)
  \/ \E i \in Holdings, qty \in {-1, 1} : OrderFilled(i, qty)
  \/ \E trade \in Trades : FillReplayed(trade)
  \/ \E task \in persisting : UpsertOrder(task) \/ WriteFill(task) \/ PersistFails(task)
  \/ \E i \in Holdings : TotalStored(i)
  \/ ReportPnl \/ ReportFills \/ ReportDrawdown \/ ReportPositions \/ ReportWritten
  \/ StopActors \/ JournalBoot

JournalSpec == JournalInit /\ [][JournalNext]_journalVars

-----------------------------------------------------------------------------
(* Property *)

\* The sections of a report agree: the fills summary never misses a trade the P&L was
\* worked out from, nor a drawdown worked out from fills one of either, unless a
\* call of its own failed.  When nothing happened meanwhile, every strategy with fills is in the
\* P&L once, by its total or by all its trades, the drawdown is over the same trades, and
\* the open positions are what they add up to.
SectionsAgree(r) ==
  /\ ~r.fills.failed => r.pnl.trades \subseteq r.fills.trades
  /\ ~r.drawdown.failed /\ r.drawdown.totals = {} =>
       r.pnl.trades \cup r.fills.trades \subseteq r.drawdown.trades
  /\ r.calm /\ ~r.fills.failed =>
       /\ ~r.pnl.failed => r.pnl.trades = {t \in r.fills.trades : made[t].of \notin r.pnl.totals}
       /\ ~r.drawdown.failed /\ r.drawdown.totals = {} => r.drawdown.trades = r.fills.trades
       /\ r.open = {i \in Holdings : Net(i, r.fills.trades) # 0}

\* The tables agree with each other, whatever was replayed, dropped, failed or restarted:
\* with every fill of the journal in (none lost, none under way), the quantities of the
\* fills, each of which has one row, add up to the position row of an instrument at
\* rest; a fill never stands without its order; and the sections of the stored report,
\* read one after the other while fills go on, agree.
TablesAgree ==
  /\ lost = {} /\ persisting = {} /\ todo = {} =>
       \A i \in cached \ dirty : positionRows[i] = Net(i, StoredTrades)
  /\ IsInjective(fillRows)
  /\ SectionsAgree(dailyReport)
  /\ \A trade \in StoredTrades : orderRows[made[trade].of] # NoRow
=============================================================================
