------------------------------- MODULE MCServices -------------------------------
(* The services and watchdogs around the trader for TLC, side by side, and the   *)
(* realized result: one of them moves in a behaviour, the others rest.           *)
EXTENDS RealizedPnl, PremarketPipeline, BundleDeployment, MarketCalendar, Backtesting,
        HostMonitor, Backups, BarCatalog

CONSTANTS s1, s2

VARIABLE active

servicesVars == <<pipelineVars, deploymentVars, calendarVars, backtestingVars, monitorVars,
                  backupVars, catalogVars, vars, active>>

-----------------------------------------------------------------------------
(* Values of the constants *)

Entry(i, m, e, f) == [id |-> i, market |-> m, enabled |-> e, flaw |-> f]
BundleFiles ==
  {<<Entry("a", "US", TRUE, "none"), Entry("b", "HK", TRUE, "none")>>,
   <<Entry("a", "US", TRUE, "none"), Entry("a", "US", TRUE, "none")>>,
   <<Entry("a", "US", TRUE, "none"), Entry("b", "US", TRUE, "schema")>>,
   <<Entry("a", "US", TRUE, "symbol"), Entry("b", "HK", FALSE, "class")>>,
   <<Entry("b", "HK", TRUE, "none")>>}
SentBundles == {Entry("a", "US", TRUE, "none"), Entry("b", "US", TRUE, "class")}

Ask(mode, n, combos, end, train, test, parses) ==
  [mode |-> mode, instruments |-> n, combos |-> combos, start |-> 0, end |-> end,
   train |-> train, test |-> test, parses |-> parses]
AskedRuns ==
  {Ask("backtest", 2, <<>>, 3, 0, 0, TRUE), Ask("sweep", 1, <<1, 3, 2>>, 3, 0, 0, TRUE),
   Ask("walk_forward", 1, <<1>>, 3, 1, 1, FALSE)}
  \cup {Ask("walk_forward", 1, <<2, 1>>, end, train, test, TRUE) :
          end \in {4, 6}, train \in {0, 2, 3, 5}, test \in {1, 2}}

HolidaySets == {{}, {2}}
EarlySets == {{2}}

-----------------------------------------------------------------------------

Parts == {"pipeline", "deployment", "calendar", "backtesting", "monitor", "backups", "catalog", "pnl"}

ServicesInit ==
  /\ active \in Parts
  /\ PipelineInit
  /\ DeploymentInit /\ (active # "deployment" => file = CHOOSE f \in Files : TRUE)
  /\ CalendarInit /\ (active # "calendar" => environment.holidays = {})
  /\ BacktestingInit /\ MonitorInit /\ BackupInit /\ CatalogInit /\ Init

Moves(part) == active = part /\ UNCHANGED active

PipelineStep ==
  /\ Moves("pipeline") /\ PipelineNext
  /\ UNCHANGED <<deploymentVars, calendarVars, backtestingVars, monitorVars, backupVars, catalogVars, vars>>
DeploymentStep ==
  /\ Moves("deployment") /\ DeploymentNext
  /\ UNCHANGED <<pipelineVars, calendarVars, backtestingVars, monitorVars, backupVars, catalogVars, vars>>
CalendarStep ==
  /\ Moves("calendar") /\ CalendarNext
  /\ UNCHANGED <<pipelineVars, deploymentVars, backtestingVars, monitorVars, backupVars, catalogVars, vars>>
BacktestingStep ==
  /\ Moves("backtesting") /\ BacktestingNext
  /\ UNCHANGED <<pipelineVars, deploymentVars, calendarVars, monitorVars, backupVars, catalogVars, vars>>
MonitorStep ==
  /\ Moves("monitor") /\ MonitorNext
  /\ UNCHANGED <<pipelineVars, deploymentVars, calendarVars, backtestingVars, backupVars, catalogVars, vars>>
BackupStep ==
  /\ Moves("backups") /\ BackupNext
  /\ UNCHANGED <<pipelineVars, deploymentVars, calendarVars, backtestingVars, monitorVars, catalogVars, vars>>
CatalogStep ==
  /\ Moves("catalog") /\ CatalogNext
  /\ UNCHANGED <<pipelineVars, deploymentVars, calendarVars, backtestingVars, monitorVars, backupVars, vars>>
PnlStep ==
  /\ Moves("pnl") /\ Next
  /\ UNCHANGED <<pipelineVars, deploymentVars, calendarVars, backtestingVars, monitorVars, backupVars, catalogVars>>

ServicesNext ==
  \/ PipelineStep \/ DeploymentStep \/ CalendarStep \/ BacktestingStep
  \/ MonitorStep \/ BackupStep \/ CatalogStep \/ PnlStep

ServicesSpec == ServicesInit /\ [][ServicesNext]_servicesVars
=============================================================================
