---------------------------- MODULE BundleDeployment ----------------------------
(* How strategies get into the trader: the operator edits bundles.yaml and runs  *)
(* `sam apply` (preflight, snapshot, restart, verify: services/cli.py), the      *)
(* trader reads the file when it boots (bundle_loader.py, main.py), and the      *)
(* bundle controller loads and unloads single bundles while it runs              *)
(* (controllers/bundle_controller.py).  The file can change, and the trader can  *)
(* go down, between any two steps.  A bundle is an id, a market, whether it is   *)
(* enabled and what is wrong with it:                                            *)
(*   "none"     nothing                                                          *)
(*   "schema"   a field the validator requires and the loader does not           *)
(*   "venue"    an unknown venue or no strategy path: both refuse it             *)
(*   "class"    a strategy class that does not exist: the loader does not look   *)
(*   "symbol"   an instrument Futu has no code for: the loader refuses it, the   *)
(*              validator only in front of its backtest                          *)
EXTENDS Naturals, Sequences

CONSTANTS
  Files,              \* what bundles.yaml may hold: sequences of bundles
  Sent,               \* bundles that are published on sam:bundle:load
  TraderMarket,       \* MARKET of the trader's environment
  MaxEdits, MaxDowns, MaxSent, MaxReloads, MaxApplies    \* bounds

Flaws == {"none", "schema", "venue", "class", "symbol"}
BundlesOf(f) == {f[i] : i \in DOMAIN f}
Ids == {b.id : b \in Sent \cup UNION {BundlesOf(f) : f \in Files}}
Markets == {"US", "HK"}

ASSUME DeploymentAssumption ==
  /\ \A b \in Sent \cup UNION {BundlesOf(f) : f \in Files} :
       b.enabled \in BOOLEAN /\ b.market \in Markets /\ b.flaw \in Flaws
  /\ TraderMarket \in Markets
  /\ {MaxEdits, MaxDowns, MaxSent, MaxReloads, MaxApplies} \subseteq Nat

VARIABLES
  file,               \* bundles.yaml
  apply,              \* the step sam apply is at, or how the last one ended
  checked, snapshot,  \* the file at its preflight, and in its snapshot in Redis
  trader,             \* "down", "starting" or "healthy"
  bootFile, running,  \* the file of the last boot; copies of each bundle that run
  market,             \* the controller's _active_market
  link,               \* the controller's listener: "off", "on" or "ended"
  heard, calls,       \* messages at the listener, and waiting on the node's loop
  edited,             \* the file changed since the preflight (history)
  touched,            \* the controller changed something since the boot (history)
  edits, downs, sent, reloads, applies

deploymentVars == <<file, apply, checked, snapshot, trader, bootFile, running, market, link,
                    heard, calls, edited, touched, edits, downs, sent, reloads, applies>>
operator == <<file, apply, checked, snapshot, edited>>
controller == <<market, link, heard, calls>>
deploymentCounts == <<edits, downs, sent, reloads, applies>>

-----------------------------------------------------------------------------
(* The validator and the loader *)

\* validate_bundles with backtest_gate=False: the class is looked up for enabled
\* bundles only.
Validates(f) ==
  \A b \in BundlesOf(f) : /\ b.flaw \notin {"schema", "venue"}
                          /\ b.enabled => b.flaw # "class"

Enabled(f) == SelectSeq(f, LAMBDA b : b.enabled)
\* load_bundles: one bundle that does not load, or an id given twice, and none load.
Loads(f) ==
  LET e == Enabled(f)
  IN /\ \A b \in BundlesOf(e) : b.flaw \notin {"venue", "symbol"}
     /\ \A i, j \in DOMAIN e : i # j => e[i].id # e[j].id

\* build_trading_node: a file that does not load means no strategies.
Started(f, m) == IF Loads(f) THEN SelectSeq(Enabled(f), LAMBDA b : b.market = m) ELSE <<>>
Copies(bundles) == [i \in Ids |-> Len(SelectSeq(bundles, LAMBDA b : b.id = i))]
NoneRunning == [i \in Ids |-> 0]
Constructs(b) == b.flaw \notin {"schema", "class"}

DeploymentInit ==
  /\ file \in Files /\ apply = "none" /\ checked = <<>> /\ snapshot = <<>>
  /\ trader = "down" /\ bootFile = <<>> /\ running = NoneRunning
  /\ market = TraderMarket
  /\ link = "off" /\ heard = <<>> /\ calls = <<>>
  /\ edited = FALSE /\ touched = FALSE
  /\ edits = 0 /\ downs = 0 /\ sent = 0 /\ reloads = 0 /\ applies = 0

-----------------------------------------------------------------------------
(* sam apply *)

Applying == apply \in {"checked", "snapped", "restarted"}

EditFile ==
  /\ edits < MaxEdits /\ edits' = edits + 1
  /\ file' \in Files \ {file} /\ edited' = TRUE
  /\ UNCHANGED <<apply, checked, snapshot, trader, bootFile, running, controller, touched,
                 downs, sent, reloads, applies>>

\* _run_health_checks: of the other services any may be down, too.
ServicesUp == trader = "healthy"

\* _run_preflight: the window, the validator and every service must pass, the trader's
\* health included; the hash of the last deployment is read from a key nobody writes, so
\* that the best result is a warning, and a warning goes on.
MayPass == Validates(file) /\ ServicesUp
Preflight ==
  /\ ~Applying /\ applies < MaxApplies /\ applies' = applies + 1
  /\ \/ MayPass /\ apply' = "checked" /\ checked' = file /\ edited' = FALSE
     \/ apply' = "aborted" /\ UNCHANGED <<checked, edited>>
  /\ UNCHANGED <<file, snapshot, trader, bootFile, running, controller, touched, edits,
                 downs, sent, reloads>>

CreateSnapshot ==
  /\ apply = "checked"
  /\ \/ apply' = "snapped" /\ snapshot' = file
     \/ apply' = "failed" /\ UNCHANGED snapshot                \* Redis does not answer
  /\ UNCHANGED <<file, checked, trader, bootFile, running, controller, edited, touched,
                 deploymentCounts>>

\* What the stop of the trader's process ends.
TraderEnds ==
  /\ trader' = "down" /\ running' = NoneRunning /\ link' = "off" /\ heard' = <<>> /\ calls' = <<>>
  /\ UNCHANGED <<bootFile, market>>

\* _signal_restart: without the trader's "saved" in time the restart is aborted, and
\* docker may fail; both end the apply.
RestartGoesOnUnconfirmed ==                                    \* mutant: aborted is not looked for
  /\ apply = "snapped"
  /\ \/ apply' = "restarted" /\ TraderEnds
     \/ apply' = "restarted" /\ UNCHANGED <<trader, running, link, heard, calls, bootFile, market>>
  /\ UNCHANGED <<file, checked, snapshot, edited, touched, deploymentCounts>>
SignalRestart ==
  /\ apply = "snapped"
  /\ \/ apply' = "restarted" /\ TraderEnds
     \/ apply' = "failed" /\ UNCHANGED <<trader, running, link, heard, calls, bootFile, market>>
  /\ UNCHANGED <<file, checked, snapshot, edited, touched, deploymentCounts>>

\* The health check has to pass, within the time and again in the verification;
\* whether sam:state_loaded still exists only decides about a warning.
Verify ==
  /\ apply = "restarted"
  /\ apply' \in {"failed"} \cup (IF ServicesUp THEN {"passed"} ELSE {})
  /\ UNCHANGED <<file, checked, snapshot, trader, bootFile, running, controller, edited,
                 touched, deploymentCounts>>

-----------------------------------------------------------------------------
(* The trader *)

\* build_trading_node and node.build, which fails on a strategy it cannot construct;
\* then the container starts the process again.
BootTrader ==
  LET bundles == Started(file, TraderMarket)
  IN /\ trader = "down" /\ \A i \in DOMAIN bundles : Constructs(bundles[i])
     /\ trader' = "starting" /\ bootFile' = file /\ running' = Copies(bundles)
     /\ market' = TraderMarket /\ touched' = FALSE
     /\ UNCHANGED <<operator, link, heard, calls, deploymentCounts>>

BecomesHealthy ==
  /\ trader = "starting" /\ trader' = "healthy"
  /\ UNCHANGED <<operator, bootFile, running, controller, touched, deploymentCounts>>

\* A crash, the host monitor or `sam restart`.
GoesDown ==
  /\ trader # "down" /\ downs < MaxDowns /\ downs' = downs + 1
  /\ TraderEnds
  /\ UNCHANGED <<operator, touched, edits, sent, reloads, applies>>

-----------------------------------------------------------------------------
(* The bundle controller *)

ControllerSubscribes ==
  /\ trader # "down" /\ link = "off" /\ link' \in {"on", "ended"}
  /\ UNCHANGED <<operator, trader, bootFile, running, market, heard, calls, touched,
                 deploymentCounts>>
ControllerEnds ==
  /\ link = "on" /\ link' = "ended" /\ heard' = <<>>
  /\ UNCHANGED <<operator, trader, bootFile, running, market, calls, touched,
                 deploymentCounts>>

\* Whoever publishes on the two channels; without a subscription nothing arrives.
PublishMessage ==
  /\ sent < MaxSent /\ sent' = sent + 1
  /\ \E what \in {"load", "unload"} : \E b \in Sent :
       heard' = IF link = "on" THEN Append(heard, [what |-> what, bundle |-> b]) ELSE heard
  /\ UNCHANGED <<operator, trader, bootFile, running, market, link, calls, touched,
                 edits, downs, reloads, applies>>

\* The listener waits for its call, ten seconds at the most: with a call that has
\* not run yet, the next message may or may not be dispatched.
DispatchRedis ==
  /\ link = "on" /\ heard # <<>>
  /\ heard' = Tail(heard) /\ calls' = Append(calls, Head(heard))
  /\ UNCHANGED <<operator, trader, bootFile, running, market, link, touched,
                 deploymentCounts>>

\* The engine may refuse a strategy (an id it has, a state it cannot add in) and a
\* removal; the handler logs it.
Loaded(b) == IF Constructs(b) /\ b.flaw \notin {"venue", "symbol"}
             THEN {running, [running EXCEPT ![b.id] = @ + 1]} ELSE {running}
Unloaded(b) == {running} \cup (IF running[b.id] > 0 THEN {[running EXCEPT ![b.id] = @ - 1]} ELSE {})
HandleRedisMessage ==
  /\ calls # <<>> /\ calls' = Tail(calls) /\ touched' = TRUE
  /\ running' \in IF Head(calls).what = "load" THEN Loaded(Head(calls).bundle)
                  ELSE Unloaded(Head(calls).bundle)
  /\ UNCHANGED <<operator, trader, bootFile, market, link, heard, deploymentCounts>>

\* reload_market: all go, then the file's bundles of the market come one by one; the
\* first that cannot be constructed ends it, and without any nothing is assigned.
ReloadMarket(m) ==
  LET bundles == Started(file, m)
      good == {n \in 0..Len(bundles) : \A i \in 1..n : Constructs(bundles[i])}
      upTo == CHOOSE n \in good : \A k \in good : k <= n
  IN /\ trader # "down" /\ reloads < MaxReloads /\ reloads' = reloads + 1
     /\ running' = Copies(SubSeq(bundles, 1, upTo))
     /\ market' = IF bundles # <<>> /\ upTo = Len(bundles) THEN m ELSE market
     /\ touched' = TRUE
     /\ UNCHANGED <<operator, trader, bootFile, link, heard, calls, edits, downs, sent,
                    applies>>

-----------------------------------------------------------------------------

DeploymentNext ==
  \/ EditFile \/ Preflight \/ CreateSnapshot \/ SignalRestart \/ Verify
  \/ BootTrader \/ BecomesHealthy \/ GoesDown
  \/ ControllerSubscribes \/ ControllerEnds \/ PublishMessage \/ DispatchRedis
  \/ HandleRedisMessage \/ \E m \in Markets : ReloadMarket(m)

DeploymentSpec == DeploymentInit /\ [][DeploymentNext]_deploymentVars

-----------------------------------------------------------------------------
(* Property *)

\* An apply that passed has deployed what it checked: unless somebody edits the file
\* after the preflight, a trader that runs then, through whatever restarts, runs the
\* validated file of the snapshot, and exactly its bundles for the market once the
\* file loads and nobody told the controller otherwise.
DeployedIsSnapshot ==
  apply = "passed" /\ ~edited /\ trader # "down" =>
    /\ bootFile = snapshot /\ snapshot = checked /\ Validates(bootFile)
    /\ ~touched => running = Copies(Started(snapshot, TraderMarket))
=============================================================================
