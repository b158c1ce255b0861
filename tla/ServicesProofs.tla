----------------------------- MODULE ServicesProofs -----------------------------
(* What holds of the services around the trader for every value of their       *)
(* constants: an apply that passed has deployed what it checked, the last       *)
(* complete backup outlives those that fail, holes of the catalog are asked     *)
(* for, restarts back off, verdicts are stored and tested out of sample, the    *)
(* calendar's answers are recent, no bundle goes around a check.                *)
EXTENDS BundleDeployment, Backups, HostMonitor, BarCatalog, Backtesting, MarketCalendar, PremarketPipeline,
        SequenceTheorems, FiniteSetTheorems, TLAPS

-----------------------------------------------------------------------------
(* Deployment *)

\* Without an edit since the preflight, the file is what each step of the apply has
\* taken of it so far; and a trader runs what it booted from unless it was told else.
DeploymentInv ==
  /\ apply = "checked" /\ ~edited => checked = file /\ Validates(file)
  /\ apply \in {"snapped", "restarted", "passed"} /\ ~edited =>
       checked = file /\ snapshot = file /\ Validates(file)
  /\ apply \in {"restarted", "passed"} /\ ~edited /\ trader # "down" => bootFile = file
  /\ trader # "down" /\ ~touched => running = Copies(Started(bootFile, TraderMarket))

LEMMA ApplySteps ==
  ASSUME DeploymentInv, Preflight \/ CreateSnapshot \/ SignalRestart \/ Verify
  PROVE DeploymentInv'
<1>1. CASE Preflight
  BY <1>1 DEF Preflight, DeploymentInv, Applying, MayPass, controller
<1>2. CASE CreateSnapshot
  BY <1>2 DEF CreateSnapshot, DeploymentInv
<1>3. CASE SignalRestart
  BY <1>3 DEF SignalRestart, TraderEnds, DeploymentInv
<1>4. CASE Verify
  BY <1>4 DEF Verify, ServicesUp, DeploymentInv
<1> QED BY <1>1, <1>2, <1>3, <1>4

LEMMA TraderSteps ==
  ASSUME DeploymentInv, BootTrader \/ BecomesHealthy \/ GoesDown
  PROVE DeploymentInv'
<1> USE DEF operator
<1>1. CASE BootTrader
  BY <1>1 DEF BootTrader, DeploymentInv
<1>2. CASE BecomesHealthy
  BY <1>2 DEF BecomesHealthy, DeploymentInv
<1>3. CASE GoesDown
  BY <1>3 DEF GoesDown, TraderEnds, DeploymentInv
<1> QED BY <1>1, <1>2, <1>3

\* The controller changes what runs only together with "touched".
LEMMA ControllerSteps ==
  ASSUME DeploymentInv,
         \/ ControllerSubscribes \/ ControllerEnds \/ PublishMessage \/ DispatchRedis
         \/ HandleRedisMessage \/ \E m \in Markets : ReloadMarket(m)
  PROVE DeploymentInv'
<1> USE DEF operator, DeploymentInv
<1>1. CASE ControllerSubscribes
  BY <1>1 DEF ControllerSubscribes
<1>2. CASE ControllerEnds
  BY <1>2 DEF ControllerEnds
<1>3. CASE PublishMessage
  BY <1>3 DEF PublishMessage
<1>4. CASE DispatchRedis
  BY <1>4 DEF DispatchRedis
<1>5. CASE HandleRedisMessage
  BY <1>5 DEF HandleRedisMessage
<1>6. ASSUME NEW m \in Markets, ReloadMarket(m) PROVE DeploymentInv'
  <2>1. touched' /\ UNCHANGED <<operator, trader, bootFile>>
    BY <1>6 DEF ReloadMarket
  <2> QED BY <2>1
<1> QED BY <1>1, <1>2, <1>3, <1>4, <1>5, <1>6

\* After an apply that passed, a trader that runs runs the validated file of the
\* snapshot, and its bundles of the market, unless the file is edited or the
\* controller told otherwise: for any files, crashes, restarts and messages.
THEOREM DeployedHolds == DeploymentSpec => []DeployedIsSnapshot
<1>1. DeploymentInit => DeploymentInv
  BY DEF DeploymentInit, DeploymentInv
<1>2. DeploymentInv /\ [DeploymentNext]_deploymentVars => DeploymentInv'
  <2> SUFFICES ASSUME DeploymentInv, [DeploymentNext]_deploymentVars PROVE DeploymentInv'
    OBVIOUS
  <2>1. CASE EditFile
    BY <2>1 DEF EditFile, DeploymentInv, controller
  <2>2. CASE UNCHANGED deploymentVars
    BY <2>2 DEF deploymentVars, DeploymentInv
  <2> QED BY <2>1, <2>2, ApplySteps, TraderSteps, ControllerSteps DEF DeploymentNext
<1>3. DeploymentInv => DeployedIsSnapshot
  BY DEF DeploymentInv, DeployedIsSnapshot
<1> QED BY <1>1, <1>2, <1>3, PTL DEF DeploymentSpec

-----------------------------------------------------------------------------
(* Backups *)

Versions == 0..NoVersion
DumpOrder == [postgres |-> 1, redis |-> 2, futu_volume |-> 3, config |-> 4]
StepOrder == [postgres |-> 0, bgsave |-> 1, redis |-> 1, futu_volume |-> 2, config |-> 3,
              pack |-> 4]

BackupTypeOK ==
  /\ night \in Nat /\ succeeded \subseteq 0..night
  /\ live \in [Components -> 0..MaxChanges] /\ rdbOnDisk \in 0..MaxChanges
  /\ dumped \in [Components -> Versions]
  /\ archives \subseteq [night : Nat, holds : [Components -> Versions], whole : BOOLEAN]
  /\ step \in DOMAIN StepOrder \cup {"cleanup", "idle"}
  /\ restoring \in [holds : [Components -> Versions], left : Seq(Components)]

\* What is behind the step has been dumped, what is whole has everything, and nothing is
\* cleaned up in a night without a backup.
BackupInv ==
  /\ BackupTypeOK
  /\ step \in DOMAIN StepOrder =>
       \A c \in Components : DumpOrder[c] <= StepOrder[step] => dumped[c] # NoVersion
  /\ \A a \in archives : a.whole => \A c \in Components : a.holds[c] # NoVersion
  /\ restoring.left # <<>> => \A c \in Components : restoring.holds[c] # NoVersion
  /\ step = "cleanup" => night \in succeeded
  /\ \A n \in succeeded : (\A m \in succeeded : m <= n) => \E a \in archives : a.whole /\ a.night = n

LEMMA VersionRange ==
  /\ 0..MaxChanges \subseteq Versions /\ NoVersion \in Versions /\ NoVersion \notin 0..MaxChanges
  /\ Versions = 0..MaxChanges \cup {NoVersion}
  /\ NoDump \in [Components -> Versions]
<1>1. MaxChanges \in Nat
  BY BackupAssumption
<1>2. Versions = 0..(MaxChanges + 1) /\ NoVersion = MaxChanges + 1
  BY DEF Versions, NoVersion
<1>3. NoVersion \in Versions
  BY <1>1, <1>2
<1> QED BY <1>1, <1>2, <1>3 DEF NoDump

\* The dumps one after the other; the fourth makes the archive complete.
LEMMA DumpStep ==
  ASSUME BackupInv, NEW c \in Components, Dump(c)
  PROVE BackupInv'
<1> USE DEF BackupInv, BackupTypeOK
<1>1. PICK v \in 0..MaxChanges : dumped' = [dumped EXCEPT ![c] = v]
  BY DEF Dump, Components
<1>2. /\ step = c /\ step' = NextStep[c]
      /\ UNCHANGED <<night, live, rdbOnDisk, archives, succeeded, restoring>>
  BY DEF Dump
<1>3. dumped' \in [Components -> Versions] /\ v # NoVersion /\ v \in Versions
  BY <1>1, VersionRange
<1>4. step' \in DOMAIN StepOrder /\ step' # "cleanup"
  BY <1>2 DEF NextStep, StepOrder, Components
<1>5. ASSUME NEW d \in Components, DumpOrder[d] <= StepOrder[step'] PROVE dumped'[d] # NoVersion
  <2>1. d = c \/ DumpOrder[d] <= StepOrder[step]
    BY <1>2, <1>5 DEF NextStep, StepOrder, DumpOrder, Components
  <2> QED BY <2>1, <1>1, <1>2, <1>3 DEF StepOrder, Components
<1> QED BY <1>2, <1>3, <1>4, <1>5

LEMMA PackStep ==
  ASSUME BackupInv, Pack
  PROVE BackupInv'
<1> DEFINE a == [night |-> night, holds |-> dumped, whole |-> TRUE]
<1>1. /\ step = "pack" /\ step' = "cleanup" /\ archives' = archives \cup {a}
      /\ succeeded' = succeeded \cup {night} /\ dumped' = NoDump
      /\ UNCHANGED <<night, live, rdbOnDisk, restoring>>
  BY DEF Pack, NextStep
<1>2. \A c \in Components : dumped[c] # NoVersion
  BY <1>1 DEF BackupInv, StepOrder, DumpOrder, Components
<1>3. NoDump \in [Components -> Versions]
  BY VersionRange
<1>4. BackupTypeOK'
  <2>1. a \in [night : Nat, holds : [Components -> Versions], whole : BOOLEAN]
    BY DEF BackupInv, BackupTypeOK
  <2>2. succeeded' \subseteq 0..night
    BY <1>1 DEF BackupInv, BackupTypeOK
  <2> HIDE DEF a
  <2> QED BY <1>1, <1>3, <2>1, <2>2 DEF BackupInv, BackupTypeOK
<1>5. \A b \in archives' : b.whole => \A c \in Components : b.holds[c] # NoVersion
  BY <1>1, <1>2 DEF BackupInv
<1>6. ASSUME NEW n \in succeeded', \A m \in succeeded' : m <= n
      PROVE \E b \in archives' : b.whole /\ b.night = n
  <2>1. n = night
    BY <1>1, <1>6 DEF BackupInv, BackupTypeOK
  <2>2. a \in archives' /\ a.whole /\ a.night = night
    BY <1>1
  <2> HIDE DEF a
  <2> QED BY <2>1, <2>2
<1>7. night' \in succeeded' /\ step' \notin DOMAIN StepOrder
  BY <1>1 DEF StepOrder
<1>8. restoring'.left # <<>> => \A c \in Components : restoring'.holds[c] # NoVersion
  BY <1>1 DEF BackupInv
<1> QED BY <1>4, <1>5, <1>6, <1>7, <1>8 DEF BackupInv

\* The archive of this night is not old, and this night's backup is complete.
LEMMA CleanupStep ==
  ASSUME BackupInv, CleanupOldBackups
  PROVE BackupInv'
<1>1. /\ step = "cleanup" /\ step' = "idle"
      /\ UNCHANGED <<night, live, rdbOnDisk, dumped, succeeded, restoring>>
  BY DEF CleanupOldBackups
<1>2. PICK thisDay \in {night, night + 1} : archives' = {a \in archives : ~Old(a, thisDay)}
  BY DEF CleanupOldBackups
<1>3. BackupTypeOK'
  BY <1>1, <1>2 DEF BackupInv, BackupTypeOK
<1>4. ASSUME NEW n \in succeeded', \A m \in succeeded' : m <= n
      PROVE \E b \in archives' : b.whole /\ b.night = n
  <2>1. n = night
    BY <1>1, <1>4 DEF BackupInv, BackupTypeOK
  <2>2. PICK b \in archives : b.whole /\ b.night = n
    BY <1>1, <1>4 DEF BackupInv
  <2>3. ~Old(b, thisDay)
    BY <2>1, <2>2, BackupAssumption DEF Old, BackupInv, BackupTypeOK
  <2> QED BY <1>2, <2>2, <2>3
<1> QED BY <1>1, <1>2, <1>3, <1>4 DEF BackupInv, StepOrder

LEMMA BackupFailsStep ==
  ASSUME BackupInv, BackupFails
  PROVE BackupInv'
<1>1. /\ step' = "idle" /\ dumped' = NoDump /\ archives' \in {archives, archives \cup {Torn}}
      /\ UNCHANGED <<night, live, rdbOnDisk, succeeded, restoring>>
  BY DEF BackupFails
<1>2. NoDump \in [Components -> Versions]
  BY VersionRange
<1>3. /\ Torn \in [night : Nat, holds : [Components -> Versions], whole : BOOLEAN]
      /\ ~Torn.whole
  BY <1>2 DEF BackupInv, BackupTypeOK, Torn
<1>4. BackupTypeOK'
  BY <1>1, <1>2, <1>3 DEF BackupInv, BackupTypeOK
<1> QED BY <1>1, <1>3, <1>4 DEF BackupInv, StepOrder

LEMMA RestoreSteps ==
  ASSUME BackupInv, RestoreBegins \/ RestoreNext \/ RestoreFails
  PROVE BackupInv'
<1>0. NotRestoring \in [holds : [Components -> Versions], left : Seq(Components)]
  BY VersionRange DEF NotRestoring
<1>1. CASE RestoreBegins
  <2>1. UNCHANGED <<night, live, rdbOnDisk, step, dumped, archives, succeeded>>
    BY <1>1 DEF RestoreBegins
  <2>2. PICK a \in archives : a.whole /\ restoring' = [holds |-> a.holds, left |-> RestoreOrder]
    BY <1>1 DEF RestoreBegins
  <2>3. RestoreOrder \in Seq(Components)
    BY DEF RestoreOrder, Components
  <2> QED BY <2>1, <2>2, <2>3 DEF BackupInv, BackupTypeOK
<1>2. CASE RestoreNext
  <2> DEFINE c == Head(restoring.left)
             back == Tail(restoring.left)
  <2>1. /\ restoring' = IF back = <<>> THEN NotRestoring ELSE [restoring EXCEPT !.left = back]
        /\ live' = IF c = "redis" THEN live ELSE [live EXCEPT ![c] = restoring.holds[c]]
        /\ rdbOnDisk' = IF c = "redis" THEN restoring.holds[c] ELSE rdbOnDisk
        /\ UNCHANGED <<night, step, dumped, archives, succeeded>>
        /\ restoring.left # <<>>
    BY <1>2 DEF RestoreNext
  <2>2. c \in Components /\ back \in Seq(Components)
    BY <2>1, HeadTailProperties DEF BackupInv, BackupTypeOK
  <2>3. restoring.holds[c] \in 0..MaxChanges
    BY <2>1, <2>2, VersionRange DEF BackupInv, BackupTypeOK
  <2>4. /\ restoring' \in [holds : [Components -> Versions], left : Seq(Components)]
        /\ restoring'.left # <<>> => restoring'.holds = restoring.holds
    BY <1>0, <2>1, <2>2 DEF BackupInv, BackupTypeOK, NotRestoring
  <2>5. live' \in [Components -> 0..MaxChanges] /\ rdbOnDisk' \in 0..MaxChanges
    BY <2>1, <2>2, <2>3 DEF BackupInv, BackupTypeOK
  <2> QED BY <2>1, <2>4, <2>5 DEF BackupInv, BackupTypeOK
<1>3. CASE RestoreFails
  BY <1>3, <1>0 DEF RestoreFails, BackupInv, BackupTypeOK, NotRestoring
<1> QED BY <1>1, <1>2, <1>3

LEMMA BackupStep == BackupInv /\ [BackupNext]_backupVars => BackupInv'
<1> SUFFICES ASSUME BackupInv, [BackupNext]_backupVars PROVE BackupInv'
  OBVIOUS
<1> USE DEF BackupInv, BackupTypeOK
<1>1. CASE BackupBegins
  BY <1>1 DEF BackupBegins, StepOrder, DumpOrder, Components
<1>2. CASE BgSave
  BY <1>2 DEF BgSave, NextStep, StepOrder, DumpOrder, Components
<1>3. CASE SaveFinishes
  BY <1>3 DEF SaveFinishes, Components
<1>4. CASE RedisRestarts
  BY <1>4 DEF RedisRestarts, Components
<1>5. CASE SystemChanges
  BY <1>5, BackupAssumption DEF SystemChanges
<1>6. CASE NightPasses
  BY <1>6 DEF NightPasses, StepOrder
<1>7. CASE UNCHANGED backupVars
  BY <1>7 DEF backupVars
<1> QED BY <1>1, <1>2, <1>3, <1>4, <1>5, <1>6, <1>7, DumpStep, PackStep, CleanupStep,
           BackupFailsStep, RestoreSteps DEF BackupNext

\* The last backup that was complete is still there and holds every component, for any
\* retention of a day or more and any sequence of failures, nights and restores.
THEOREM LastBackupHolds == BackupSpec => []LastBackupKept
<1>1. BackupInit => BackupInv
  BY BackupAssumption, VersionRange
     DEF BackupInit, BackupInv, BackupTypeOK, NotRestoring, StepOrder
<1>2. BackupInv => LastBackupKept
  <2> SUFFICES ASSUME BackupInv, NEW n \in succeeded, \A m \in succeeded : m <= n
               PROVE \E a \in archives : /\ a.whole /\ a.night = n
                                         /\ NoVersion \notin {a.holds[c] : c \in Components}
    BY DEF LastBackupKept
  <2>1. PICK a \in archives : a.whole /\ a.night = n
    BY DEF BackupInv
  <2> QED BY <2>1 DEF BackupInv
<1> QED BY <1>1, BackupStep, <1>2, PTL DEF BackupSpec

-----------------------------------------------------------------------------
(* Catalog *)

\* The newest bar's day, named without a choice.
IsNewest(m) == m \in HeldDays /\ \A e \in HeldDays : e <= m

\* Nothing is held beyond today; a gap ends at a day that was asked for, below the
\* newest bar's and above it alike.
CatalogInv ==
  /\ today \in CatalogDays
  /\ catalog \in [CatalogDays -> {"none", "some", "all"}]
  /\ asked \in [from : SUBSET Int, on : SUBSET CatalogDays]
  /\ HeldDays = {} \/ \E m \in HeldDays : IsNewest(m)
  /\ \A d \in CatalogDays : catalog[d] = "some" => d \in asked.on
  /\ \A d \in CatalogDays :
       catalog[d] = "none" /\ d + 1 \in CatalogDays /\ catalog[d + 1] # "none" => d + 1 \in asked.from

LEMMA NewestIsNewest ==
  ASSUME NEW m \in Int, IsNewest(m), HeldDays \subseteq Int
  PROVE Newest = m
<1>1. Newest \in HeldDays /\ \A e \in HeldDays : e <= Newest
  BY ZenonT(20) DEF IsNewest, Newest
<1>2. m \in HeldDays /\ \A e \in HeldDays : e <= m
  BY DEF IsNewest
<1>3. Newest <= m /\ m <= Newest
  BY <1>1, <1>2
<1>4. Newest \in Int
  BY <1>1
<1> QED BY <1>3, <1>4

\* What a download fetches it is asked for, or it follows the newest bar.
LEMMA StartsSomewhere ==
  ASSUME CatalogInv, NEW start \in Int, NEW from \in EffectiveStart(start)
  PROVE from \in Int /\ (from = start \/ \E m \in HeldDays : from = m + 1)
<1> USE DEF CatalogInv
<1>1. CASE HeldDays = {}
  BY <1>1 DEF EffectiveStart
<1>2. CASE HeldDays # {}
  <2>1. PICK m \in HeldDays : IsNewest(m)
    BY <1>2
  <2>2. HeldDays \subseteq Int
    BY DEF HeldDays, CatalogDays
  <2>3. Newest = m
    BY <2>1, <2>2, NewestIsNewest
  <2> QED BY <1>2, <2>2, <2>3 DEF EffectiveStart, Later
<1> QED BY <1>1, <1>2

LEMMA DownloadKeeps ==
  ASSUME CatalogInv, CatalogAssumption, NEW start \in Int, NEW end \in Int, DownloadRange(start, end)
  PROVE CatalogInv'
<1> USE DEF CatalogInv, DownloadRange
<1>0. today' \in CatalogDays /\ asked' \in [from : SUBSET Int, on : SUBSET CatalogDays]
  OBVIOUS
<1>1. CASE UNCHANGED catalog
  BY <1>1 DEF HeldDays, IsNewest
<1>2. ASSUME NEW from \in EffectiveStart(start), catalog' = Fetched(from, end)
      PROVE CatalogInv'
  <2>0. from \in Int /\ (from = start \/ \E m \in HeldDays : from = m + 1)
    BY StartsSomewhere
  <2>1. catalog' \in [CatalogDays -> {"none", "some", "all"}]
    BY <1>2 DEF Fetched
  <2>2. \A d \in CatalogDays :
          IF from <= d /\ d <= end /\ d <= today
          THEN catalog'[d] = (IF d < today THEN "all" ELSE "some") ELSE catalog'[d] = catalog[d]
    BY <1>2 DEF Fetched
  <2>3. HeldDays' = {} \/ \E m \in HeldDays' : IsNewest(m)'
    <3> DEFINE top == IF end <= today THEN end ELSE today
    <3>0. top \in Int /\ top <= today /\ top <= end /\ (top = today \/ top = end)
      BY DEF CatalogDays
    <3>1. \A d \in CatalogDays : d \in HeldDays' <=> (from <= d /\ d <= top) \/ d \in HeldDays
      BY <2>2, <2>0, <3>0 DEF HeldDays, CatalogDays
    <3> HIDE DEF top
    <3>2. HeldDays \subseteq CatalogDays /\ HeldDays' \subseteq CatalogDays
      BY DEF HeldDays
    <3>3. CASE top \in CatalogDays /\ from <= top /\ \A e \in HeldDays : e <= top
      BY <3>0, <3>1, <3>2, <3>3 DEF IsNewest, CatalogDays
    <3>4. CASE HeldDays # {} /\ ~(top \in CatalogDays /\ from <= top /\ \A e \in HeldDays : e <= top)
      <4>1. PICK m \in HeldDays : IsNewest(m)
        BY <3>4
      <4>2. ASSUME NEW d \in CatalogDays, from <= d, d <= top PROVE d <= m
        <5>1. top \in CatalogDays /\ from <= top
          BY <4>2, <3>0, <2>0 DEF CatalogDays
        <5>2. PICK e \in HeldDays : ~(e <= top)
          BY <5>1, <3>4
        <5>3. e <= m
          BY <4>1 DEF IsNewest
        <5> QED BY <4>2, <5>2, <5>3, <3>0, <3>2 DEF CatalogDays
      <4> QED BY <4>1, <4>2, <3>1, <3>2 DEF IsNewest
    <3>5. CASE HeldDays = {} /\ ~(top \in CatalogDays /\ from <= top)
      BY <3>0, <3>1, <3>2, <3>5, <2>0 DEF CatalogDays
    <3> QED BY <3>3, <3>4, <3>5
  <2>4. \A d \in CatalogDays : catalog'[d] = "some" => d \in asked'.on
    BY <2>2, <2>0 DEF CatalogDays
  <2>5. ASSUME NEW d \in CatalogDays, catalog'[d] = "none", d + 1 \in CatalogDays, catalog'[d + 1] # "none"
        PROVE d + 1 \in asked'.from
    <3>1. catalog[d] = "none"
      BY <2>2, <2>5
    <3>2. CASE catalog[d + 1] # "none"
      BY <3>1, <3>2, <2>5
    <3>3. CASE catalog[d + 1] = "none"
      <4>1. from <= d + 1 /\ d + 1 <= end /\ d + 1 <= today
        BY <2>2, <2>5, <3>3
      <4>2. ~(from <= d)
        BY <4>1, <2>2, <2>5, <2>0 DEF CatalogDays
      <4>3. from = d + 1
        BY <4>1, <4>2, <2>0 DEF CatalogDays
      <4>4. ~ \E m \in HeldDays : from = m + 1
        BY <4>3, <3>1 DEF HeldDays, CatalogDays
      <4> QED BY <4>3, <4>4, <2>0
    <3> QED BY <3>2, <3>3
  <2> QED BY <1>0, <2>1, <2>3, <2>4, <2>5
<1> QED BY <1>1, <1>2

\* Where the catalog has a gap a download was asked to start behind it, and where a day
\* is incomplete a download ran on it (_get_effective_start, _download_single).
THEOREM CatalogIsExplained == CatalogSpec => []HolesAreExplained
<1> USE CatalogAssumption
<1>1. CatalogInit => CatalogInv
  BY DEF CatalogInit, CatalogInv, CatalogAssumption, CatalogDays, HeldDays
<1>2. CatalogInv /\ [CatalogNext]_catalogVars => CatalogInv'
  <2> SUFFICES ASSUME CatalogInv, [CatalogNext]_catalogVars PROVE CatalogInv'
    OBVIOUS
  <2>0. CatalogDays \subseteq Int /\ today \in Int /\ Lookback \in Int
    BY DEF CatalogInv, CatalogDays, CatalogAssumption
  <2>1. CASE DownloadBars
    <3>1. PICK start \in Int, end \in Int : DownloadRange(start, end)
      BY <2>1, <2>0 DEF DownloadBars, Download
    <3> QED BY <3>1, DownloadKeeps
  <2>2. CASE DayPasses
    BY <2>2 DEF DayPasses, CatalogInv, CatalogDays, CatalogAssumption, HeldDays, IsNewest
  <2>3. CASE UNCHANGED catalogVars
    BY <2>3 DEF catalogVars, CatalogInv, HeldDays, IsNewest
  <2> QED BY <2>1, <2>2, <2>3 DEF CatalogNext
<1>3. CatalogInv => HolesAreExplained
  <2> SUFFICES ASSUME CatalogInv, NEW d \in CatalogDays, HeldDays # {}, d < Newest
               PROVE /\ catalog[d] = "some" => d \in asked.on
                     /\ catalog[d] = "none" /\ catalog[d + 1] # "none" => d + 1 \in asked.from
    BY DEF HolesAreExplained
  <2>1. PICK m \in HeldDays : IsNewest(m)
    BY DEF CatalogInv
  <2>2. HeldDays \subseteq Int /\ HeldDays \subseteq CatalogDays
    BY DEF HeldDays, CatalogDays
  <2>3. Newest = m
    BY <2>1, <2>2, NewestIsNewest
  <2>4. d + 1 \in CatalogDays
    BY <2>2, <2>3, <2>1 DEF CatalogDays, CatalogAssumption
  <2> QED BY <2>4 DEF CatalogInv
<1> QED BY <1>1, <1>2, <1>3, PTL DEF CatalogSpec

-----------------------------------------------------------------------------
(* Host monitor *)

MonitorTypeOK ==
  /\ minute \in Nat /\ cooldownUntil \in Nat
  /\ poll \in {"idle", "restarting", "restarted"}
  /\ remedies \in Seq(Nat) /\ recent \in Seq(Nat)

InOrder ==
  \A j \in 1..Len(remedies) :
    remedies[j] <= minute /\ \A i \in 1..j : remedies[i] <= remedies[j]

\* The state file holds the last restarts, all but those before the window.
FileInv ==
  \E gone \in 0..Len(remedies) :
    /\ Len(recent) = Len(remedies) - gone
    /\ \A i \in 1..Len(recent) : recent[i] = remedies[gone + i]
    /\ \A i \in 1..gone : remedies[i] + RestartWindow < remedies[Len(remedies)]

\* The last restart was one too many within the window, and the backoff after it.
Crowded ==
  /\ Len(remedies) >= MaxInWindow
  /\ remedies[Len(remedies)] - remedies[Len(remedies) - MaxInWindow + 1] <= RestartWindow
BackoffOver == minute >= remedies[Len(remedies)] + Backoff

CooldownInv ==
  /\ Crowded => BackoffOver \/ cooldownUntil >= remedies[Len(remedies)] + Backoff
  /\ Crowded /\ poll # "idle" => BackoffOver

MonitorInv == MonitorTypeOK /\ InOrder /\ FileInv /\ CooldownInv /\ RestartsBackOff

LEMMA RecordKeeps ==
  ASSUME MonitorInv, MonitorAssumption, RecordRestart
  PROVE MonitorInv'
<1> DEFINE n == Len(remedies)
           m == Len(recent)
<1>0. n \in Nat /\ m \in Nat /\ n = Len(remedies) /\ m = Len(recent)
      /\ MaxInWindow \in Nat \ {0} /\ RestartWindow \in Nat /\ Backoff \in Nat /\ minute \in Nat
  BY LenProperties DEF MonitorAssumption, MonitorInv, MonitorTypeOK
<1>00. remedies \in Seq(Nat) /\ recent \in Seq(Nat) /\ cooldownUntil \in Nat
  BY DEF MonitorInv, MonitorTypeOK
<1> HIDE DEF n, m
<1>1. /\ Len(remedies') = n + 1
      /\ \A i \in 1..n : remedies'[i] = remedies[i]
      /\ remedies'[n + 1] = minute
  BY <1>0, <1>00, AppendProperties DEF RecordRestart
<1>100. remedies' \in Seq(Nat)
  BY <1>0, <1>00, AppendProperties DEF RecordRestart
<1>2. PICK old \in 0..m :
        /\ \A i \in 1..m : i > old <=> recent[i] + RestartWindow >= minute
        /\ recent' = Append(SubSeq(recent, old + 1, m), minute)
  BY <1>0 DEF RecordRestart
<1>3. /\ SubSeq(recent, old + 1, m) \in Seq(Nat) /\ Len(SubSeq(recent, old + 1, m)) = m - old
      /\ \A i \in 1..(m - old) : SubSeq(recent, old + 1, m)[i] = recent[old + i]
  <2> DEFINE first == old + 1
  <2>1. first \in 1..(m + 1) /\ first \in Int /\ m \in Int /\ (IF first <= m THEN m - first + 1 ELSE 0) = m - old
        /\ m - first + 1 = m - old /\ \A i \in Int : first + i - 1 = old + i
    BY <1>0
  <2>2. \A i \in 1..m : recent[i] \in Nat
    BY <1>0, <1>00, ElementOfSeq
  <2> HIDE DEF first
  <2>3. \A i \in first..m : recent[i] \in Nat
    BY <2>1, <2>2
  <2>4. /\ SubSeq(recent, first, m) \in Seq(Nat)
        /\ Len(SubSeq(recent, first, m)) = IF first <= m THEN m - first + 1 ELSE 0
        /\ \A i \in 1..(m - first + 1) : SubSeq(recent, first, m)[i] = recent[first + i - 1]
    BY <2>1, <2>3, SubSeqProperties
  <2>5. /\ SubSeq(recent, first, m) \in Seq(Nat) /\ Len(SubSeq(recent, first, m)) = m - old
        /\ \A i \in 1..(m - old) : SubSeq(recent, first, m)[i] = recent[old + i]
    BY <2>1, <2>4
  <2> QED BY <2>5 DEF first
<1> DEFINE rest == SubSeq(recent, old + 1, m)
<1>31. recent' = Append(rest, minute)
  BY <1>2
<1>32. Len(rest) = m - old /\ \A i \in 1..(m - old) : rest[i] = recent[old + i]
  BY <1>3
<1>33. rest \in Seq(Nat)
  BY <1>3
<1> HIDE DEF rest
<1>34. recent' \in Seq(Nat)
  BY <1>0, <1>31, <1>33, AppendProperties
<1>35. Len(recent') = Len(rest) + 1 /\ recent'[Len(rest) + 1] = minute
       /\ \A i \in 1..Len(rest) : recent'[i] = rest[i]
  BY <1>0, <1>31, <1>33, AppendProperties
<1>4. /\ Len(recent') = m - old + 1
      /\ \A i \in 1..(m - old) : recent'[i] = recent[old + i]
      /\ recent'[m - old + 1] = minute
  BY <1>32, <1>35
<1>5. PICK gone \in 0..n :
        /\ m = n - gone
        /\ \A i \in 1..m : recent[i] = remedies[gone + i]
        /\ \A i \in 1..gone : remedies[i] + RestartWindow < remedies[n]
  BY <1>0 DEF FileInv, MonitorInv
<1>6. \A j \in 1..n : remedies[j] \in Nat /\ remedies[j] <= minute /\ \A i \in 1..j : remedies[i] <= remedies[j]
  BY <1>0, <1>00, ElementOfSeq DEF InOrder, MonitorInv
<1>7. minute' = minute /\ poll' = "idle"
      /\ cooldownUntil' = IF m - old + 1 >= MaxInWindow THEN minute + Backoff ELSE cooldownUntil
  BY <1>4 DEF RecordRestart
<1>8. InOrder'
  <2> SUFFICES ASSUME NEW j \in 1..(n + 1), NEW i \in 1..j
               PROVE remedies'[j] <= minute /\ remedies'[i] <= remedies'[j]
    BY <1>0, <1>1, <1>7 DEF InOrder
  <2>1. CASE j = n + 1
    <3>1. i = n + 1 \/ i \in 1..n
      BY <2>1, <1>0
    <3> QED BY <3>1, <2>1, <1>0, <1>1, <1>6
  <2>2. CASE j # n + 1
    <3>1. j \in 1..n /\ i \in 1..n
      BY <2>2, <1>0
    <3> QED BY <3>1, <1>1, <1>6
  <2> QED BY <2>1, <2>2
<1>9. FileInv'
  <2> DEFINE g == gone + old
  <2>1. g \in 0..Len(remedies') /\ Len(recent') = Len(remedies') - g
    BY <1>0, <1>1, <1>2, <1>4, <1>5
  <2>2. ASSUME NEW i \in 1..Len(recent') PROVE recent'[i] = remedies'[g + i]
    <3>1. CASE i = m - old + 1
      BY <3>1, <1>0, <1>1, <1>2, <1>4, <1>5
    <3>2. CASE i # m - old + 1
      <4>1. i \in 1..(m - old) /\ old + i \in 1..m /\ gone + (old + i) \in 1..n
        <5>1. i \in 1..(m - old + 1) /\ m = n - gone
          BY <1>4, <1>5
        <5> QED BY <5>1, <3>2, <1>0
      <4>2. recent'[i] = remedies[gone + (old + i)]
        BY <4>1, <1>4, <1>5
      <4>3. gone + (old + i) = g + i
        BY <4>1
      <4> QED BY <4>1, <4>2, <4>3, <1>1
    <3> QED BY <3>1, <3>2
  <2>3. ASSUME NEW i \in 1..g PROVE remedies'[i] + RestartWindow < remedies'[Len(remedies')]
    <3>1. i \in 1..n /\ remedies'[i] = remedies[i] /\ remedies'[Len(remedies')] = minute
      BY <1>0, <1>1, <1>2, <1>5
    <3>2. CASE i <= gone
      <4>1. i \in 1..gone /\ n \in 1..n
        BY <3>1, <3>2, <1>5, <1>0
      <4>2. remedies[i] + RestartWindow < remedies[n] /\ remedies[n] <= minute /\ remedies[n] \in Nat /\ remedies[i] \in Nat
        BY <4>1, <1>5, <1>6, <3>1
      <4> QED BY <3>1, <4>2, <1>0
    <3>3. CASE i > gone
      <4>1. i - gone \in 1..m /\ i - gone <= old /\ gone + (i - gone) = i
        BY <3>1, <3>3, <1>5, <1>0, <1>2
      <4>2. recent[i - gone] = remedies[i]
        BY <4>1, <1>5
      <4>3. ~(recent[i - gone] + RestartWindow >= minute)
        BY <4>1, <1>2
      <4> QED BY <3>1, <4>2, <4>3, <1>0, <1>6
    <3> QED BY <3>1, <3>2, <3>3, <1>5
  <2> QED BY <2>1, <2>2, <2>3 DEF FileInv
<1>10. CooldownInv'
  <2> SUFFICES ASSUME Crowded' PROVE cooldownUntil' >= remedies'[Len(remedies')] + Backoff
    BY <1>7 DEF CooldownInv
  <2>1. Len(recent') >= MaxInWindow
    <3>1. PICK g \in 0..Len(remedies') :
            /\ Len(recent') = Len(remedies') - g
            /\ \A i \in 1..g : remedies'[i] + RestartWindow < remedies'[Len(remedies')]
      BY <1>9 DEF FileInv
    <3>2. n + 1 >= MaxInWindow /\ minute - remedies'[(n + 1) - MaxInWindow + 1] <= RestartWindow
      BY <1>0, <1>1 DEF Crowded
    <3> DEFINE first == (n + 1) - MaxInWindow + 1
    <3>3. first \in 1..(n + 1) /\ remedies'[first] \in Nat
      <4>1. first \in 1..(n + 1)
        BY <3>2, <1>0
      <4>2. \A j \in 1..(n + 1) : remedies'[j] \in Nat
        BY <1>0, <1>1, <1>6
      <4> QED BY <4>1, <4>2
    <3> HIDE DEF first
    <3>5. first = (n + 1) - MaxInWindow + 1 /\ minute - remedies'[first] <= RestartWindow
      BY <3>2 DEF first
    <3>4. ~(first <= g)
      <4>1. SUFFICES ASSUME first <= g PROVE FALSE
        OBVIOUS
      <4>2. first \in 1..g
        BY <4>1, <3>1, <3>3, <1>0, <1>1
      <4>3. remedies'[first] + RestartWindow < minute
        BY <4>2, <3>1, <1>1
      <4>4. PICK r \in Nat : r = remedies'[first]
        BY <3>3
      <4>5. r + RestartWindow < minute /\ minute - r <= RestartWindow
        BY <4>3, <4>4, <3>5
      <4>6. minute \in Nat /\ RestartWindow \in Nat
        BY <1>0
      <4> QED BY <4>5, <4>6
    <3> QED BY <3>1, <3>3, <3>4, <3>5, <1>0, <1>1
  <2> QED BY <2>1, <1>0, <1>1, <1>4, <1>7
<1>11. RestartsBackOff'
  <2> SUFFICES ASSUME NEW k \in 1..(n + 1), k > MaxInWindow,
                      remedies'[k - 1] - remedies'[k - MaxInWindow] <= RestartWindow
               PROVE remedies'[k] - remedies'[k - 1] >= Backoff
    BY <1>1 DEF RestartsBackOff
  <2>1. k - 1 \in 1..n /\ k - MaxInWindow \in 1..n
    BY <1>0
  <2>2. remedies'[k - 1] = remedies[k - 1] /\ remedies'[k - MaxInWindow] = remedies[k - MaxInWindow]
    BY <2>1, <1>1
  <2>3. CASE k = n + 1
    <3>1. Crowded
      BY <2>1, <2>2, <2>3, <1>0 DEF Crowded
    <3>2. minute >= remedies[n] + Backoff
      BY <3>1, <1>0 DEF CooldownInv, BackoffOver, RecordRestart, MonitorInv
    <3>3. n \in 1..n /\ k - 1 = n
      BY <2>1, <2>3, <1>0
    <3>4. PICK last \in Nat : last = remedies[n]
      BY <3>3, <1>6
    <3>5. minute - last >= Backoff
      <4>1. minute >= last + Backoff
        BY <3>2, <3>4
      <4>2. minute \in Nat /\ Backoff \in Nat
        BY <1>0
      <4> QED BY <4>1, <4>2
    <3>6. remedies'[k] = minute /\ remedies'[k - 1] = last
      BY <3>3, <3>4, <2>2, <2>3, <1>1
    <3> QED BY <3>5, <3>6
  <2>4. CASE k # n + 1
    <3>1. k \in 1..n
      BY <2>4, <1>0
    <3>2. remedies'[k] = remedies[k]
      BY <3>1, <1>1
    <3>3. remedies[k] - remedies[k - 1] >= Backoff
      BY <3>1, <2>2, <1>0 DEF RestartsBackOff, MonitorInv
    <3> QED BY <3>2, <3>3, <2>2
  <2> QED BY <2>3, <2>4
<1>12. MonitorTypeOK'
  BY <1>0, <1>00, <1>100, <1>34, <1>7 DEF MonitorTypeOK
<1> QED BY <1>8, <1>9, <1>10, <1>11, <1>12 DEF MonitorInv

LEMMA PollSteps ==
  ASSUME MonitorInv, MonitorAssumption,
         RunOnce \/ RestartContainer \/ MonitorCrashes \/ HealthChanges \/ MinutePasses
  PROVE MonitorInv'
<1>0. recent' = recent /\ remedies' = remedies /\ minute' \in Nat /\ minute <= minute'
      /\ Len(remedies) \in Nat /\ \A j \in 1..Len(remedies) : remedies[j] \in Nat
  BY LenProperties DEF RunOnce, RestartContainer, MonitorCrashes, HealthChanges, MinutePasses, MonitorInv, MonitorTypeOK
<1>1. MonitorTypeOK'
  BY DEF RunOnce, RestartContainer, MonitorCrashes, HealthChanges, MinutePasses, MonitorInv, MonitorTypeOK
<1>2. InOrder'
  BY <1>0 DEF InOrder, MonitorInv, MonitorTypeOK
<1>3. FileInv' /\ RestartsBackOff'
  BY <1>0 DEF FileInv, RestartsBackOff, MonitorInv
<1>4. CooldownInv'
  <2> SUFFICES ASSUME Crowded
               PROVE /\ BackoffOver' \/ cooldownUntil' >= remedies[Len(remedies)] + Backoff
                     /\ poll' # "idle" => BackoffOver'
    BY <1>0 DEF CooldownInv, Crowded
  <2>1. BackoffOver => BackoffOver'
    <3>1. Len(remedies) \in 1..Len(remedies)
      BY <1>0 DEF Crowded, MonitorAssumption
    <3>2. remedies[Len(remedies)] + Backoff \in Nat
      BY <3>1, <1>0 DEF MonitorAssumption
    <3> QED BY <3>2, <1>0 DEF BackoffOver, MonitorInv, MonitorTypeOK
  <2>2. BackoffOver \/ cooldownUntil >= remedies[Len(remedies)] + Backoff
    BY DEF MonitorInv, CooldownInv
  <2>3. CASE RunOnce
    <3>1. remedies[Len(remedies)] + Backoff \in Nat
      <4>1. Len(remedies) \in 1..Len(remedies)
        BY <1>0 DEF Crowded, MonitorAssumption
      <4> QED BY <4>1, <1>0 DEF MonitorAssumption
    <3>2. minute >= cooldownUntil
      BY <2>3 DEF RunOnce, MonitorInv, MonitorTypeOK
    <3>3. BackoffOver
      BY <2>2, <3>1, <3>2 DEF BackoffOver, MonitorInv, MonitorTypeOK
    <3> QED BY <3>3, <2>1
  <2>4. CASE ~RunOnce
    BY <2>1, <2>2, <2>4 DEF RestartContainer, MonitorCrashes, HealthChanges, MinutePasses, MonitorInv, CooldownInv
  <2> QED BY <2>3, <2>4
<1> QED BY <1>1, <1>2, <1>3, <1>4 DEF MonitorInv

\* After so many restarts within the window the next comes no earlier than the backoff,
\* whatever the container does, and whenever the script dies (run_once, record_restart).
THEOREM MonitorBacksOff == MonitorSpec => []RestartsBackOff
<1> USE MonitorAssumption
<1>1. MonitorInit => MonitorInv
  BY DEF MonitorInit, MonitorInv, MonitorTypeOK, InOrder, FileInv, CooldownInv, Crowded, RestartsBackOff,
         MonitorAssumption
<1>2. MonitorInv /\ [MonitorNext]_monitorVars => MonitorInv'
  <2>1. ASSUME MonitorInv, UNCHANGED monitorVars PROVE MonitorInv'
    BY <2>1 DEF monitorVars, MonitorInv, MonitorTypeOK, InOrder, FileInv, CooldownInv, Crowded, BackoffOver,
                RestartsBackOff
  <2> QED BY <2>1, RecordKeeps, PollSteps DEF MonitorNext
<1>3. MonitorInv => RestartsBackOff
  BY DEF MonitorInv
<1> QED BY <1>1, <1>2, <1>3, PTL DEF MonitorSpec

-----------------------------------------------------------------------------
(* Backtests *)

\* What TestedOutOfSample asks of the windows of one run.
FairWindow(train, test, days) ==
  /\ train \cup test \subseteq days
  /\ train # {} /\ test # {}
  /\ LastOf(train) + 1 \in test
  /\ train \cap test = {}
OutOfSample(q, w) ==
  /\ \A i \in DOMAIN w : FairWindow(w[i].train, w[i].test, q.start..q.end)
  /\ \A i, j \in DOMAIN w : i # j => w[i].test \cap w[j].test = {}

\* The same in terms of where a window begins and ends.
LEMMA WindowIsFair ==
  ASSUME NEW from \in Int, NEW till \in Int, NEW end \in Int, NEW start \in Int, start <= from,
         from <= till, till < end, NEW last \in Int, end <= last
  PROVE  FairWindow(from..till, (till + 1)..end, start..last)
<1>1. till \in from..till /\ till + 1 \in (till + 1)..end
  OBVIOUS
<1>2. LastOf(from..till) = till
  <2> DEFINE top == LastOf(from..till)
  <2>1. \E d \in from..till : \A e \in from..till : e <= d
    BY <1>1
  <2>2. top \in from..till /\ \A e \in from..till : e <= top
    <3> HIDE DEF LastOf
    <3>1. (CHOOSE d \in from..till : \A e \in from..till : e <= d) = top
      BY DEF LastOf
    <3> QED BY <2>1 DEF LastOf
  <2> QED BY <2>2, <1>1
<1> QED BY <1>1, <1>2 DEF FairWindow

LEMMA StartsFit ==
  ASSUME NEW room \in Nat, NEW stride \in Nat \ {0}, NEW i \in 1..(room \div stride + 1)
  PROVE  (i - 1) * stride \in 0..room
<1>1. room \div stride \in Nat /\ (room \div stride) * stride <= room
  OBVIOUS
<1>2. i - 1 \in Nat /\ i - 1 <= room \div stride
  BY <1>1
<1>3. (i - 1) * stride \in Nat /\ (i - 1) * stride <= (room \div stride) * stride
  BY <1>1, <1>2
<1> QED BY <1>1, <1>3

LEMMA StartsApart ==
  ASSUME NEW stride \in Nat, NEW i \in Nat, NEW j \in Nat, i < j
  PROVE  i * stride \in Nat /\ j * stride \in Nat /\ i * stride + stride <= j * stride
OBVIOUS

LEMMA WindowsOutOfSample ==
  ASSUME NEW q, {q.start, q.end} \subseteq Nat, {q.train, q.test} \subseteq Int, ~BadDays(q)
  PROVE  OutOfSample(q, Windows(q))
<1>0. q.start \in Nat /\ q.end \in Nat /\ q.train \in Nat \ {0} /\ q.test \in Nat \ {0}
  BY DEF BadDays
<1>1. CASE q.start + q.train + q.test > q.end
  <2> DEFINE trainEnd == q.end - q.test
  <2>1. CASE trainEnd >= q.start + q.test
    <3>1. Windows(q) = <<[train |-> q.start..trainEnd, test |-> (trainEnd + 1)..q.end]>>
      BY <1>1, <2>1 DEF Windows, Shortened
    <3>2. trainEnd \in Int /\ q.start <= trainEnd /\ trainEnd < q.end
      BY <1>0, <2>1
    <3> HIDE DEF trainEnd
    <3>3. DOMAIN Windows(q) = {1} /\ Windows(q)[1].train = q.start..trainEnd
          /\ Windows(q)[1].test = (trainEnd + 1)..q.end
      BY <3>1
    <3>4. FairWindow(q.start..trainEnd, (trainEnd + 1)..q.end, q.start..q.end)
      <4>1. q.start \in Int /\ q.end \in Int /\ q.start <= q.start /\ q.end <= q.end
        BY <1>0
      <4> QED BY <4>1, <3>2, WindowIsFair
    <3> QED BY <3>3, <3>4 DEF OutOfSample
  <2>2. CASE ~(trainEnd >= q.start + q.test)
    <3>1. Windows(q) = << >>
      BY <1>1, <2>2 DEF Windows, Shortened
    <3> QED BY <3>1 DEF OutOfSample
  <2> QED BY <2>1, <2>2
<1>2. CASE ~(q.start + q.train + q.test > q.end)
  <2> DEFINE room == (q.end - q.start) - (q.train + q.test)
             n == room \div q.test + 1
             From(i) == q.start + (i - 1) * q.test
  <2>1. /\ DOMAIN Windows(q) = 1..n
        /\ \A i \in 1..n : Windows(q)[i].train = From(i)..(From(i) + q.train - 1)
                           /\ Windows(q)[i].test = (From(i) + q.train)..(From(i) + q.train + q.test - 1)
    BY <1>2 DEF Windows, Rolling
  <2>2. room \in Nat
    BY <1>0, <1>2
  <2>3. ASSUME NEW i \in 1..n PROVE From(i) \in Nat /\ q.start <= From(i) /\ From(i) + q.train + q.test <= q.end
    <3>1. (i - 1) * q.test \in 0..room
      <4> HIDE DEF room
      <4> QED BY <2>2, <1>0, StartsFit
    <3> QED BY <3>1, <1>0, <1>2
  <2>4. \A i, j \in 1..n : i < j => From(i) + q.test <= From(j)
    <3> SUFFICES ASSUME NEW i \in 1..n, NEW j \in 1..n, i < j PROVE From(i) + q.test <= From(j)
      OBVIOUS
    <3>0. n \in Nat
      <4> HIDE DEF room
      <4> QED BY <2>2, <1>0
    <3>1. i - 1 \in Nat /\ j - 1 \in Nat /\ i - 1 < j - 1
      BY <3>0
    <3>2. (i - 1) * q.test \in Nat /\ (j - 1) * q.test \in Nat /\ (i - 1) * q.test + q.test <= (j - 1) * q.test
      BY <3>1, <1>0, StartsApart
    <3> QED BY <3>2, <1>0
  <2>40. n \in Nat
    <3> HIDE DEF room
    <3> QED BY <2>2, <1>0
  <2> HIDE DEF room, n, From
  <2>5. ASSUME NEW i \in 1..n
        PROVE  FairWindow(Windows(q)[i].train, Windows(q)[i].test, q.start..q.end)
    <3> DEFINE from == From(i)
               till == From(i) + q.train - 1
               end == From(i) + q.train + q.test - 1
    <3>1. /\ from \in Int /\ till \in Int /\ end \in Int /\ q.start <= from /\ from <= till /\ till < end
          /\ end <= q.end /\ till + 1 = From(i) + q.train
      BY <2>3, <1>0
    <3>2. Windows(q)[i].train = from..till /\ Windows(q)[i].test = (till + 1)..end
      BY <2>1, <3>1
    <3> HIDE DEF from, till, end
    <3>3. q.start \in Int /\ q.end \in Int
      BY <1>0
    <3>4. FairWindow(from..till, (till + 1)..end, q.start..q.end)
      <4>1. /\ from \in Int /\ till \in Int /\ end \in Int /\ q.start <= from /\ from <= till /\ till < end
            /\ end <= q.end
        BY <3>1
      <4> QED BY <4>1, <3>3, WindowIsFair
    <3> QED BY <3>2, <3>4
  <2>6. ASSUME NEW i \in 1..n, NEW j \in 1..n, i < j
        PROVE  Windows(q)[i].test \cap Windows(q)[j].test = {}
    <3>1. From(i) + q.test <= From(j) /\ From(i) \in Nat /\ From(j) \in Nat
      BY <2>3, <2>4, <2>6
    <3>2. /\ Windows(q)[i].test = (From(i) + q.train)..(From(i) + q.train + q.test - 1)
          /\ Windows(q)[j].test = (From(j) + q.train)..(From(j) + q.train + q.test - 1)
      BY <2>1
    <3> QED BY <3>1, <3>2, <1>0
  <2>7. \A i, j \in 1..n : i # j => Windows(q)[i].test \cap Windows(q)[j].test = {}
    <3> SUFFICES ASSUME NEW i \in 1..n, NEW j \in 1..n, i # j
                 PROVE Windows(q)[i].test \cap Windows(q)[j].test = {}
      OBVIOUS
    <3>1. i < j \/ j < i
      BY <2>40
    <3>2. Windows(q)[i].test \cap Windows(q)[j].test = Windows(q)[j].test \cap Windows(q)[i].test
      OBVIOUS
    <3> QED BY <3>1, <3>2, <2>6
  <2> QED BY <2>1, <2>5, <2>7 DEF OutOfSample
<1> QED BY <1>1, <1>2

-----------------------------------------------------------------------------
(* The runs of the backtests *)

\* What a run of q may hold: what its mode computes, out of sample.
OutcomeOK(q, o) ==
  /\ o = [ranking |-> o.ranking, windows |-> o.windows]
  /\ q.mode # "sweep" => o.ranking = <<>>
  /\ q.mode # "walk_forward" => o.windows = <<>>
  /\ q.mode = "walk_forward" => OutOfSample(q, [i \in DOMAIN o.windows |-> o.windows[i].window])

RunLists ==
  /\ request \in Seq(Requests)
  /\ registry = [r \in RunsSoFar |-> registry[r]] /\ thread = [r \in RunsSoFar |-> thread[r]]
  /\ outcome = [r \in RunsSoFar |-> outcome[r]] /\ saving = [r \in RunsSoFar |-> saving[r]]

Stored(r) == \E row \in rows : row.key = RowKey(r) /\ row.outcome = outcome[r]

\* A thread ends with the verdict, and its row is there by then.
VerdictOK(r) ==
  registry[r] # NoEntry =>
    /\ thread[r] = "ended" => registry[r].status \in {"completed", "failed"}
    /\ registry[r].status = "completed" => thread[r] = "ended" /\ Stored(r)

RowOK(row) ==
  /\ row = [key |-> row.key, instrument |-> row.instrument, outcome |-> row.outcome]
  /\ row.key.run \in RunsSoFar /\ OutcomeOK(request[row.key.run], row.outcome)

BacktestingInv ==
  /\ RunLists
  /\ \A r \in RunsSoFar : OutcomeOK(request[r], outcome[r]) /\ VerdictOK(r)
  /\ \A row \in rows : RowOK(row)

LEMMA AppendTo ==
  ASSUME NEW n \in Nat, NEW f, f = [i \in 1..n |-> f[i]], NEW x
  PROVE  /\ Append(f, x) = [i \in 1..(n + 1) |-> Append(f, x)[i]]
         /\ Append(f, x)[n + 1] = x /\ \A i \in 1..n : Append(f, x)[i] = f[i]
<1> DEFINE S == {f[i] : i \in 1..n} \cup {x}
<1>1. f \in [1..n -> S] /\ x \in S
  OBVIOUS
<1> HIDE DEF S
<1>2. f \in Seq(S)
  BY <1>1, SeqDef
<1>3. Len(f) = n
  BY <1>1, <1>2, LenProperties
<1>4. /\ Append(f, x) \in Seq(S) /\ Len(Append(f, x)) = n + 1
      /\ Append(f, x)[n + 1] = x /\ \A i \in 1..n : Append(f, x)[i] = f[i]
  BY <1>1, <1>2, <1>3, AppendProperties
<1>5. Append(f, x) \in [1..(n + 1) -> S]
  BY <1>4, LenProperties
<1>6. Append(f, x) = [i \in 1..(n + 1) |-> Append(f, x)[i]]
  BY <1>5
<1> QED BY <1>4, <1>6

LEMMA EmptyIsOutOfSample ==
  ASSUME NEW q, NEW w, DOMAIN w = {}
  PROVE  OutOfSample(q, w)
BY DEF OutOfSample

LEMMA NothingOK ==
  ASSUME NEW q
  PROVE  OutcomeOK(q, Nothing)
<1>1. Nothing.windows = <<>> /\ Nothing.ranking = <<>> /\ Nothing = [ranking |-> <<>>, windows |-> <<>>]
  BY DEF Nothing
<1>2. DOMAIN [i \in DOMAIN Nothing.windows |-> Nothing.windows[i].window] = {}
  BY <1>1
<1>3. OutOfSample(q, [i \in DOMAIN Nothing.windows |-> Nothing.windows[i].window])
  BY <1>2, EmptyIsOutOfSample
<1> QED BY <1>1, <1>3 DEF OutcomeOK

LEMMA ComputedOK ==
  ASSUME BacktestingAssumption, NEW q \in Requests, q.mode = "walk_forward" => ~BadDays(q),
         NEW o \in Outcomes(q)
  PROVE  OutcomeOK(q, o)
<1>0. q.mode \in {"backtest", "sweep", "walk_forward"}
      /\ {q.start, q.end} \subseteq Nat /\ {q.train, q.test} \subseteq Int
  BY DEF BacktestingAssumption
<1>1. CASE q.mode = "backtest"
  <2>1. o = Nothing
    BY <1>1 DEF Outcomes
  <2> QED BY <2>1, NothingOK
<1>2. CASE q.mode = "sweep"
  <2>1. o = [Nothing EXCEPT !.ranking = Ranked(q.combos)]
    BY <1>2 DEF Outcomes
  <2>2. o = [ranking |-> Ranked(q.combos), windows |-> <<>>]
    BY <2>1 DEF Nothing
  <2> QED BY <1>2, <2>2 DEF OutcomeOK
<1>3. CASE q.mode = "walk_forward"
  <2>1. PICK w \in WindowResults(q) : o = [Nothing EXCEPT !.windows = w]
    BY <1>3 DEF Outcomes
  <2>2. o = [ranking |-> <<>>, windows |-> w]
    BY <2>1 DEF Nothing
  <2>3. PICK lost \in SUBSET DOMAIN Windows(q) :
          w = [i \in DOMAIN Windows(q) |->
                 [window |-> Windows(q)[i], best |-> Head(Ranked(q.combos)), failed |-> i \in lost]]
    BY <2>1 DEF WindowResults
  <2> DEFINE v == [i \in DOMAIN o.windows |-> o.windows[i].window]
  <2>4. DOMAIN v = DOMAIN Windows(q) /\ \A i \in DOMAIN Windows(q) : v[i] = Windows(q)[i]
    BY <2>2, <2>3
  <2>5. OutOfSample(q, Windows(q))
    BY <1>0, <1>3, WindowsOutOfSample
  <2> HIDE DEF v
  <2>6. OutOfSample(q, v)
    BY <2>4, <2>5 DEF OutOfSample
  <2> QED BY <1>3, <2>2, <2>6 DEF OutcomeOK, v
<1> QED BY <1>0, <1>1, <1>2, <1>3

\* A save leaves the other runs' rows alone, and leaves one of its own.
LEMMA SaveKeepsRows ==
  ASSUME BacktestingInv, BacktestingAssumption, NEW r \in RunsSoFar, rows' = Upserted(RowToSave(r))
  PROVE  /\ \A row \in rows' : RowOK(row)
         /\ \E row \in rows' : row.key = RowKey(r) /\ row.outcome = outcome[r]
         /\ \A s \in RunsSoFar : s # r /\ Stored(s) =>
              \E row \in rows' : row.key = RowKey(s) /\ row.outcome = outcome[s]
<1> DEFINE new == RowToSave(r)
<1>0. request[r] \in Requests /\ OutcomeOK(request[r], outcome[r])
  BY ElementOfSeq DEF BacktestingInv, RunLists, RunsSoFar
<1>1. /\ new = [key |-> RowKey(r), instrument |-> new.instrument, outcome |-> outcome[r]]
      /\ new.key = RowKey(r) /\ new.outcome = outcome[r] /\ RowKey(r).run = r
  <2>0. request[r].mode \in {"backtest", "sweep", "walk_forward"}
    BY <1>0 DEF BacktestingAssumption
  <2>1. RowKey(r).run = r
    BY DEF RowKey
  <2> HIDE DEF RowKey
  <2>2. CASE request[r].mode = "backtest"
    BY <2>1, <2>2, <1>0 DEF RowToSave, BacktestRow, Nothing, OutcomeOK
  <2>3. CASE request[r].mode = "walk_forward"
    BY <2>1, <2>3, <1>0 DEF RowToSave, WalkForwardRow, Nothing, OutcomeOK
  <2>4. CASE request[r].mode = "sweep"
    BY <2>1, <2>4, <1>0 DEF RowToSave, SweepRow, Nothing, OutcomeOK
  <2> QED BY <2>0, <2>2, <2>3, <2>4
<1> HIDE DEF new
<1>2. rows' = Upserted(new)
  BY DEF new
<1>3. RowOK(new)
  BY <1>0, <1>1 DEF RowOK
<1>4. \A row \in rows : RowOK(row)
  BY DEF BacktestingInv
<1>5. CASE \E old \in rows : old.key = new.key
  <2>1. rows' = {IF old.key = new.key THEN [old EXCEPT !.outcome = new.outcome] ELSE old : old \in rows}
    BY <1>2, <1>5 DEF Upserted
  <2>2. ASSUME NEW old \in rows, old.key = new.key, NEW row, row = [old EXCEPT !.outcome = new.outcome]
        PROVE  RowOK(row) /\ row.key = RowKey(r) /\ row.outcome = outcome[r]
    <3>1. old = [key |-> old.key, instrument |-> old.instrument, outcome |-> old.outcome]
      BY <1>4 DEF RowOK
    <3>2. row = [key |-> old.key, instrument |-> old.instrument, outcome |-> new.outcome]
      BY <2>2, <3>1
    <3> QED BY <3>2, <2>2, <1>0, <1>1 DEF RowOK
  <2>3. ASSUME NEW row \in rows' PROVE RowOK(row)
    <3>1. PICK old \in rows : row = IF old.key = new.key THEN [old EXCEPT !.outcome = new.outcome] ELSE old
      BY <2>1
    <3> QED BY <3>1, <2>2, <1>4
  <2>4. \E row \in rows' : row.key = RowKey(r) /\ row.outcome = outcome[r]
    <3>1. PICK old \in rows : old.key = new.key
      BY <1>5
    <3>2. [old EXCEPT !.outcome = new.outcome] \in rows'
      BY <2>1, <3>1
    <3> QED BY <3>1, <3>2, <2>2
  <2>5. ASSUME NEW s \in RunsSoFar, s # r, Stored(s)
        PROVE  \E row \in rows' : row.key = RowKey(s) /\ row.outcome = outcome[s]
    <3>1. PICK row \in rows : row.key = RowKey(s) /\ row.outcome = outcome[s]
      BY <2>5 DEF Stored
    <3>2. row.key # new.key
      BY <3>1, <1>1, <2>5 DEF RowKey
    <3>3. row \in rows'
      BY <2>1, <3>2
    <3> QED BY <3>1, <3>3
  <2> QED BY <2>3, <2>4, <2>5
<1>6. CASE ~ \E old \in rows : old.key = new.key
  <2>1. rows' = rows \cup {new}
    BY <1>2, <1>6 DEF Upserted
  <2> QED BY <2>1, <1>1, <1>3, <1>4 DEF Stored
<1> QED BY <1>5, <1>6

LEMMA BacktestRunStarts ==
  ASSUME BacktestingInv, RunRequested
  PROVE  BacktestingInv'
<1> DEFINE n == Len(request)
<1>0. n \in Nat /\ request \in Seq(Requests) /\ RunsSoFar = 1..n
  BY LenProperties DEF BacktestingInv, RunLists, RunsSoFar
<1>1. PICK q \in Requests :
        /\ request' = Append(request, q)
        /\ registry' = Append(registry, [status |-> "started", progress |-> 0])
        /\ thread' = Append(thread, IF LaunchesThread(q) THEN "run" ELSE "none")
        /\ outcome' = Append(outcome, Nothing) /\ saving' = Append(saving, 0) /\ rows' = rows
  BY DEF RunRequested
<1>2. request' \in Seq(Requests) /\ Len(request') = n + 1 /\ request'[n + 1] = q
      /\ \A r \in 1..n : request'[r] = request[r]
  BY <1>0, <1>1, AppendProperties
<1>3. RunsSoFar' = 1..(n + 1)
  BY <1>2 DEF RunsSoFar
<1> HIDE DEF n
<1>4. /\ registry = [r \in 1..n |-> registry[r]] /\ thread = [r \in 1..n |-> thread[r]]
      /\ outcome = [r \in 1..n |-> outcome[r]] /\ saving = [r \in 1..n |-> saving[r]]
  BY <1>0 DEF BacktestingInv, RunLists
<1>5. /\ registry' = [r \in 1..(n + 1) |-> registry'[r]]
      /\ registry'[n + 1] = [status |-> "started", progress |-> 0] /\ \A r \in 1..n : registry'[r] = registry[r]
  BY <1>0, <1>1, <1>4, AppendTo
<1>6. /\ thread' = [r \in 1..(n + 1) |-> thread'[r]]
      /\ thread'[n + 1] \in {"run", "none"} /\ \A r \in 1..n : thread'[r] = thread[r]
  BY <1>0, <1>1, <1>4, AppendTo
<1>7. /\ outcome' = [r \in 1..(n + 1) |-> outcome'[r]]
      /\ outcome'[n + 1] = Nothing /\ \A r \in 1..n : outcome'[r] = outcome[r]
  BY <1>0, <1>1, <1>4, AppendTo
<1>8. saving' = [r \in 1..(n + 1) |-> saving'[r]]
  BY <1>0, <1>1, <1>4, AppendTo
<1>9. RunLists'
  BY <1>2, <1>3, <1>5, <1>6, <1>7, <1>8 DEF RunLists
<1>10. ASSUME NEW row \in rows' PROVE RowOK(row)'
  BY <1>0, <1>1, <1>2, <1>3, <1>10 DEF BacktestingInv, RowOK
<1>11. ASSUME NEW r \in 1..(n + 1) PROVE OutcomeOK(request'[r], outcome'[r]) /\ VerdictOK(r)'
  <2>1. CASE r = n + 1
    <3>1. OutcomeOK(request'[r], outcome'[r])
      BY <2>1, <1>2, <1>7, NothingOK
    <3> QED BY <3>1, <2>1, <1>5, <1>6 DEF VerdictOK
  <2>2. CASE r # n + 1
    <3>1. r \in 1..n
      BY <2>2, <1>0
    <3>2. OutcomeOK(request[r], outcome[r]) /\ VerdictOK(r)
      BY <3>1, <1>0 DEF BacktestingInv
    <3>3. Stored(r) => Stored(r)'
      BY <3>1, <1>1, <1>2, <1>7 DEF Stored, RowKey
    <3> QED BY <3>1, <3>2, <3>3, <1>2, <1>5, <1>6, <1>7 DEF VerdictOK
  <2> QED BY <2>1, <2>2
<1> QED BY <1>3, <1>9, <1>10, <1>11 DEF BacktestingInv

\* A step of one run's thread changes what is said of that run.
LEMMA OthersStay ==
  ASSUME BacktestingInv, NEW r \in RunsSoFar, UNCHANGED request,
         saving' = [s \in RunsSoFar |-> saving'[s]],
         NEW e, registry' = [registry EXCEPT ![r] = e], NEW t, thread' = [thread EXCEPT ![r] = t],
         NEW o, outcome' = [outcome EXCEPT ![r] = o],
         OutcomeOK(request[r], o), VerdictOK(r)', \A row \in rows' : RowOK(row),
         \A s \in RunsSoFar : s # r /\ Stored(s) =>
           \E row \in rows' : row.key = RowKey(s) /\ row.outcome = outcome[s]
  PROVE  BacktestingInv'
<1>0. request' = request /\ RunsSoFar' = RunsSoFar
  BY DEF RunsSoFar
<1>1. /\ registry = [s \in RunsSoFar |-> registry[s]] /\ thread = [s \in RunsSoFar |-> thread[s]]
      /\ outcome = [s \in RunsSoFar |-> outcome[s]] /\ request \in Seq(Requests)
  BY DEF BacktestingInv, RunLists
<1>2. /\ registry' = [s \in RunsSoFar |-> registry'[s]] /\ thread' = [s \in RunsSoFar |-> thread'[s]]
      /\ outcome' = [s \in RunsSoFar |-> outcome'[s]]
      /\ outcome'[r] = o
      /\ \A s \in RunsSoFar : s # r => registry'[s] = registry[s] /\ thread'[s] = thread[s] /\ outcome'[s] = outcome[s]
  BY <1>1
<1>3. RunLists'
  BY <1>0, <1>1, <1>2 DEF RunLists
<1>4. \A row : RowOK(row) => RowOK(row)'
  BY <1>0 DEF RowOK
<1>5. ASSUME NEW s \in RunsSoFar PROVE OutcomeOK(request'[s], outcome'[s]) /\ VerdictOK(s)'
  <2>1. CASE s = r
    BY <2>1, <1>0, <1>2
  <2>2. CASE s # r
    <3>1. OutcomeOK(request[s], outcome[s]) /\ VerdictOK(s)
      BY DEF BacktestingInv
    <3>2. RowKey(s)' = RowKey(s)
      BY <1>0 DEF RowKey
    <3>3. Stored(s) => Stored(s)'
      BY <2>2, <1>2, <3>2 DEF Stored
    <3> QED BY <2>2, <3>1, <3>3, <1>0, <1>2 DEF VerdictOK
  <2> QED BY <2>1, <2>2
<1> QED BY <1>0, <1>3, <1>4, <1>5 DEF BacktestingInv

LEMMA ThreadKeeps ==
  ASSUME BacktestingInv, BacktestingAssumption, NEW r \in RunsSoFar,
         ThreadBegins(r) \/ ThreadComputes(r) \/ ThreadFails(r) \/ ThreadSaves(r)
  PROVE  BacktestingInv'
<1>0. /\ registry = [s \in RunsSoFar |-> registry[s]] /\ thread = [s \in RunsSoFar |-> thread[s]]
      /\ outcome = [s \in RunsSoFar |-> outcome[s]] /\ saving = [s \in RunsSoFar |-> saving[s]]
      /\ request[r] \in Requests /\ OutcomeOK(request[r], outcome[r]) /\ VerdictOK(r)
      /\ \A row \in rows : RowOK(row)
  BY ElementOfSeq DEF BacktestingInv, RunLists, RunsSoFar
<1>1. /\ registry = [registry EXCEPT ![r] = registry[r]] /\ thread = [thread EXCEPT ![r] = thread[r]]
      /\ outcome = [outcome EXCEPT ![r] = outcome[r]]
  BY <1>0
<1>2. \A s : Stored(s) => \E row \in rows : row.key = RowKey(s) /\ row.outcome = outcome[s]
  BY DEF Stored
<1>3. \A status, progress : \E p :
        /\ Updated(r, status, progress) = [registry EXCEPT ![r] = [status |-> status, progress |-> p]]
        /\ Updated(r, status, progress)[r] = [status |-> status, progress |-> p]
  <2> TAKE status, progress
  <2> DEFINE p == IF progress > registry[r].progress THEN progress ELSE registry[r].progress
  <2>1. Updated(r, status, progress) = [registry EXCEPT ![r] = [status |-> status, progress |-> p]]
    BY DEF Updated
  <2> HIDE DEF p
  <2>2. [registry EXCEPT ![r] = [status |-> status, progress |-> p]][r] = [status |-> status, progress |-> p]
    BY <1>0
  <2> QED BY <2>1, <2>2
<1>4. CASE ThreadBegins(r)
  <2>1. PICK p : registry' = [registry EXCEPT ![r] = [status |-> "running", progress |-> p]]
                 /\ registry'[r] = [status |-> "running", progress |-> p]
    <3>1. PICK progress : registry' = Updated(r, "running", progress)
      BY <1>4 DEF ThreadBegins
    <3>2. PICK p : /\ Updated(r, "running", progress) = [registry EXCEPT ![r] = [status |-> "running", progress |-> p]]
                   /\ Updated(r, "running", progress)[r] = [status |-> "running", progress |-> p]
      BY <1>3
    <3> QED BY <3>1, <3>2
  <2>2. /\ thread[r] = "run" /\ thread' = thread /\ outcome' = outcome /\ rows' = rows /\ request' = request
        /\ saving' = saving
    BY <1>4 DEF ThreadBegins
  <2>3. VerdictOK(r)'
    BY <2>1, <2>2 DEF VerdictOK
  <2> QED BY <1>0, <1>1, <1>2, <2>1, <2>2, <2>3, OthersStay
<1>5. CASE ThreadComputes(r)
  <2>1. PICK p : registry' = [registry EXCEPT ![r] = [status |-> "running", progress |-> p]]
                 /\ registry'[r] = [status |-> "running", progress |-> p]
    <3>1. registry' = Updated(r, "running", 80)
      BY <1>5 DEF ThreadComputes
    <3> QED BY <1>3, <3>1
  <2>2. /\ thread' = [thread EXCEPT ![r] = "save"] /\ rows' = rows /\ request' = request
        /\ saving' = saving
    BY <1>5 DEF ThreadComputes
  <2>3. PICK o \in Outcomes(request[r]) : outcome' = [outcome EXCEPT ![r] = o]
    BY <1>5 DEF ThreadComputes
  <2>4. OutcomeOK(request[r], o)
    BY <1>0, <1>5, ComputedOK DEF ThreadComputes
  <2>5. VerdictOK(r)'
    BY <1>0, <2>1, <2>2 DEF VerdictOK
  <2> QED BY <1>0, <1>2, <2>1, <2>2, <2>3, <2>4, <2>5, OthersStay
<1>6. CASE ThreadFails(r)
  <2>1. PICK p : registry' = [registry EXCEPT ![r] = [status |-> "failed", progress |-> p]]
                 /\ registry'[r] = [status |-> "failed", progress |-> p]
    BY <1>3, <1>6 DEF ThreadFails
  <2>2. /\ thread' = [thread EXCEPT ![r] = "ended"] /\ outcome' = outcome /\ rows' = rows /\ request' = request
        /\ saving' = saving
    BY <1>6 DEF ThreadFails
  <2>3. VerdictOK(r)'
    BY <2>1, <2>2 DEF VerdictOK
  <2> QED BY <1>0, <1>1, <1>2, <2>1, <2>2, <2>3, OthersStay
<1>7. CASE ThreadSaves(r)
  <2>1. /\ thread[r] = "save" /\ rows' = Upserted(RowToSave(r)) /\ request' = request /\ outcome' = outcome
        /\ saving' = [s \in RunsSoFar |-> saving'[s]]
    BY <1>0, <1>7 DEF ThreadSaves
  <2>2. /\ \A row \in rows' : RowOK(row)
        /\ \E row \in rows' : row.key = RowKey(r) /\ row.outcome = outcome[r]
        /\ \A s \in RunsSoFar : s # r /\ Stored(s) =>
             \E row \in rows' : row.key = RowKey(s) /\ row.outcome = outcome[s]
    BY <2>1, SaveKeepsRows
  <2>3. Stored(r)'
    BY <2>1, <2>2 DEF Stored, RowKey
  <2>4. CASE UNCHANGED <<thread, registry>>
    <3>1. VerdictOK(r)'
      BY <1>0, <2>1, <2>4 DEF VerdictOK
    <3> QED BY <1>0, <1>1, <2>1, <2>2, <2>4, <3>1, OthersStay
  <2>5. CASE thread' = [thread EXCEPT ![r] = "ended"] /\ registry' = Updated(r, "completed", 100)
    <3>1. PICK p : registry' = [registry EXCEPT ![r] = [status |-> "completed", progress |-> p]]
                   /\ registry'[r] = [status |-> "completed", progress |-> p]
      BY <1>3, <2>5
    <3>2. VerdictOK(r)'
      BY <1>0, <2>3, <2>5, <3>1 DEF VerdictOK
    <3> QED BY <1>0, <1>1, <2>1, <2>2, <2>5, <3>1, <3>2, OthersStay
  <2> QED BY <1>7, <2>4, <2>5 DEF ThreadSaves
<1> QED BY <1>4, <1>5, <1>6, <1>7

LEMMA BacktestingInductive ==
  /\ BacktestingInit => BacktestingInv
  /\ BacktestingInv /\ [BacktestingNext]_backtestingVars => BacktestingInv'
<1>0. BacktestingAssumption
  BY BacktestingAssumption
<1>1. BacktestingInit => BacktestingInv
  <2> SUFFICES ASSUME BacktestingInit PROVE BacktestingInv
    OBVIOUS
  <2>1. request \in Seq(Requests) /\ RunsSoFar = {}
    BY EmptySeq DEF BacktestingInit, RunsSoFar
  <2>2. RunLists
    BY <2>1 DEF BacktestingInit, RunLists
  <2> QED BY <2>1, <2>2 DEF BacktestingInit, BacktestingInv
<1>2. ASSUME BacktestingInv, DashboardRestarts PROVE BacktestingInv'
  <2>1. /\ registry' = [r \in RunsSoFar |-> NoEntry] /\ thread' = [r \in RunsSoFar |-> "ended"]
        /\ UNCHANGED <<request, outcome, saving, rows>> /\ RunsSoFar' = RunsSoFar
    BY <1>2 DEF DashboardRestarts, RunsSoFar
  <2>2. RunLists'
    BY <1>2, <2>1 DEF BacktestingInv, RunLists
  <2>3. \A row \in rows' : RowOK(row)'
    BY <1>2, <2>1 DEF BacktestingInv, RowOK
  <2>4. \A r \in RunsSoFar' : OutcomeOK(request'[r], outcome'[r]) /\ VerdictOK(r)'
    BY <1>2, <2>1 DEF BacktestingInv, VerdictOK
  <2> QED BY <2>2, <2>3, <2>4 DEF BacktestingInv
<1>3. ASSUME BacktestingInv, UNCHANGED backtestingVars PROVE BacktestingInv'
  <2>1. UNCHANGED <<request, registry, thread, outcome, saving, rows>> /\ RunsSoFar' = RunsSoFar
    BY <1>3 DEF backtestingVars, RunsSoFar
  <2>2. RunLists' /\ \A row \in rows' : RowOK(row)'
    BY <1>3, <2>1 DEF BacktestingInv, RunLists, RowOK
  <2>3. ASSUME NEW r \in RunsSoFar PROVE VerdictOK(r)'
    <3>1. Stored(r)' <=> Stored(r)
      BY <2>1 DEF Stored, RowKey
    <3> QED BY <3>1, <1>3, <2>1 DEF BacktestingInv, VerdictOK
  <2> QED BY <1>3, <2>1, <2>2, <2>3 DEF BacktestingInv
<1> QED BY <1>0, <1>1, <1>2, <1>3, BacktestRunStarts, ThreadKeeps DEF BacktestingNext

\* However many runs, threads, errors and restarts of the dashboard: a run it calls
\* completed has its row with what the run computed (_update_run_status after save).
THEOREM BacktestsAreStored == BacktestingSpec => []VerdictsAreStored
<1>1. BacktestingInv => VerdictsAreStored
  BY DEF BacktestingInv, VerdictOK, Stored, VerdictsAreStored
<1> QED BY <1>1, BacktestingInductive, PTL DEF BacktestingSpec

\* For whatever days and window lengths are asked for: every stored walk-forward run
\* tests out of sample (_generate_windows).
THEOREM StoredRunsTestOutOfSample == BacktestingSpec => []TestedOutOfSample
<1>1. BacktestingInv => TestedOutOfSample
  <2> SUFFICES ASSUME BacktestingInv, NEW row \in rows, request[row.key.run].mode = "walk_forward"
               PROVE OutOfSample(request[row.key.run],
                                 [i \in DOMAIN row.outcome.windows |-> row.outcome.windows[i].window])
    BY DEF TestedOutOfSample, OutOfSample, FairWindow
  <2> QED BY DEF BacktestingInv, RowOK, OutcomeOK
<1> QED BY <1>1, BacktestingInductive, PTL DEF BacktestingSpec

-----------------------------------------------------------------------------
(* The least number of a set *)

Below == {pair \in Nat \X Nat : pair[1] < pair[2]}

LEMMA LeastNatural ==
  ASSUME NEW T \in SUBSET Nat, T # {}
  PROVE \E x \in T : \A y \in T : x <= y
<1>1. IsWellFoundedOn(Below, Nat)
  BY NatLessThanWellFounded DEF OpToRel, Below
<1>2. PICK x \in T : \A y \in T : ~(<<y, x>> \in Below)
  BY <1>1, WFMin, Zenon
<1>3. \A y \in T : ~(y < x)
  BY <1>2 DEF Below
<1> QED BY <1>3

-----------------------------------------------------------------------------
(* Calendar *)

Environments == [holidays : Holidays, early : EarlyCloses]

\* An answer given at "at" is in Redis for less than the Ttl; WasSo: it was computed
\* then.  WasLearnt: from an answer that was not older than that either.
Fresh(at) == at \in 0..now /\ now - at < Ttl
WasLearnt(at, envs) == \E t \in 0..at : at - t < Ttl /\ past[t + 1] \cap envs # {}

HolidayOK(d) ==
  holidayKey[d] # NoAnswer =>
    /\ Fresh(holidayKey[d].at) /\ holidayKey[d].answer \in BOOLEAN
    /\ \E env \in past[holidayKey[d].at + 1] : Closed(env, d) = holidayKey[d].answer
EarlyOK(d) ==
  earlyKey[d] # NoAnswer =>
    /\ Fresh(earlyKey[d].at) /\ earlyKey[d].answer \in BOOLEAN
    /\ \E env \in past[earlyKey[d].at + 1] : Short(env, d) = earlyKey[d].answer
HoursOK(d) ==
  hoursKey[d] # NoAnswer =>
    /\ Fresh(hoursKey[d].at)
    /\ WasLearnt(hoursKey[d].at, {env \in Environments : Short(env, d) = (hoursKey[d].answer # "full")})
SkipsOK(d, entry) ==
  \A c \in (d + 1)..entry.answer : c \notin Weekends =>
    WasLearnt(entry.at, {env \in Environments : Closed(env, c) = (c # entry.answer)})
NextOK(d) ==
  nextKey[d] # NoAnswer => Fresh(nextKey[d].at) /\ SkipsOK(d, nextKey[d])

PerDay(key) == key = [d \in Days |-> key[d]]
KeysAreFunctions == PerDay(holidayKey) /\ PerDay(earlyKey) /\ PerDay(hoursKey) /\ PerDay(nextKey)
PastOK ==
  /\ now \in Nat /\ past \in [1..(now + 1) -> SUBSET Environments]
  /\ environment \in past[now + 1]

CalendarInv ==
  /\ PastOK /\ KeysAreFunctions
  /\ \A d \in Days : HolidayOK(d) /\ EarlyOK(d) /\ HoursOK(d) /\ NextOK(d)

LEMMA CalendarHasADay ==
  ASSUME CalendarAssumption PROVE Days = 0..LastDay /\ LastDay \in Nat /\ Ttl \in Nat \ {0} /\ Weekends \subseteq Days
BY DEF CalendarAssumption

LEMMA KeptEntry ==
  ASSUME NEW key, PerDay(key), NEW d \in Days, NEW answer, NEW new, new = Kept(key, d, answer)
  PROVE  /\ PerDay(new)
         /\ \A c \in Days : new[c] = key[c] \/ (c = d /\ new[c] = [answer |-> answer, at |-> now])
<1>1. CASE key[d] # NoAnswer
  <2>1. new = key
    BY <1>1 DEF Kept
  <2> QED BY <2>1
<1>2. CASE key[d] = NoAnswer
  <2> DEFINE entry == [answer |-> answer, at |-> now]
  <2>1. new = [key EXCEPT ![d] = entry]
    BY <1>2 DEF Kept
  <2> HIDE DEF entry
  <2>2. PerDay(new) /\ \A c \in Days : new[c] = key[c] \/ (c = d /\ new[c] = entry)
    BY <2>1 DEF PerDay
  <2> QED BY <2>2 DEF entry
<1> QED BY <1>1, <1>2

LEMMA BooleanAnswers ==
  ASSUME NEW env, NEW d
  PROVE  Closed(env, d) \in BOOLEAN /\ Short(env, d) \in BOOLEAN
<1>1. Closed(env, d) \in BOOLEAN
  BY SMT DEF Closed
<1>2. Short(env, d) \in BOOLEAN
  BY Zenon DEF Short
<1> QED BY <1>1, <1>2

\* What an answer says, cached or computed, was so less than the Ttl ago.
LEMMA HolidayWasLearnt ==
  ASSUME CalendarInv, CalendarAssumption, NEW d \in Days
  PROVE  /\ Answer(holidayKey, d, Closed(environment, d)) \in BOOLEAN
         /\ WasLearnt(now, {env \in Environments : Closed(env, d) = Answer(holidayKey, d, Closed(environment, d))})
<1>1. now \in Nat /\ past \in [1..(now + 1) -> SUBSET Environments] /\ environment \in past[now + 1]
      /\ Ttl \in Nat \ {0} /\ HolidayOK(d)
  BY CalendarHasADay DEF CalendarInv, PastOK
<1>2. CASE holidayKey[d] = NoAnswer
  <2>1. Answer(holidayKey, d, Closed(environment, d)) = Closed(environment, d)
    BY <1>2 DEF Answer
  <2>2. environment \in past[now + 1] \cap {env \in Environments : Closed(env, d) = Closed(environment, d)}
    BY <1>1
  <2>3. WasLearnt(now, {env \in Environments : Closed(env, d) = Closed(environment, d)})
    <3> HIDE DEF Closed
    <3>1. now \in 0..now /\ now - now < Ttl
      BY <1>1
    <3> QED BY <3>1, <2>2 DEF WasLearnt
  <2> QED BY <2>1, <2>3, BooleanAnswers
<1>3. CASE holidayKey[d] # NoAnswer
  <2> DEFINE at == holidayKey[d].at
             ans == holidayKey[d].answer
  <2>1. Answer(holidayKey, d, Closed(environment, d)) = ans
    BY <1>3 DEF Answer
  <2>2. at \in 0..now /\ now - at < Ttl /\ ans \in BOOLEAN /\ \E env \in past[at + 1] : Closed(env, d) = ans
    BY <1>1, <1>3 DEF HolidayOK, Fresh
  <2> HIDE DEF at, ans
  <2>3. past[at + 1] \subseteq Environments
    BY <1>1, <2>2
  <2>4. past[at + 1] \cap {env \in Environments : Closed(env, d) = ans} # {}
    BY <2>2, <2>3
  <2>5. WasLearnt(now, {env \in Environments : Closed(env, d) = ans})
    BY <2>2, <2>4 DEF WasLearnt
  <2> QED BY <2>1, <2>2, <2>5
<1> QED BY <1>2, <1>3

LEMMA EarlyWasLearnt ==
  ASSUME CalendarInv, CalendarAssumption, NEW d \in Days
  PROVE  /\ Answer(earlyKey, d, Short(environment, d)) \in BOOLEAN
         /\ WasLearnt(now, {env \in Environments : Short(env, d) = Answer(earlyKey, d, Short(environment, d))})
<1>1. now \in Nat /\ past \in [1..(now + 1) -> SUBSET Environments] /\ environment \in past[now + 1]
      /\ Ttl \in Nat \ {0} /\ EarlyOK(d)
  BY CalendarHasADay DEF CalendarInv, PastOK
<1>2. CASE earlyKey[d] = NoAnswer
  <2>1. Answer(earlyKey, d, Short(environment, d)) = Short(environment, d)
    BY <1>2 DEF Answer
  <2>2. environment \in past[now + 1] \cap {env \in Environments : Short(env, d) = Short(environment, d)}
    BY <1>1
  <2>3. WasLearnt(now, {env \in Environments : Short(env, d) = Short(environment, d)})
    <3>1. now \in 0..now /\ now - now < Ttl
      BY <1>1
    <3> QED BY <3>1, <2>2 DEF WasLearnt
  <2> QED BY <2>1, <2>3, BooleanAnswers
<1>3. CASE earlyKey[d] # NoAnswer
  <2> DEFINE at == earlyKey[d].at
             ans == earlyKey[d].answer
  <2>1. Answer(earlyKey, d, Short(environment, d)) = ans
    BY <1>3 DEF Answer
  <2>2. at \in 0..now /\ now - at < Ttl /\ ans \in BOOLEAN /\ \E env \in past[at + 1] : Short(env, d) = ans
    BY <1>1, <1>3 DEF EarlyOK, Fresh
  <2> HIDE DEF at, ans
  <2>3. past[at + 1] \subseteq Environments
    BY <1>1, <2>2
  <2>4. past[at + 1] \cap {env \in Environments : Short(env, d) = ans} # {}
    BY <2>2, <2>3
  <2>5. WasLearnt(now, {env \in Environments : Short(env, d) = ans})
    BY <2>2, <2>4 DEF WasLearnt
  <2> QED BY <2>1, <2>2, <2>5
<1> QED BY <1>2, <1>3

\* The search ends: nobody's holidays name the last day, whatever Redis says of it.
LEMMA TradingDayFound ==
  ASSUME CalendarInv, CalendarAssumption, NEW d \in Days, d < LastDay
  PROVE  LET e == TradingDayAfter(d)
         IN e \in Days /\ e > d /\ OpenOn(e) /\ \A c \in Days : d < c /\ c < e => ~OpenOn(c)
<1> DEFINE later == {e \in Days : e > d /\ OpenOn(e)}
<1>1. Days = 0..LastDay /\ LastDay \in Nat
  BY CalendarHasADay
<1>2. OpenOn(LastDay)
  <2>1. LastDay \in Days
    BY <1>1
  <2>2. \A env \in Environments : Closed(env, LastDay) = FALSE
    BY DEF Environments, Closed, CalendarAssumption
  <2>3. /\ Answer(holidayKey, LastDay, Closed(environment, LastDay)) \in BOOLEAN
        /\ \E env \in Environments : Closed(env, LastDay) = Answer(holidayKey, LastDay, Closed(environment, LastDay))
    BY <2>1, HolidayWasLearnt DEF WasLearnt
  <2>4. Answer(holidayKey, LastDay, Closed(environment, LastDay)) = FALSE
    BY <2>2, <2>3
  <2> QED BY <2>4 DEF OpenOn, CalendarAssumption
<1>3. later \in SUBSET Nat /\ later # {}
  BY <1>1, <1>2
<1>4. PICK e \in later : \A c \in later : e <= c
  BY <1>3, LeastNatural
<1>5. e \in Days /\ e > d /\ OpenOn(e) /\ \A c \in Days : d < c /\ c < e => ~OpenOn(c)
  <2> HIDE DEF OpenOn
  <2> QED BY <1>1, <1>4
<1> HIDE DEF later, OpenOn
<1> QED BY <1>5, Zenon DEF TradingDayAfter

\* Nothing that was learnt is unlearnt by a new entry, a deployment or a tick.
PastGrows ==
  /\ now' \in Nat /\ now <= now'
  /\ \A t \in 0..now : past[t + 1] \subseteq past'[t + 1]

LEMMA LearntStays ==
  ASSUME PastGrows, now \in Nat, NEW at \in 0..now, NEW envs, WasLearnt(at, envs)
  PROVE  \E t \in 0..at : at - t < Ttl /\ past'[t + 1] \cap envs # {}
BY DEF PastGrows, WasLearnt

LEMMA TicksKeep ==
  ASSUME CalendarInv, CalendarAssumption, Deploy \/ TimePasses \/ RedisForgets
  PROVE  CalendarInv'
<1>0. now \in Nat /\ past \in [1..(now + 1) -> SUBSET Environments] /\ environment \in past[now + 1]
  BY DEF CalendarInv, PastOK
<1>1. PastOK' /\ PastGrows
  <2>1. CASE Deploy
    <3>1. environment' \in Environments /\ now' = now
          /\ past' = [past EXCEPT ![now + 1] = past[now + 1] \cup {environment'}]
      BY <2>1 DEF Deploy, Environments
    <3> QED BY <3>1, <1>0 DEF PastOK, PastGrows
  <2>2. CASE TimePasses
    <3>1. environment' = environment /\ now' = now + 1 /\ environment \in Environments
          /\ past' = [i \in 1..(now + 2) |-> IF i = now + 2 THEN {environment} ELSE past[i]]
      BY <2>2, <1>0 DEF TimePasses
    <3> QED BY <3>1, <1>0 DEF PastOK, PastGrows
  <2>3. CASE RedisForgets
    BY <2>3, <1>0 DEF RedisForgets, PastOK, PastGrows
  <2> QED BY <2>1, <2>2, <2>3
<1>2. KeysAreFunctions'
  <2>1. CASE Deploy
    BY <2>1 DEF Deploy, CalendarInv, KeysAreFunctions, PerDay
  <2>2. CASE TimePasses
    BY <2>2 DEF TimePasses, Surviving, KeysAreFunctions, PerDay
  <2>3. CASE RedisForgets
    BY <2>3 DEF RedisForgets, KeysAreFunctions, PerDay
  <2> QED BY <2>1, <2>2, <2>3
<1>3. \A d \in Days :
        /\ holidayKey'[d] # NoAnswer => holidayKey'[d] = holidayKey[d] /\ now' - holidayKey[d].at < Ttl
        /\ earlyKey'[d] # NoAnswer => earlyKey'[d] = earlyKey[d] /\ now' - earlyKey[d].at < Ttl
        /\ hoursKey'[d] # NoAnswer => hoursKey'[d] = hoursKey[d] /\ now' - hoursKey[d].at < Ttl
        /\ nextKey'[d] # NoAnswer => nextKey'[d] = nextKey[d] /\ now' - nextKey[d].at < Ttl
  <2>1. CASE Deploy
    BY <2>1 DEF Deploy, CalendarInv, HolidayOK, EarlyOK, HoursOK, NextOK, Fresh
  <2>2. CASE TimePasses
    BY <2>2 DEF TimePasses, Surviving, Alive
  <2>3. CASE RedisForgets
    BY <2>3 DEF RedisForgets
  <2> QED BY <2>1, <2>2, <2>3
<1>4. ASSUME NEW d \in Days PROVE HolidayOK(d)' /\ EarlyOK(d)' /\ HoursOK(d)' /\ NextOK(d)'
  <2>0. HolidayOK(d) /\ EarlyOK(d) /\ HoursOK(d) /\ NextOK(d)
    BY DEF CalendarInv
  <2>01. \A at : Fresh(at) /\ now' - at < Ttl => at \in 0..now /\ at \in 0..now' /\ now' - at < Ttl
    <3>1. now' \in Nat /\ now <= now' /\ now \in Nat
      BY <1>0, <1>1 DEF PastGrows
    <3> SUFFICES ASSUME NEW at, Fresh(at), now' - at < Ttl PROVE at \in 0..now /\ at \in 0..now'
      OBVIOUS
    <3> QED BY <3>1 DEF Fresh
  <2>1. HolidayOK(d)'
    <3> SUFFICES ASSUME holidayKey'[d] # NoAnswer PROVE HolidayOK(d)'
      BY DEF HolidayOK
    <3>1. holidayKey'[d] = holidayKey[d] /\ now' - holidayKey[d].at < Ttl /\ holidayKey[d] # NoAnswer
      BY <1>3
    <3> DEFINE e == holidayKey[d]
    <3>2. /\ Fresh(e.at) /\ e.answer \in BOOLEAN /\ \E env \in past[e.at + 1] : Closed(env, d) = e.answer
      BY <2>0, <3>1 DEF HolidayOK
    <3>3. e.at \in 0..now /\ e.at \in 0..now' /\ now' - e.at < Ttl
      BY <2>01, <3>1, <3>2
    <3>4. past[e.at + 1] \subseteq past'[e.at + 1]
      BY <1>1, <3>3 DEF PastGrows
    <3> QED BY <3>1, <3>2, <3>3, <3>4 DEF HolidayOK, Fresh
  <2>2. EarlyOK(d)'
    <3> SUFFICES ASSUME earlyKey'[d] # NoAnswer PROVE EarlyOK(d)'
      BY DEF EarlyOK
    <3>1. earlyKey'[d] = earlyKey[d] /\ now' - earlyKey[d].at < Ttl /\ earlyKey[d] # NoAnswer
      BY <1>3
    <3> DEFINE e == earlyKey[d]
    <3>2. /\ Fresh(e.at) /\ e.answer \in BOOLEAN /\ \E env \in past[e.at + 1] : Short(env, d) = e.answer
      BY <2>0, <3>1 DEF EarlyOK
    <3>3. e.at \in 0..now /\ e.at \in 0..now' /\ now' - e.at < Ttl
      BY <2>01, <3>1, <3>2
    <3>4. past[e.at + 1] \subseteq past'[e.at + 1]
      BY <1>1, <3>3 DEF PastGrows
    <3> QED BY <3>1, <3>2, <3>3, <3>4 DEF EarlyOK, Fresh
  <2>3. HoursOK(d)'
    <3> SUFFICES ASSUME hoursKey'[d] # NoAnswer PROVE HoursOK(d)'
      BY DEF HoursOK
    <3>1. hoursKey'[d] = hoursKey[d] /\ now' - hoursKey[d].at < Ttl /\ hoursKey[d] # NoAnswer
      BY <1>3
    <3> DEFINE e == hoursKey[d]
               envs == {env \in Environments : Short(env, d) = (e.answer # "full")}
    <3>2. Fresh(e.at) /\ WasLearnt(e.at, envs)
      BY <2>0, <3>1 DEF HoursOK
    <3>3. e.at \in 0..now /\ e.at \in 0..now' /\ now' - e.at < Ttl
      BY <2>01, <3>1, <3>2
    <3> HIDE DEF envs
    <3>4. \E t \in 0..e.at : e.at - t < Ttl /\ past'[t + 1] \cap envs # {}
      BY <1>0, <1>1, <3>2, <3>3, LearntStays
    <3> QED BY <3>1, <3>3, <3>4 DEF HoursOK, Fresh, WasLearnt, envs
  <2>4. NextOK(d)'
    <3> SUFFICES ASSUME nextKey'[d] # NoAnswer PROVE NextOK(d)'
      BY DEF NextOK
    <3>1. nextKey'[d] = nextKey[d] /\ now' - nextKey[d].at < Ttl /\ nextKey[d] # NoAnswer
      BY <1>3
    <3> DEFINE e == nextKey[d]
               Envs(c) == {env \in Environments : Closed(env, c) = (c # e.answer)}
    <3>2. Fresh(e.at) /\ \A c \in (d + 1)..e.answer : c \notin Weekends => WasLearnt(e.at, Envs(c))
      BY <2>0, <3>1 DEF NextOK, SkipsOK
    <3>3. e.at \in 0..now /\ e.at \in 0..now' /\ now' - e.at < Ttl
      BY <2>01, <3>1, <3>2
    <3>4. ASSUME NEW c \in (d + 1)..e.answer, c \notin Weekends
          PROVE \E t \in 0..e.at : e.at - t < Ttl /\ past'[t + 1] \cap Envs(c) # {}
      <4>1. WasLearnt(e.at, Envs(c))
        BY <3>2, <3>4
      <4> HIDE DEF Envs
      <4> QED BY <4>1, <1>0, <1>1, <3>3, LearntStays
    <3> QED BY <3>1, <3>3, <3>4 DEF NextOK, SkipsOK, Fresh, WasLearnt
  <2> QED BY <2>1, <2>2, <2>3, <2>4
<1> QED BY <1>1, <1>2, <1>4 DEF CalendarInv

-----------------------------------------------------------------------------
(* Looking up *)

Looking == UNCHANGED <<now, past, environment>>

\* What was known stays known while answers are looked up.
LEMMA LookupKeeps ==
  ASSUME CalendarInv, Looking, NEW d \in Days
  PROVE  /\ PastOK'
         /\ holidayKey'[d] = holidayKey[d] => HolidayOK(d)'
         /\ earlyKey'[d] = earlyKey[d] => EarlyOK(d)'
         /\ hoursKey'[d] = hoursKey[d] => HoursOK(d)'
         /\ nextKey'[d] = nextKey[d] => NextOK(d)'
<1>1. PastOK /\ HolidayOK(d) /\ EarlyOK(d) /\ HoursOK(d) /\ NextOK(d)
  BY DEF CalendarInv
<1>2. \A at : Fresh(at)' <=> Fresh(at)
  BY DEF Fresh, Looking
<1>3. \A at, envs : WasLearnt(at, envs)' <=> WasLearnt(at, envs)
  BY DEF WasLearnt, Looking
<1>4. PastOK'
  BY <1>1 DEF PastOK, Looking
<1>5. holidayKey'[d] = holidayKey[d] => HolidayOK(d)'
  BY <1>1, <1>2 DEF HolidayOK, Looking
<1>6. earlyKey'[d] = earlyKey[d] => EarlyOK(d)'
  BY <1>1, <1>2 DEF EarlyOK, Looking
<1>7. hoursKey'[d] = hoursKey[d] => HoursOK(d)'
  <2> SUFFICES ASSUME hoursKey'[d] = hoursKey[d], hoursKey'[d] # NoAnswer PROVE HoursOK(d)'
    BY DEF HoursOK
  <2> DEFINE envs == {env \in Environments : Short(env, d) = (hoursKey[d].answer # "full")}
  <2>1. Fresh(hoursKey[d].at) /\ WasLearnt(hoursKey[d].at, envs)
    BY <1>1 DEF HoursOK
  <2>2. Fresh(hoursKey[d].at)' /\ WasLearnt(hoursKey[d].at, envs)'
    <3>1. \A at : at = hoursKey[d].at => Fresh(at)' /\ WasLearnt(at, envs)'
      BY <1>2, <2>1 DEF WasLearnt, Looking
    <3> QED BY <2>1 DEF WasLearnt, Fresh, Looking
  <2> QED BY <2>1 DEF HoursOK, WasLearnt, Fresh, Looking
<1>8. nextKey'[d] = nextKey[d] => NextOK(d)'
  BY <1>1 DEF NextOK, SkipsOK, WasLearnt, Fresh, Looking
<1> QED BY <1>4, <1>5, <1>6, <1>7, <1>8

\* What is computed now is so now, in the environment there is.
LEMMA ComputedNow ==
  ASSUME CalendarInv, CalendarAssumption, Looking, NEW d \in Days
  PROVE  /\ holidayKey'[d] = [answer |-> Closed(environment, d), at |-> now] => HolidayOK(d)'
         /\ earlyKey'[d] = [answer |-> Short(environment, d), at |-> now] => EarlyOK(d)'
<1>1. now \in Nat /\ Ttl \in Nat \ {0} /\ environment \in past[now + 1]
  BY CalendarHasADay DEF CalendarInv, PastOK
<1>2. now \in 0..now /\ now - now < Ttl
  BY <1>1
<1>3. holidayKey'[d] = [answer |-> Closed(environment, d), at |-> now] => HolidayOK(d)'
  <2> SUFFICES ASSUME holidayKey'[d] = [answer |-> Closed(environment, d), at |-> now] PROVE HolidayOK(d)'
    OBVIOUS
  <2>1. holidayKey'[d].at = now /\ holidayKey'[d].answer = Closed(environment, d)
        /\ holidayKey'[d].answer \in BOOLEAN
    BY BooleanAnswers
  <2> QED BY <1>1, <1>2, <2>1 DEF HolidayOK, Fresh, Looking
<1>4. earlyKey'[d] = [answer |-> Short(environment, d), at |-> now] => EarlyOK(d)'
  <2> SUFFICES ASSUME earlyKey'[d] = [answer |-> Short(environment, d), at |-> now] PROVE EarlyOK(d)'
    OBVIOUS
  <2>1. earlyKey'[d].at = now /\ earlyKey'[d].answer = Short(environment, d)
        /\ earlyKey'[d].answer \in BOOLEAN
    BY BooleanAnswers
  <2> QED BY <1>1, <1>2, <2>1 DEF EarlyOK, Fresh, Looking
<1> QED BY <1>3, <1>4

LEMMA IsHolidayKeeps ==
  ASSUME CalendarInv, CalendarAssumption, NEW d \in Days, IsHoliday(d)
  PROVE  CalendarInv'
<1>1. Looking /\ UNCHANGED <<earlyKey, hoursKey, nextKey>>
      /\ holidayKey' = Kept(holidayKey, d, Closed(environment, d))
  BY DEF IsHoliday, Looking
<1>2. KeysAreFunctions
  BY DEF CalendarInv
<1>3. /\ PerDay(holidayKey')
      /\ \A c \in Days : \/ holidayKey'[c] = holidayKey[c]
                         \/ holidayKey'[c] = [answer |-> Closed(environment, c), at |-> now]
  <2>1. PerDay(holidayKey)
    BY <1>2 DEF KeysAreFunctions
  <2>2. /\ PerDay(holidayKey')
        /\ \A c \in Days : \/ holidayKey'[c] = holidayKey[c]
                           \/ c = d /\ holidayKey'[c] = [answer |-> Closed(environment, d), at |-> now]
    <3>1. holidayKey' = Kept(holidayKey, d, Closed(environment, d))
      BY <1>1
    <3> QED BY <3>1, <2>1, KeptEntry
  <2> QED BY <2>2
<1>4. KeysAreFunctions'
  BY <1>1, <1>2, <1>3 DEF KeysAreFunctions
<1>5. ASSUME NEW c \in Days PROVE HolidayOK(c)' /\ EarlyOK(c)' /\ HoursOK(c)' /\ NextOK(c)' /\ PastOK'
  BY <1>1, <1>3, LookupKeeps, ComputedNow
<1> QED BY <1>4, <1>5 DEF CalendarInv

LEMMA IsEarlyCloseKeeps ==
  ASSUME CalendarInv, CalendarAssumption, NEW d \in Days, IsEarlyClose(d)
  PROVE  CalendarInv'
<1>1. Looking /\ UNCHANGED <<holidayKey, hoursKey, nextKey>>
      /\ earlyKey' = Kept(earlyKey, d, Short(environment, d))
  BY DEF IsEarlyClose, Looking
<1>2. KeysAreFunctions
  BY DEF CalendarInv
<1>3. /\ PerDay(earlyKey')
      /\ \A c \in Days : \/ earlyKey'[c] = earlyKey[c]
                         \/ earlyKey'[c] = [answer |-> Short(environment, c), at |-> now]
  <2>1. PerDay(earlyKey)
    BY <1>2 DEF KeysAreFunctions
  <2>2. /\ PerDay(earlyKey')
        /\ \A c \in Days : \/ earlyKey'[c] = earlyKey[c]
                           \/ c = d /\ earlyKey'[c] = [answer |-> Short(environment, d), at |-> now]
    <3>1. earlyKey' = Kept(earlyKey, d, Short(environment, d))
      BY <1>1
    <3> QED BY <3>1, <2>1, KeptEntry
  <2> QED BY <2>2
<1>4. KeysAreFunctions'
  BY <1>1, <1>2, <1>3 DEF KeysAreFunctions
<1>5. ASSUME NEW c \in Days PROVE HolidayOK(c)' /\ EarlyOK(c)' /\ HoursOK(c)' /\ NextOK(c)' /\ PastOK'
  BY <1>1, <1>3, LookupKeeps, ComputedNow
<1> QED BY <1>4, <1>5 DEF CalendarInv

LEMMA HoursTell ==
  ASSUME NEW short \in BOOLEAN, NEW d
  PROVE  (Hours(short, d) # "full") = short
BY DEF Hours

LEMMA MarketHoursKeeps ==
  ASSUME CalendarInv, CalendarAssumption, NEW d \in Days, MarketHours(d)
  PROVE  CalendarInv'
<1> DEFINE short == Answer(earlyKey, d, Short(environment, d))
<1>1. Looking /\ UNCHANGED <<holidayKey, nextKey>>
      /\ hoursKey' = Kept(hoursKey, d, Hours(short, d))
      /\ earlyKey' = IF hoursKey[d] # NoAnswer THEN earlyKey ELSE Kept(earlyKey, d, Short(environment, d))
  BY DEF MarketHours, Looking
<1>2. KeysAreFunctions
  BY DEF CalendarInv
<1>3. /\ PerDay(earlyKey')
      /\ \A c \in Days : \/ earlyKey'[c] = earlyKey[c]
                         \/ earlyKey'[c] = [answer |-> Short(environment, c), at |-> now]
  <2>1. PerDay(earlyKey)
    BY <1>2 DEF KeysAreFunctions
  <2>2. CASE hoursKey[d] # NoAnswer
    BY <1>1, <2>1, <2>2
  <2>3. CASE hoursKey[d] = NoAnswer
    <3>1. earlyKey' = Kept(earlyKey, d, Short(environment, d))
      BY <1>1, <2>3
    <3>2. /\ PerDay(earlyKey')
          /\ \A c \in Days : \/ earlyKey'[c] = earlyKey[c]
                             \/ c = d /\ earlyKey'[c] = [answer |-> Short(environment, d), at |-> now]
      BY <3>1, <2>1, KeptEntry
    <3> QED BY <3>2
  <2> QED BY <2>2, <2>3
<1>4. short \in BOOLEAN /\ WasLearnt(now, {env \in Environments : Short(env, d) = short})
  BY EarlyWasLearnt
<1> HIDE DEF short
<1>5. /\ PerDay(hoursKey')
      /\ \A c \in Days : \/ hoursKey'[c] = hoursKey[c]
                         \/ c = d /\ hoursKey'[c] = [answer |-> Hours(short, d), at |-> now]
  <2>1. PerDay(hoursKey)
    BY <1>2 DEF KeysAreFunctions
  <2>2. /\ PerDay(hoursKey')
        /\ \A c \in Days : \/ hoursKey'[c] = hoursKey[c]
                           \/ c = d /\ hoursKey'[c] = [answer |-> Hours(short, d), at |-> now]
    <3>1. hoursKey' = Kept(hoursKey, d, Hours(short, d))
      BY <1>1
    <3> QED BY <3>1, <2>1, KeptEntry
  <2> QED BY <2>2
<1>6. KeysAreFunctions'
  BY <1>1, <1>2, <1>3, <1>5 DEF KeysAreFunctions
<1>7. hoursKey'[d] = [answer |-> Hours(short, d), at |-> now] => HoursOK(d)'
  <2> SUFFICES ASSUME hoursKey'[d] = [answer |-> Hours(short, d), at |-> now] PROVE HoursOK(d)'
    OBVIOUS
  <2>1. hoursKey'[d].at = now /\ (hoursKey'[d].answer # "full") = short
    BY <1>4, HoursTell
  <2>2. now \in Nat /\ Ttl \in Nat \ {0}
    BY CalendarHasADay DEF CalendarInv, PastOK
  <2>3. now \in 0..now /\ now - now < Ttl
    BY <2>2
  <2>4. {env \in Environments : Short(env, d) = (hoursKey'[d].answer # "full")}
          = {env \in Environments : Short(env, d) = short}
    BY <2>1
  <2> QED BY <1>1, <1>4, <2>1, <2>3, <2>4 DEF HoursOK, Fresh, WasLearnt, Looking
<1>8. ASSUME NEW c \in Days PROVE HolidayOK(c)' /\ EarlyOK(c)' /\ HoursOK(c)' /\ NextOK(c)' /\ PastOK'
  BY <1>1, <1>3, <1>5, <1>7, LookupKeeps, ComputedNow
<1> QED BY <1>6, <1>8 DEF CalendarInv

LEMMA NextTradingDayKeeps ==
  ASSUME CalendarInv, CalendarAssumption, NEW d \in Days, NextTradingDay(d)
  PROVE  CalendarInv'
<1> DEFINE found == TradingDayAfter(d)
<1>1. /\ Looking /\ UNCHANGED <<earlyKey, hoursKey>> /\ d < LastDay
      /\ nextKey' = Kept(nextKey, d, found)
      /\ holidayKey' = IF nextKey[d] # NoAnswer THEN holidayKey
                       ELSE [c \in Days |-> IF d < c /\ c <= found /\ c \notin Weekends
                                            THEN Kept(holidayKey, c, Closed(environment, c))[c]
                                            ELSE holidayKey[c]]
  BY DEF NextTradingDay, Looking
<1>2. KeysAreFunctions
  BY DEF CalendarInv
<1>3. found \in Days /\ found > d /\ OpenOn(found) /\ \A c \in Days : d < c /\ c < found => ~OpenOn(c)
  BY <1>1, TradingDayFound
<1> HIDE DEF found
<1>4. /\ PerDay(holidayKey')
      /\ \A c \in Days : \/ holidayKey'[c] = holidayKey[c]
                         \/ holidayKey'[c] = [answer |-> Closed(environment, c), at |-> now]
  <2>1. PerDay(holidayKey)
    BY <1>2 DEF KeysAreFunctions
  <2>2. CASE nextKey[d] # NoAnswer
    BY <1>1, <2>1, <2>2
  <2>3. CASE nextKey[d] = NoAnswer
    <3>1. holidayKey' = [c \in Days |-> IF d < c /\ c <= found /\ c \notin Weekends
                                        THEN Kept(holidayKey, c, Closed(environment, c))[c]
                                        ELSE holidayKey[c]]
      BY <1>1, <2>3
    <3>2. \A c \in Days : \/ Kept(holidayKey, c, Closed(environment, c))[c] = holidayKey[c]
                          \/ Kept(holidayKey, c, Closed(environment, c))[c]
                               = [answer |-> Closed(environment, c), at |-> now]
      BY <2>1, KeptEntry
    <3> HIDE DEF Kept
    <3> QED BY <3>1, <3>2 DEF PerDay
  <2> QED BY <2>2, <2>3
<1>5. /\ PerDay(nextKey')
      /\ \A c \in Days : \/ nextKey'[c] = nextKey[c]
                         \/ c = d /\ nextKey'[c] = [answer |-> found, at |-> now]
  <2>1. PerDay(nextKey)
    BY <1>2 DEF KeysAreFunctions
  <2>2. /\ PerDay(nextKey')
        /\ \A c \in Days : \/ nextKey'[c] = nextKey[c]
                           \/ c = d /\ nextKey'[c] = [answer |-> found, at |-> now]
    <3>1. nextKey' = Kept(nextKey, d, found)
      BY <1>1
    <3> QED BY <3>1, <2>1, KeptEntry
  <2> QED BY <2>2
<1>6. KeysAreFunctions'
  BY <1>1, <1>2, <1>4, <1>5 DEF KeysAreFunctions
<1>7. ASSUME NEW c \in (d + 1)..found, c \notin Weekends
      PROVE  WasLearnt(now, {env \in Environments : Closed(env, c) = (c # found)})
  <2>1. Days = 0..LastDay /\ LastDay \in Nat
    BY CalendarHasADay
  <2>2. c \in Days /\ d < c /\ (c < found \/ c = found)
    BY <1>3, <1>7, <2>1
  <2> DEFINE ans == Answer(holidayKey, c, Closed(environment, c))
  <2>3. ans \in BOOLEAN /\ WasLearnt(now, {env \in Environments : Closed(env, c) = ans})
    BY <2>2, HolidayWasLearnt
  <2>4. OpenOn(c) <=> ~ans
    BY <1>7 DEF OpenOn
  <2> HIDE DEF ans
  <2>5. ans = (c # found)
    <3>1. CASE c = found
      BY <1>3, <2>3, <2>4, <3>1
    <3>2. CASE c # found
      <4>1. ~OpenOn(c)
        BY <1>3, <2>2, <3>2
      <4> QED BY <4>1, <2>3, <2>4, <3>2
    <3> QED BY <3>1, <3>2
  <2> QED BY <2>3, <2>5
<1>8. nextKey'[d] = [answer |-> found, at |-> now] => NextOK(d)'
  <2> SUFFICES ASSUME nextKey'[d] = [answer |-> found, at |-> now] PROVE NextOK(d)'
    OBVIOUS
  <2>1. nextKey'[d].at = now /\ nextKey'[d].answer = found
    OBVIOUS
  <2>2. now \in Nat /\ Ttl \in Nat \ {0}
    BY CalendarHasADay DEF CalendarInv, PastOK
  <2>3. now \in 0..now /\ now - now < Ttl
    BY <2>2
  <2>4. PICK at, next : at = now /\ next = found /\ nextKey'[d].at = at /\ nextKey'[d].answer = next
    BY <2>1
  <2>5. Fresh(at)'
    BY <1>1, <2>3, <2>4 DEF Fresh, Looking
  <2>6. ASSUME NEW c \in (d + 1)..next, c \notin Weekends
        PROVE  WasLearnt(at, {env \in Environments : Closed(env, c) = (c # next)})'
    <3>1. WasLearnt(at, {env \in Environments : Closed(env, c) = (c # next)})
      BY <1>7, <2>4, <2>6
    <3> QED BY <1>1, <3>1 DEF WasLearnt, Looking
  <2>7. NextOK(d)' <=> (nextKey'[d] # NoAnswer => Fresh(at)' /\ SkipsOK(d, [answer |-> next, at |-> at])')
    BY <2>4 DEF NextOK, SkipsOK, Fresh, WasLearnt
  <2>8. SkipsOK(d, [answer |-> next, at |-> at])'
    BY <2>6 DEF SkipsOK, WasLearnt
  <2> QED BY <2>5, <2>7, <2>8
<1>9. ASSUME NEW c \in Days PROVE HolidayOK(c)' /\ EarlyOK(c)' /\ HoursOK(c)' /\ NextOK(c)' /\ PastOK'
  BY <1>1, <1>4, <1>5, <1>8, LookupKeeps, ComputedNow
<1> QED BY <1>6, <1>9 DEF CalendarInv

\* What was learnt less than a Ttl ago, from what was so less than a Ttl before, was so
\* less than two Ttl ago.
LEMMA LearntIsRecent ==
  ASSUME PastOK, Ttl \in Nat \ {0}, NEW at, Fresh(at), NEW envs, WasLearnt(at, envs)
  PROVE  Lately(2 * Ttl) \cap envs # {}
<1>1. PICK t \in 0..at : at - t < Ttl /\ past[t + 1] \cap envs # {}
  BY DEF WasLearnt
<1>2. at \in 0..now /\ now - at < Ttl /\ now \in Nat /\ DOMAIN past = 1..(now + 1)
  BY DEF Fresh, PastOK
<1>3. t + 1 \in DOMAIN past /\ (t + 1) - 1 + 2 * Ttl > now
  BY <1>1, <1>2
<1> QED BY <1>1, <1>3 DEF Lately

LEMMA SaidIsRecent ==
  ASSUME PastOK, Ttl \in Nat \ {0}, NEW at, Fresh(at)
  PROVE  past[at + 1] \subseteq Lately(Ttl)
<1>1. at \in 0..now /\ now - at < Ttl /\ now \in Nat /\ DOMAIN past = 1..(now + 1)
  BY DEF Fresh, PastOK
<1>2. at + 1 \in DOMAIN past /\ (at + 1) - 1 + Ttl > now
  BY <1>1
<1> QED BY <1>2 DEF Lately

\* For any market, any lifetime and any redeployments: an answer is less than the Ttl
\* old, one that is built on others less than two (market_calendar.py's Redis keys).
THEOREM CalendarIsRecent == CalendarSpec => []AnswersAreRecent
<1> USE CalendarAssumption
<1>1. CalendarInit => CalendarInv
  <2> SUFFICES ASSUME CalendarInit PROVE CalendarInv
    OBVIOUS
  <2>1. PastOK
    BY DEF CalendarInit, PastOK, Environments
  <2>2. KeysAreFunctions
    BY DEF CalendarInit, KeysAreFunctions, PerDay
  <2>3. \A d \in Days : HolidayOK(d) /\ EarlyOK(d) /\ HoursOK(d) /\ NextOK(d)
    BY DEF CalendarInit, HolidayOK, EarlyOK, HoursOK, NextOK
  <2> QED BY <2>1, <2>2, <2>3 DEF CalendarInv
<1>2. CalendarInv /\ [CalendarNext]_calendarVars => CalendarInv'
  <2> SUFFICES ASSUME CalendarInv, [CalendarNext]_calendarVars PROVE CalendarInv'
    OBVIOUS
  <2>1. CASE UNCHANGED calendarVars
    <3>1. Looking /\ UNCHANGED <<holidayKey, earlyKey, hoursKey, nextKey>>
      BY <2>1 DEF calendarVars, Looking
    <3>2. KeysAreFunctions' /\ PastOK'
      BY <3>1 DEF CalendarInv, KeysAreFunctions, PerDay, PastOK, Looking
    <3> QED BY <3>1, <3>2, LookupKeeps DEF CalendarInv
  <2>2. CASE \E d \in AskedDays : IsHoliday(d) \/ IsEarlyClose(d) \/ MarketHours(d) \/ NextTradingDay(d)
    <3>1. AskedDays \subseteq Days
      BY DEF CalendarAssumption
    <3> QED BY <2>2, <3>1, IsHolidayKeeps, IsEarlyCloseKeeps, MarketHoursKeeps, NextTradingDayKeeps
  <2> QED BY <2>1, <2>2, TicksKeep DEF CalendarNext
<1>3. CalendarInv => AnswersAreRecent
  <2> SUFFICES ASSUME CalendarInv, NEW d \in Days
               PROVE
    /\ holidayKey[d] # NoAnswer => \E env \in Lately(Ttl) : Closed(env, d) = holidayKey[d].answer
    /\ earlyKey[d] # NoAnswer => \E env \in Lately(Ttl) : Short(env, d) = earlyKey[d].answer
    /\ hoursKey[d] # NoAnswer => \E env \in Lately(2 * Ttl) : Short(env, d) = (hoursKey[d].answer # "full")
    /\ nextKey[d] # NoAnswer =>
         \A c \in (d + 1)..nextKey[d].answer : c \notin Weekends =>
           \E env \in Lately(2 * Ttl) : Closed(env, c) = (c # nextKey[d].answer)
    BY DEF AnswersAreRecent, HeldLately
  <2>0. PastOK /\ Ttl \in Nat \ {0} /\ HolidayOK(d) /\ EarlyOK(d) /\ HoursOK(d) /\ NextOK(d)
    BY CalendarHasADay DEF CalendarInv
  <2>1. holidayKey[d] # NoAnswer => \E env \in Lately(Ttl) : Closed(env, d) = holidayKey[d].answer
    BY <2>0, SaidIsRecent DEF HolidayOK
  <2>2. earlyKey[d] # NoAnswer => \E env \in Lately(Ttl) : Short(env, d) = earlyKey[d].answer
    BY <2>0, SaidIsRecent DEF EarlyOK
  <2>3. hoursKey[d] # NoAnswer => \E env \in Lately(2 * Ttl) : Short(env, d) = (hoursKey[d].answer # "full")
    <3> DEFINE envs == {env \in Environments : Short(env, d) = (hoursKey[d].answer # "full")}
    <3>1. hoursKey[d] # NoAnswer => Fresh(hoursKey[d].at) /\ WasLearnt(hoursKey[d].at, envs)
      BY <2>0 DEF HoursOK
    <3> HIDE DEF envs
    <3>2. hoursKey[d] # NoAnswer => Lately(2 * Ttl) \cap envs # {}
      BY <2>0, <3>1, LearntIsRecent
    <3> QED BY <3>2 DEF envs
  <2>4. ASSUME nextKey[d] # NoAnswer, NEW c \in (d + 1)..nextKey[d].answer, c \notin Weekends
        PROVE  \E env \in Lately(2 * Ttl) : Closed(env, c) = (c # nextKey[d].answer)
    <3> DEFINE envs == {env \in Environments : Closed(env, c) = (c # nextKey[d].answer)}
    <3>1. Fresh(nextKey[d].at) /\ WasLearnt(nextKey[d].at, envs)
      BY <2>0, <2>4 DEF NextOK, SkipsOK
    <3> HIDE DEF envs
    <3>2. Lately(2 * Ttl) \cap envs # {}
      BY <2>0, <3>1, LearntIsRecent
    <3> QED BY <3>2 DEF envs
  <2> QED BY <2>1, <2>2, <2>3, <2>4
<1> QED BY <1>1, <1>2, <1>3, PTL DEF CalendarSpec

-----------------------------------------------------------------------------
(* Pre-market pipeline: what sizing computes *)

LEMMA QuotientIsNat ==
  ASSUME NEW n \in Nat, NEW d \in Nat \ {0}
  PROVE  n \div d \in Nat /\ (n \div d) * d <= n
OBVIOUS

LEMMA FewerFit ==
  ASSUME NEW n \in Nat, NEW d \in Nat \ {0}, NEW k \in Nat, k <= n \div d
  PROVE  k * d \in Nat /\ k * d <= n
<1>1. n \div d \in Nat /\ (n \div d) * d <= n
  BY QuotientIsNat
<1>2. k * d \in Nat /\ k * d <= (n \div d) * d
  BY <1>1
<1> QED BY <1>1, <1>2

LEMMA ProductIsPositive ==
  ASSUME NEW a \in Nat \ {0}, NEW b \in Nat \ {0}
  PROVE  a * b \in Nat \ {0}
OBVIOUS

\* The stop and the capital bound the shares, whatever the simulated loss says.
LEMMA SharesAreBounded ==
  ASSUME NEW c, c.price \in Nat \ {0}, c.stop \in Nat \ {0}, NEW v \in Nat \ {0},
         RiskPerTrade \in Nat \ {0}, Capital \in Nat \ {0}
  PROVE  /\ Shares(c, v) \in Nat
         /\ Shares(c, v) * c.stop <= RiskPerTrade /\ Shares(c, v) * c.price <= Capital
<1> DEFINE byStop == RiskPerTrade \div c.stop
           byLoss == (RiskPerTrade * 100) \div (c.price * v)
           byCash == Capital \div c.price
<1>1. byStop \in Nat /\ byCash \in Nat
  BY QuotientIsNat
<1>2. byLoss \in Nat
  <2>1. c.price * v \in Nat \ {0}
    BY ProductIsPositive
  <2>2. RiskPerTrade * 100 \in Nat
    OBVIOUS
  <2> DEFINE denominator == c.price * v
             numerator == RiskPerTrade * 100
  <2> HIDE DEF denominator, numerator
  <2>3. numerator \div denominator \in Nat
    BY <2>1, <2>2, QuotientIsNat DEF denominator, numerator
  <2> QED BY <2>3 DEF denominator, numerator
<1> HIDE DEF byLoss
<1>3. Shares(c, v) = Least(Least(byStop, byLoss), byCash)
  BY DEF Shares, byLoss
<1> HIDE DEF byStop, byCash
<1>4. Shares(c, v) \in Nat /\ Shares(c, v) <= byStop /\ Shares(c, v) <= byCash
  BY <1>1, <1>2, <1>3 DEF Least
<1> HIDE DEF Shares
<1> QED BY <1>4, FewerFit DEF byStop, byCash

-----------------------------------------------------------------------------
(* The candidate through the stages *)

\* A candidate's fields, and what each stage has made of them when the next begins.
Candidate(c) ==
  /\ {"price", "grade", "stop", "size", "risk", "checked", "approved"} \subseteq DOMAIN c
  /\ c.price \in QuotePrices
Unsized(c) == Candidate(c) /\ c.size = -1 /\ c.checked = "no"
Stopped(c) == Unsized(c) /\ c.stop \in Nat \ {0} /\ c.grade # "none"
Sized(c) ==
  /\ Candidate(c) /\ c.stop \in Nat \ {0} /\ c.size \in Nat /\ c.grade # "none"
  /\ c.risk = c.size * c.stop /\ c.risk <= RiskPerTrade /\ c.size * c.price <= Capital
RiskTaken(c) == Sized(c) /\ (c.size > 0 => c.checked = "passed")

\* What BundlesWithinBudget asks of one bundle.
Sound(b) ==
  LET c == cands[b.symbol]
  IN /\ c.approved /\ c.grade # "none" /\ c.checked = "passed" /\ b.symbol \notin heat
     /\ b.size = c.size /\ b.size >= 1 /\ b.size * c.stop <= RiskPerTrade /\ b.loss <= RiskPerTrade
     /\ b.size * c.price <= Capital /\ b.size * c.price * 100 <= MaxConcentration * Nav

Stages == {"scan", "score", "size", "risk", "heat", "merge", "publish", "over"}
Working == {"scan", "score", "size", "risk", "heat", "merge"}

StageInv ==
  /\ stage = "score" => \A s \in Live : Unsized(cands[s])
  /\ stage = "size" => \A s \in Live : Stopped(cands[s])
  /\ stage = "risk" => \A s \in Live : Sized(cands[s]) /\ cands[s].checked = "no"
  /\ stage \in {"heat", "merge"} => \A s \in Live : RiskTaken(cands[s])

PublishedInv ==
  /\ \E P : published \in Seq(P)
  /\ \A i \in DOMAIN published : published[i].pass \in Nat /\ published[i].pass <= passNo
  /\ stage \in Working => SentOfRun = {}
  /\ \A i \in SentOfRun : Sound(published[i])

QueueInv ==
  \E B : /\ toPublish \in Seq(B)
         /\ stage = "publish" => \A b \in B : b.pass = passNo /\ Sound(b)

PipelineInv ==
  /\ stage \in Stages /\ passNo \in Nat /\ cands = [s \in Symbols |-> cands[s]]
  /\ StageInv /\ PublishedInv /\ QueueInv

LEMMA PipelineConstants ==
  ASSUME PipelineAssumption
  PROVE  /\ QuotePrices \subseteq Nat \ {0} /\ \A p \in QuotePrices : p >= 50
         /\ Capital \in Nat \ {0} /\ RiskPerTrade \in Nat \ {0} /\ ValuesAtRisk \subseteq Nat \ {0}
         /\ IsFiniteSet(Symbols)
         /\ Nav \in Nat /\ MaxConcentration \in Nat /\ Capital * 100 <= MaxConcentration * Nav
BY DEF PipelineAssumption

\* Going through the candidates: what one has become is what the stage made of it.
LEMMA ThroughMakes ==
  ASSUME NEW processed, Through(processed), NEW s \in Symbols, cands'[s] # Gone
  PROVE  s \in Live /\ cands'[s] = processed[s]
BY DEF Through

LEMMA ThroughIsPerSymbol ==
  ASSUME NEW processed, Through(processed)
  PROVE  cands' = [s \in Symbols |-> cands'[s]]
BY DEF Through

\* Nothing is sent while a stage works.
LEMMA WorkingSendsNothing ==
  ASSUME PipelineInv, stage \in Working, stage' \in Working \cup {"over"},
         UNCHANGED <<passNo, published, toPublish>>
  PROVE  PublishedInv' /\ QueueInv'
<1>1. SentOfRun = {} /\ SentOfRun' = {}
  BY DEF PipelineInv, PublishedInv, SentOfRun
<1>2. PublishedInv'
  BY <1>1 DEF PipelineInv, PublishedInv
<1>3. QueueInv'
  BY DEF PipelineInv, QueueInv, Working
<1> QED BY <1>2, <1>3

LEMMA RunStartsKeeps ==
  ASSUME PipelineInv, RunStarts
  PROVE  PipelineInv'
<1>1. /\ passNo' = passNo + 1 /\ passNo \in Nat /\ cands' = [s \in Symbols |-> Gone]
      /\ stage' \in {"scan", "over"} /\ UNCHANGED <<published, toPublish>>
  BY DEF RunStarts, PipelineInv, outputs
<1>2. Live' = {}
  BY <1>1 DEF Live
<1>3. SentOfRun' = {}
  BY <1>1 DEF SentOfRun, PipelineInv, PublishedInv
<1>4. PublishedInv'
  BY <1>1, <1>3 DEF PipelineInv, PublishedInv
<1>5. QueueInv'
  BY <1>1 DEF PipelineInv, QueueInv
<1>6. StageInv'
  BY <1>1 DEF StageInv
<1> QED BY <1>1, <1>4, <1>5, <1>6 DEF PipelineInv, Stages

LEMMA ScanKeeps ==
  ASSUME PipelineInv, Scan \/ ScanFails
  PROVE  PipelineInv'
<1>1. CASE Scan
  <2>1. stage = "scan" /\ stage' = "score" /\ UNCHANGED <<passNo, published, toPublish>>
    BY <1>1 DEF Scan, outputs
  <2>2. PICK list \in Watchlist, quotes \in Collected, closes \in LoadedCloses :
          cands' = [s \in Symbols |->
            IF /\ s \in list /\ quotes[s] # Gone /\ closes[s] # Gone
               /\ PassesFilters(GapOf(quotes[s].price, closes[s]), quotes[s].price)
            THEN [gap |-> GapOf(quotes[s].price, closes[s]), price |-> quotes[s].price,
                  spread |-> quotes[s].spread, trend |-> Trend, grade |-> "none", stop |-> 0, size |-> -1,
                  risk |-> 0, checked |-> "no", approved |-> FALSE]
            ELSE Gone]
    BY <1>1 DEF Scan
  <2>3. ASSUME NEW s \in Symbols, cands'[s] # Gone PROVE Unsized(cands'[s])
    <3> DEFINE gap == GapOf(quotes[s].price, closes[s])
    <3>1. quotes[s] # Gone
          /\ cands'[s] = [gap |-> gap, price |-> quotes[s].price,
                          spread |-> quotes[s].spread, trend |-> Trend, grade |-> "none", stop |-> 0, size |-> -1,
                          risk |-> 0, checked |-> "no", approved |-> FALSE]
      BY <2>2, <2>3
    <3>2. quotes[s].price \in QuotePrices
      BY <3>1 DEF Collected
    <3> HIDE DEF gap
    <3> QED BY <3>1, <3>2 DEF Unsized, Candidate
  <2>4. cands' = [s \in Symbols |-> cands'[s]]
    BY <2>2
  <2>5. PublishedInv' /\ QueueInv'
    BY <2>1, WorkingSendsNothing DEF Working
  <2>6. StageInv'
    BY <2>1, <2>3 DEF StageInv, Live
  <2> QED BY <2>1, <2>4, <2>5, <2>6 DEF PipelineInv, Stages
<1>2. CASE ScanFails
  <2>1. stage = "scan" /\ stage' = "over" /\ UNCHANGED <<passNo, published, toPublish, cands>>
    BY <1>2 DEF ScanFails, outputs
  <2>2. PublishedInv' /\ QueueInv'
    BY <2>1, WorkingSendsNothing DEF Working
  <2> QED BY <2>1, <2>2 DEF PipelineInv, Stages, StageInv
<1> QED BY <1>1, <1>2

LEMMA StopIsPositive ==
  ASSUME NEW price \in Nat, price >= 50
  PROVE  StopDistance(price) \in Nat \ {0}
BY DEF StopDistance

GradedAs(c, g) == [c EXCEPT !.grade = g, !.stop = StopDistance(c.price)]

LEMMA StageScoreKeeps ==
  ASSUME PipelineInv, PipelineAssumption, StageScore
  PROVE  PipelineInv'
<1>1. stage = "score" /\ stage' = "size" /\ UNCHANGED <<passNo, published, toPublish>>
  BY DEF StageScore, outputs
<1>2. ASSUME NEW s \in Symbols, cands'[s] # Gone PROVE Stopped(cands'[s])
  <2>1. s \in Live /\ cands'[s] = Scored(cands[s])
    <3>1. Through([t \in Live |-> Scored(cands[t])])
      BY DEF StageScore
    <3>2. s \in Live /\ cands'[s] = [t \in Live |-> Scored(cands[t])][s]
      BY <3>1, <1>2, ThroughMakes
    <3> QED BY <3>2
  <2>2. Unsized(cands[s])
    BY <1>1, <2>1 DEF PipelineInv, StageInv
  <2>3. PICK g : g # "none" /\ cands'[s] = GradedAs(cands[s], g)
    <3> DEFINE grade == Grade(Score(cands[s]), Confidence)
    <3>1. grade # "none"
      BY DEF Grade
    <3>2. Scored(cands[s]) = IF grade = "SKIP" THEN Gone ELSE GradedAs(cands[s], grade)
      BY DEF Scored, GradedAs
    <3> HIDE DEF grade
    <3>3. cands'[s] = GradedAs(cands[s], grade)
      BY <1>2, <2>1, <3>2
    <3> QED BY <3>1, <3>3
  <2>4. StopDistance(cands[s].price) \in Nat \ {0}
    BY <2>2, PipelineConstants, StopIsPositive DEF Unsized, Candidate
  <2> QED BY <2>2, <2>3, <2>4 DEF Stopped, Unsized, Candidate, GradedAs
<1>3. cands' = [s \in Symbols |-> cands'[s]]
  BY ThroughIsPerSymbol DEF StageScore
<1>4. PublishedInv' /\ QueueInv'
  BY <1>1, WorkingSendsNothing DEF Working
<1>5. StageInv'
  BY <1>1, <1>2 DEF StageInv, Live
<1> QED BY <1>1, <1>3, <1>4, <1>5 DEF PipelineInv, Stages

LEMMA StageSizeKeeps ==
  ASSUME PipelineInv, PipelineAssumption, StageSize
  PROVE  PipelineInv'
<1>1. stage = "size" /\ stage' = "risk" /\ UNCHANGED <<passNo, published, toPublish>>
  BY DEF StageSize, outputs
<1>2. ASSUME NEW s \in Symbols, cands'[s] # Gone PROVE Sized(cands'[s]) /\ cands'[s].checked = "no"
  <2>0. PICK v \in ValuesAtRisk : Through([t \in Live |-> WithShares(cands[t], Shares(cands[t], v))])
    BY DEF StageSize
  <2>1. s \in Live /\ cands'[s] = WithShares(cands[s], Shares(cands[s], v))
    <3>1. s \in Live /\ cands'[s] = [t \in Live |-> WithShares(cands[t], Shares(cands[t], v))][s]
      BY <2>0, <1>2, ThroughMakes
    <3> QED BY <3>1
  <2> DEFINE c == cands[s]
             n == Shares(cands[s], v)
  <2>2. Stopped(c)
    BY <1>1, <2>1 DEF PipelineInv, StageInv
  <2>3. c.price \in Nat \ {0} /\ c.stop \in Nat \ {0}
    BY <2>2, PipelineConstants DEF Stopped, Unsized, Candidate
  <2>4. n \in Nat /\ n * c.stop <= RiskPerTrade /\ n * c.price <= Capital
    BY <2>3, PipelineConstants, SharesAreBounded
  <2>5. cands'[s] = [c EXCEPT !.size = n, !.risk = n * c.stop]
    BY <2>1 DEF WithShares
  <2> HIDE DEF c, n
  <2>6. /\ cands'[s].size = n /\ cands'[s].risk = n * c.stop /\ cands'[s].stop = c.stop
        /\ cands'[s].price = c.price /\ cands'[s].checked = c.checked /\ cands'[s].grade = c.grade
        /\ DOMAIN cands'[s] = DOMAIN c
    BY <2>2, <2>5 DEF Stopped, Unsized, Candidate
  <2> QED BY <2>2, <2>3, <2>4, <2>6 DEF Sized, Stopped, Unsized, Candidate
<1>3. cands' = [s \in Symbols |-> cands'[s]]
  BY ThroughIsPerSymbol DEF StageSize
<1>4. PublishedInv' /\ QueueInv'
  BY <1>1, WorkingSendsNothing DEF Working
<1>5. StageInv'
  BY <1>1, <1>2 DEF StageInv, Live
<1> QED BY <1>1, <1>3, <1>4, <1>5 DEF PipelineInv, Stages

LEMMA StageRiskKeeps ==
  ASSUME PipelineInv, StageRisk
  PROVE  PipelineInv'
<1>1. stage = "risk" /\ stage' = "heat" /\ UNCHANGED <<passNo, published, toPublish>>
  BY DEF StageRisk, outputs
<1>2. ASSUME NEW s \in Symbols, cands'[s] # Gone PROVE RiskTaken(cands'[s])
  <2>1. s \in Live /\ cands'[s] = RiskChecked(cands[s])
    <3>1. Through([t \in Live |-> RiskChecked(cands[t])])
      BY DEF StageRisk
    <3>2. s \in Live /\ cands'[s] = [t \in Live |-> RiskChecked(cands[t])][s]
      BY <3>1, <1>2, ThroughMakes
    <3> QED BY <3>2
  <2>2. Sized(cands[s])
    BY <1>1, <2>1 DEF PipelineInv, StageInv
  <2>3. CASE cands[s].size <= 0
    BY <2>1, <2>2, <2>3 DEF RiskChecked, RiskTaken, Sized
  <2>4. CASE cands[s].size > 0
    <3>1. cands'[s] = [cands[s] EXCEPT !.checked = "passed"]
      BY <2>1, <2>2, <2>4 DEF RiskChecked, Sized
    <3> QED BY <2>2, <3>1 DEF RiskTaken, Sized, Candidate
  <2> QED BY <2>2, <2>3, <2>4 DEF Sized
<1>3. cands' = [s \in Symbols |-> cands'[s]]
  BY ThroughIsPerSymbol DEF StageRisk
<1>4. PublishedInv' /\ QueueInv'
  BY <1>1, WorkingSendsNothing DEF Working
<1>5. StageInv'
  BY <1>1, <1>2 DEF StageInv, Live
<1> QED BY <1>1, <1>3, <1>4, <1>5 DEF PipelineInv, Stages

LEMMA StageHeatKeeps ==
  ASSUME PipelineInv, StageHeat
  PROVE  PipelineInv'
<1>1. stage = "heat" /\ stage' = "merge" /\ UNCHANGED <<passNo, published, toPublish, cands>>
  BY DEF StageHeat, outputs
<1>2. PublishedInv' /\ QueueInv'
  BY <1>1, WorkingSendsNothing DEF Working
<1>3. StageInv'
  BY <1>1 DEF PipelineInv, StageInv, Live
<1> QED BY <1>1, <1>2, <1>3 DEF PipelineInv, Stages

\* What is taken has shares, passed its checks and fits the budget.
LEMMA TakenIsSound ==
  ASSUME PipelineInv, PipelineAssumption, StageMerge, NEW s \in Live, ~Rejected(s)
  PROVE  \E b : b = Bundle(s, Approved(cands[s])) /\ Sound(b)' /\ b.pass = passNo
<1>1. /\ stage = "merge" /\ UNCHANGED <<passNo, heat>>
      /\ cands' = [t \in Symbols |-> IF t \in {u \in Live : ~Rejected(u)} THEN Approved(cands[t]) ELSE cands[t]]
  BY DEF StageMerge
<1>2. PICK c : c = cands[s]
  OBVIOUS
<1>3. RiskTaken(c) /\ c.size # 0 /\ s \notin heat
  BY <1>1, <1>2 DEF PipelineInv, StageInv, Rejected
<1>4. /\ c.size \in Nat /\ c.size >= 1 /\ c.stop \in Nat \ {0} /\ c.risk = c.size * c.stop
      /\ c.risk <= RiskPerTrade /\ c.size * c.price <= Capital /\ c.checked = "passed" /\ c.grade # "none"
      /\ c.price \in QuotePrices
      /\ {"approved", "size", "risk", "price", "stop", "grade", "checked"} \subseteq DOMAIN c
  BY <1>3 DEF RiskTaken, Sized, Candidate
<1>5. PICK a : a = Approved(c)
  OBVIOUS
<1>6. /\ a.size = c.size /\ a.risk = c.risk /\ a.price = c.price /\ a.stop = c.stop
      /\ a.grade = c.grade /\ a.checked = c.checked /\ a.approved
  BY <1>4, <1>5 DEF Approved
<1>7. c.risk \in Nat \ {0}
  BY <1>4, ProductIsPositive
<1>8. PICK b : b = Bundle(s, a)
  OBVIOUS
<1>9. b.symbol = s /\ b.size = c.size /\ b.loss = c.risk
  BY <1>4, <1>6, <1>7, <1>8 DEF Bundle
<1>10. cands'[s] = a
  BY <1>1, <1>2, <1>5 DEF Live
<1>11. c.size * c.price * 100 <= MaxConcentration * Nav
  <2>1. c.price \in Nat /\ c.size * c.price \in Nat
    BY <1>4, PipelineConstants
  <2> DEFINE value == c.size * c.price
             limit == MaxConcentration * Nav
  <2>2. value \in Nat /\ value <= Capital /\ limit \in Int /\ Capital * 100 <= limit
    BY <1>4, <2>1, PipelineConstants
  <2> HIDE DEF value, limit
  <2>3. value * 100 <= limit
    BY <2>2, PipelineConstants
  <2> QED BY <2>3 DEF value, limit
<1>12. /\ a.approved /\ a.grade # "none" /\ a.checked = "passed" /\ s \notin heat
       /\ b.size = a.size /\ b.size >= 1 /\ b.size * a.stop <= RiskPerTrade /\ b.loss <= RiskPerTrade
       /\ b.size * a.price <= Capital /\ b.size * a.price * 100 <= MaxConcentration * Nav
  BY <1>3, <1>4, <1>6, <1>9, <1>11
<1>13. b = Bundle(s, Approved(cands[s]))
  BY <1>2, <1>5, <1>8
<1>14. Sound(b)'
  BY <1>1, <1>9, <1>10, <1>12 DEF Sound
<1>15. b.pass = passNo
  BY <1>8 DEF Bundle
<1> QED BY <1>13, <1>14, <1>15

\* What is known of one queued bundle.
Queued(b) == b.pass = passNo /\ Sound(b)

LEMMA StageMergeKeeps ==
  ASSUME PipelineInv, PipelineAssumption, StageMerge
  PROVE  PipelineInv'
<1> DEFINE taken == {s \in Live : ~Rejected(s)}
           n == Cardinality(taken)
<1>1. /\ stage = "merge" /\ stage' \in {"publish", "over"}
      /\ cands' = [s \in Symbols |-> IF s \in taken THEN Approved(cands[s]) ELSE cands[s]]
      /\ UNCHANGED <<passNo, heat, published>>
  BY DEF StageMerge
<1>2. PICK order \in Orderings(taken) :
        toPublish' = [i \in 1..n |-> Bundle(order[i], Approved(cands[order[i]]))]
  BY DEF StageMerge
<1>3. n \in Nat
  <2>1. IsFiniteSet(taken)
    BY PipelineConstants, FS_Subset DEF Live
  <2> QED BY <2>1, FS_CardinalityType
<1>4. order \in [1..n -> taken]
  BY <1>2 DEF Orderings
<1> DEFINE bundle(s) == Bundle(s, Approved(cands[s]))
           B == {bundle(s) : s \in taken}
<1>5. toPublish' \in Seq(B)
  <2>1. \A i \in 1..n : bundle(order[i]) \in B
    BY <1>4
  <2>2. toPublish' = [i \in 1..n |-> bundle(order[i])]
    BY <1>2
  <2> HIDE DEF n, B, bundle
  <2>3. toPublish' \in [1..n -> B]
    BY <2>1, <2>2
  <2> QED BY <1>3, <2>3
<1>6. ASSUME NEW b \in B PROVE Queued(b)'
  <2>1. PICK s \in taken : b = bundle(s)
    OBVIOUS
  <2>2. b.pass = passNo
    BY <2>1 DEF Bundle
  <2>3. Sound(b)'
    <3>1. s \in Live /\ ~Rejected(s)
      BY <2>1
    <3>2. PICK d : d = Bundle(s, Approved(cands[s])) /\ Sound(d)'
      BY <3>1, TakenIsSound
    <3>3. b = d
      BY <2>1, <3>2
    <3> HIDE DEF taken, B, bundle
    <3> QED BY <3>2, <3>3 DEF Sound
  <2> HIDE DEF taken, B, bundle
  <2> QED BY <1>1, <2>2, <2>3 DEF Queued
<1> HIDE DEF taken, n, B, bundle
<1>7. QueueInv'
  BY <1>5, <1>6 DEF QueueInv, Queued
<1>8. PublishedInv'
  <2>1. SentOfRun = {} /\ SentOfRun' = {}
    BY <1>1 DEF PipelineInv, PublishedInv, Working, SentOfRun
  <2>2. stage' \notin Working
    BY <1>1 DEF Working
  <2> QED BY <1>1, <2>1, <2>2 DEF PipelineInv, PublishedInv
<1>9. StageInv' /\ stage' \in Stages
  BY <1>1 DEF StageInv, Stages
<1>10. cands' = [s \in Symbols |-> cands'[s]]
  BY <1>1
<1> QED BY <1>1, <1>7, <1>8, <1>9, <1>10 DEF PipelineInv

LEMMA PublishBundleKeeps ==
  ASSUME PipelineInv, PublishBundle
  PROVE  PipelineInv'
<1>1. /\ stage = "publish" /\ toPublish # <<>> /\ toPublish' = Tail(toPublish)
      /\ UNCHANGED <<stage, passNo, cands, heat>>
  BY DEF PublishBundle
<1>2. PICK B : toPublish \in Seq(B) /\ \A b \in B : Queued(b)
  BY <1>1 DEF PipelineInv, QueueInv, Queued
<1>3. \A b : Sound(b) => Sound(b)'
  BY <1>1 DEF Sound
<1>4. \A b : Queued(b) => Queued(b)'
  BY <1>1, <1>3 DEF Queued
<1>5. toPublish' \in Seq(B) /\ Head(toPublish) \in B
  BY <1>1, <1>2, HeadTailProperties
<1>6. QueueInv'
  <2>1. \A b \in B : Queued(b)'
    BY <1>2, <1>4
  <2> QED BY <1>5, <2>1 DEF QueueInv, Queued
<1>7. PublishedInv'
  <2>1. CASE UNCHANGED published
    <3>1. SentOfRun' = SentOfRun
      BY <1>1, <2>1 DEF SentOfRun
    <3>2. \A i \in SentOfRun : Sound(published[i]) => Sound(published[i])'
      BY <1>3, <2>1, <1>1 DEF Sound
    <3> QED BY <1>1, <2>1, <3>1, <3>2 DEF PipelineInv, PublishedInv
  <2>2. CASE published' = Append(published, Head(toPublish))
    <3>1. PICK P : published \in Seq(P)
      BY DEF PipelineInv, PublishedInv
    <3>2. PICK h : h = Head(toPublish) /\ Queued(h) /\ Queued(h)'
      BY <1>2, <1>4, <1>5
    <3> DEFINE Q == P \cup {h}
               m == Len(published)
    <3>3. published \in Seq(Q) /\ h \in Q
      BY <3>1
    <3> HIDE DEF Q
    <3>4. /\ published' \in Seq(Q) /\ Len(published') = m + 1 /\ m \in Nat
          /\ \A i \in 1..m : published'[i] = published[i]
          /\ published'[m + 1] = h
      BY <2>2, <3>2, <3>3, AppendProperties, LenProperties
    <3>5. DOMAIN published = 1..m /\ DOMAIN published' = 1..(m + 1)
      BY <3>3, <3>4, LenProperties
    <3> HIDE DEF m
    <3>6. ASSUME NEW i \in DOMAIN published', i \notin DOMAIN published PROVE published'[i] = h
      <4>1. \A k \in Nat : \A j \in 1..(k + 1) : j \notin 1..k => j = k + 1
        OBVIOUS
      <4>2. i = m + 1
        BY <3>4, <3>5, <3>6, <4>1
      <4> QED BY <3>4, <4>2
    <3>7. ASSUME NEW i \in DOMAIN published PROVE published'[i] = published[i]
      BY <3>4, <3>5
    <3>8. h.pass = passNo /\ Sound(h)'
      BY <1>1, <3>2 DEF Queued
    <3>9. passNo \in Nat /\ passNo' = passNo
      BY <1>1 DEF PipelineInv
    <3>10. \A i \in DOMAIN published' : published'[i].pass \in Nat /\ published'[i].pass <= passNo'
      BY <3>6, <3>7, <3>8, <3>9 DEF PipelineInv, PublishedInv
    <3>11. ASSUME NEW i \in SentOfRun' PROVE Sound(published[i])'
      <4>1. i \in DOMAIN published' /\ published'[i].pass = passNo
        BY <3>9 DEF SentOfRun
      <4>2. PICK c : c = published'[i]
        OBVIOUS
      <4>3. Sound(c)'
        <5>1. CASE i \in DOMAIN published
          <6>1. i \in SentOfRun /\ c = published[i]
            BY <3>7, <4>1, <4>2, <5>1 DEF SentOfRun
          <6>2. Sound(published[i])
            BY <6>1 DEF PipelineInv, PublishedInv
          <6>3. Sound(c)
            BY <6>1, <6>2 DEF Sound
          <6> QED BY <1>3, <6>3
        <5>2. CASE i \notin DOMAIN published
          <6>1. c = h
            BY <3>6, <4>1, <4>2, <5>2
          <6>2. Sound(h)'
            BY <3>8
          <6> QED BY <6>1, <6>2 DEF Sound
        <5> QED BY <5>1, <5>2
      <4> QED BY <4>2, <4>3 DEF Sound
    <3>12. stage' \notin Working
      BY <1>1 DEF Working
    <3> QED BY <1>1, <3>4, <3>10, <3>11, <3>12 DEF PublishedInv
  <2> QED BY <2>1, <2>2 DEF PublishBundle
<1>8. StageInv'
  BY <1>1 DEF StageInv
<1> QED BY <1>1, <1>6, <1>7, <1>8 DEF PipelineInv

LEMMA PublishCompleteKeeps ==
  ASSUME PipelineInv, PublishComplete
  PROVE  PipelineInv'
<1>1. /\ stage = "publish" /\ stage' = "over"
      /\ UNCHANGED <<passNo, cands, heat, toPublish, published>>
  BY DEF PublishComplete
<1>2. \A b : Sound(b) => Sound(b)'
  BY <1>1 DEF Sound
<1>3. SentOfRun' = SentOfRun /\ stage' \notin Working
  BY <1>1 DEF SentOfRun, Working
<1>4. \A i \in SentOfRun : Sound(published[i]) => Sound(published[i])'
  BY <1>1 DEF Sound
<1>5. PublishedInv'
  BY <1>1, <1>3, <1>4 DEF PipelineInv, PublishedInv
<1>6. QueueInv' /\ StageInv'
  BY <1>1 DEF PipelineInv, QueueInv, StageInv
<1> QED BY <1>1, <1>5, <1>6 DEF PipelineInv, Stages

-----------------------------------------------------------------------------
(* Pre-market pipeline: the theorem *)

\* Whichever candidates the stages fail on and whichever messages are lost, for any
\* quotes, closes and estimates: a bundle of this run goes out only for a candidate
\* every stage has dealt with, has shares, and stays inside the risk per trade, the
\* capital and the concentration limit (services/pipeline_executor.py run,
\* bundle_generator.py publish_bundles_to_redis).
THEOREM BundlesHold == PipelineSpec => []BundlesWithinBudget
<1> USE PipelineAssumption
<1>1. PipelineInit => PipelineInv
  <2> SUFFICES ASSUME PipelineInit PROVE PipelineInv
    OBVIOUS
  <2>1. stage = "over" /\ passNo = 0 /\ toPublish = <<>> /\ published = <<>>
        /\ cands = [s \in Symbols |-> Gone]
    BY DEF PipelineInit
  <2>2. <<>> \in Seq({}) /\ DOMAIN <<>> = {}
    BY EmptySeq
  <2>3. SentOfRun = {}
    BY <2>1, <2>2 DEF SentOfRun
  <2>4. PublishedInv
    BY <2>1, <2>2, <2>3 DEF PublishedInv, Working
  <2>5. QueueInv /\ StageInv
    BY <2>1, <2>2 DEF QueueInv, StageInv
  <2> QED BY <2>1, <2>4, <2>5 DEF PipelineInv, Stages
<1>2. PipelineInv /\ [PipelineNext]_pipelineVars => PipelineInv'
  <2> SUFFICES ASSUME PipelineInv, [PipelineNext]_pipelineVars PROVE PipelineInv'
    OBVIOUS
  <2>1. CASE RunStarts
    BY <2>1, RunStartsKeeps
  <2>2. CASE Scan \/ ScanFails
    BY <2>2, ScanKeeps
  <2>3. CASE StageScore
    BY <2>3, StageScoreKeeps
  <2>4. CASE StageSize
    BY <2>4, StageSizeKeeps
  <2>5. CASE StageRisk
    BY <2>5, StageRiskKeeps
  <2>6. CASE StageHeat
    BY <2>6, StageHeatKeeps
  <2>7. CASE StageMerge
    BY <2>7, StageMergeKeeps
  <2>8. CASE PublishBundle
    BY <2>8, PublishBundleKeeps
  <2>9. CASE PublishComplete
    BY <2>9, PublishCompleteKeeps
  <2>10. CASE UNCHANGED pipelineVars
    BY <2>10 DEF pipelineVars, PipelineInv, StageInv, PublishedInv, QueueInv, SentOfRun, Sound, Live
  <2> QED BY <2>1, <2>2, <2>3, <2>4, <2>5, <2>6, <2>7, <2>8, <2>9, <2>10 DEF PipelineNext
<1>3. PipelineInv => BundlesWithinBudget
  BY DEF PipelineInv, PublishedInv, BundlesWithinBudget, Sound
<1> QED BY <1>1, <1>2, <1>3, PTL DEF PipelineSpec
=============================================================================
