--------------------------------- MODULE Backups ---------------------------------
(* The nightly backup and the restore (services/backup.py).  A backup dumps one  *)
(* component after the other into a temporary directory and packs them; any step *)
(* may fail, or the process die, in the packing too.  State is a version number  *)
(* per component, and Redis has a dump on disk of its own.                       *)
EXTENDS Naturals, Sequences

CONSTANTS
  Retention,                     \* BACKUP_RETENTION_DAYS
  ClosedDays,                    \* weekends and holidays
  LastNight, MaxChanges, MaxBackups, MaxRestores       \* bounds

ASSUME BackupAssumption ==
  /\ Retention \in Nat \ {0} /\ ClosedDays \subseteq Nat
  /\ {LastNight, MaxChanges, MaxBackups, MaxRestores} \subseteq Nat

Components == {"postgres", "redis", "futu_volume", "config"}
NoVersion == MaxChanges + 1

VARIABLES
  night,
  live,                          \* per component: its version
  rdbOnDisk,                     \* the version in Redis's dump.rdb
  step,                          \* where backup() is
  dumped,                        \* per component: the version in the temporary directory
  archives,                      \* [night, holds, whole] of every file
  succeeded,                     \* nights whose backup was reported complete (history)
  restoring,                     \* the archive whose components are being put back, and which are
  backups, restores

backupVars == <<night, live, rdbOnDisk, step, dumped, archives, succeeded, restoring, backups, restores>>

NoDump == [c \in Components |-> NoVersion]
NotRestoring == [holds |-> NoDump, left |-> <<>>]

BackupInit ==
  /\ night = 0 /\ live = [c \in Components |-> 0] /\ rdbOnDisk = 0
  /\ step = "idle" /\ dumped = NoDump /\ archives = {} /\ succeeded = {}
  /\ restoring = NotRestoring /\ backups = 0 /\ restores = 0

\* The order of the dumps, and of putting them back.
RestoreOrder == <<"postgres", "redis", "futu_volume", "config">>
NextStep == [postgres |-> "bgsave", bgsave |-> "redis", redis |-> "futu_volume",
             futu_volume |-> "config", config |-> "pack", pack |-> "cleanup", cleanup |-> "idle"]

BackupBegins ==
  /\ step = "idle" /\ night \notin ClosedDays
  /\ backups < MaxBackups /\ backups' = backups + 1
  /\ step' = "postgres"
  /\ UNCHANGED <<night, live, rdbOnDisk, dumped, archives, succeeded, restoring, restores>>

\* BGSAVE is not waited for: the dump on disk may be the one before.
BgSave ==
  /\ step = "bgsave" /\ step' = NextStep[step]
  /\ UNCHANGED <<night, live, rdbOnDisk, dumped, archives, succeeded, restoring, backups, restores>>
SaveFinishes ==
  /\ rdbOnDisk # live["redis"] /\ rdbOnDisk' = live["redis"]
  /\ UNCHANGED <<night, live, step, dumped, archives, succeeded, restoring, backups, restores>>

\* Of Redis the file is copied or, where that fails, dumped anew.
Dump(c) ==
  /\ step = c /\ step' = NextStep[c]
  /\ \E v \in IF c = "redis" THEN {rdbOnDisk, live["redis"]} ELSE {live[c]} :
       dumped' = [dumped EXCEPT ![c] = v]
  /\ UNCHANGED <<night, live, rdbOnDisk, archives, succeeded, restoring, backups, restores>>

Pack ==
  /\ step = "pack" /\ step' = NextStep[step]
  /\ archives' = archives \cup {[night |-> night, holds |-> dumped, whole |-> TRUE]}
  /\ succeeded' = succeeded \cup {night} /\ dumped' = NoDump
  /\ UNCHANGED <<night, live, rdbOnDisk, restoring, backups, restores>>

\* By the time of day an archive of exactly Retention days ago is old or not yet.
Old(a, today) == a.night + Retention < today
CleanupOldBackups ==
  /\ step = "cleanup" /\ step' = "idle"
  /\ \E today \in {night, night + 1} : archives' = {a \in archives : ~Old(a, today)}
  /\ UNCHANGED <<night, live, rdbOnDisk, dumped, succeeded, restoring, backups, restores>>

\* A command fails or the process dies: the temporary directory goes, what is packed
\* of the archive stays, and nothing is cleaned up.
Torn == [night |-> night, holds |-> NoDump, whole |-> FALSE]
BackupFailsCleaning ==                               \* mutant: the cleanup runs all the same
  /\ step # "idle" /\ step' = "idle" /\ dumped' = NoDump
  /\ archives' = {a \in archives \cup (IF step = "pack" THEN {Torn} ELSE {}) : ~Old(a, night)}
  /\ UNCHANGED <<night, live, rdbOnDisk, succeeded, restoring, backups, restores>>
BackupFails ==
  /\ step # "idle" /\ step' = "idle" /\ dumped' = NoDump
  /\ \/ UNCHANGED archives
     \/ step = "pack" /\ archives' = archives \cup {Torn}
  /\ UNCHANGED <<night, live, rdbOnDisk, succeeded, restoring, backups, restores>>

\* restore: an archive of that night, which must be whole; then one component after
\* the other, until all are back or a command fails.
RestoreBegins ==
  /\ step = "idle" /\ restoring = NotRestoring /\ restores < MaxRestores /\ restores' = restores + 1
  /\ \E a \in archives : a.whole /\ restoring' = [holds |-> a.holds, left |-> RestoreOrder]
  /\ UNCHANGED <<night, live, rdbOnDisk, step, dumped, archives, succeeded, backups>>

\* Redis is given the file, under its feet.
RestoreNext ==
  /\ restoring.left # <<>>
  /\ LET c == Head(restoring.left)
         back == Tail(restoring.left)
     IN /\ restoring' = IF back = <<>> THEN NotRestoring ELSE [restoring EXCEPT !.left = back]
        /\ live' = IF c = "redis" THEN live ELSE [live EXCEPT ![c] = restoring.holds[c]]
        /\ rdbOnDisk' = IF c = "redis" THEN restoring.holds[c] ELSE rdbOnDisk
  /\ UNCHANGED <<night, step, dumped, archives, succeeded, backups, restores>>
RestoreFails ==
  /\ restoring # NotRestoring /\ restoring' = NotRestoring
  /\ UNCHANGED <<night, live, rdbOnDisk, step, dumped, archives, succeeded, backups, restores>>

\* Redis reads its file when it starts, and writes it when it stops in order.
RedisRestarts ==
  /\ \/ live' = [live EXCEPT !["redis"] = rdbOnDisk] /\ UNCHANGED rdbOnDisk
     \/ rdbOnDisk' = live["redis"] /\ UNCHANGED live
  /\ UNCHANGED <<night, step, dumped, archives, succeeded, restoring, backups, restores>>
SystemChanges ==
  /\ restores = 0
  /\ \E c \in Components : live[c] < MaxChanges /\ live' = [live EXCEPT ![c] = @ + 1]
  /\ UNCHANGED <<night, rdbOnDisk, step, dumped, archives, succeeded, restoring, backups, restores>>
\* A backup ends the night it began.
NightPasses ==
  /\ step = "idle" /\ night < LastNight /\ night' = night + 1
  /\ UNCHANGED <<live, rdbOnDisk, step, dumped, archives, succeeded, restoring, backups, restores>>

BackupNext ==
  \/ BackupBegins \/ BgSave \/ SaveFinishes \/ Pack \/ CleanupOldBackups \/ BackupFails
  \/ RestoreBegins \/ RestoreNext \/ RestoreFails \/ RedisRestarts \/ SystemChanges \/ NightPasses
  \/ \E c \in Components : Dump(c)

BackupSpec == BackupInit /\ [][BackupNext]_backupVars

\* The archive of the last backup that was complete is still there, through any
\* number of nights whose backup failed, and it has every component.
LastBackupKept ==
  \A n \in succeeded : (\A m \in succeeded : m <= n) =>
    \E a \in archives : /\ a.whole /\ a.night = n
                        /\ NoVersion \notin {a.holds[c] : c \in Components}
=============================================================================
