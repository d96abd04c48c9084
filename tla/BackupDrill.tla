---------------------------- MODULE BackupDrill -----------------------------
(***************************************************************************)
(* scripts/backup.sh and scripts/restore-drill.sh on one directory of      *)
(* dumps and one live database. Both run under set -e and may be killed at *)
(* any line. The database is a version number: two versions differ in what *)
(* control() sees (row counts, sum of the totals).                         *)
(***************************************************************************)
EXTENDS Naturals, FiniteSets

CONSTANTS
  MaxDb,            \* bound: versions of the database
  MaxRuns,          \* bound: runs of backup.sh
  MaxDay,           \* bound: days
  KEEP_DAYS

ASSUME BackupAssumption ==
  MaxDb \in Nat /\ MaxRuns \in Nat /\ MaxDay \in Nat /\ KEEP_DAYS \in Nat

VARIABLES
  day, db,          \* today, and the live database
  runs,             \* runs of backup.sh so far: the stamp of the last one
  bpc,              \* what backup.sh does
  partial,          \* the .partial of the current run, and whether it is whole
  dumps,            \* the *.dump files
  dpc, DUMP, BEFORE,\* what the drill does, and its variables
  verdict,
  staleRuns,        \* history: dumps up to this stamp miss the last change
  newestThen        \* history: the newest stamp when the drill picked its dump

backupState == <<runs, bpc, partial, dumps>>
drillState == <<dpc, DUMP, BEFORE, verdict, newestThen>>
backupVars == <<day, db, staleRuns, backupState, drillState>>

File == [stamp : 1..MaxRuns, day : 0..MaxDay, of : 0..MaxDb, whole : BOOLEAN]
NoFile == [stamp |-> 0]

BackupTypeOK ==
  /\ day \in 0..MaxDay /\ db \in 0..MaxDb /\ runs \in 0..MaxRuns
  /\ bpc \in {"off", "dump", "check", "rotate"}
  /\ partial \in File \cup {NoFile} /\ dumps \subseteq File
  /\ dpc \in {"off", "control", "container", "restore"}
  /\ DUMP \in File \cup {NoFile} /\ BEFORE \in 0..MaxDb
  /\ verdict \in {"none", "MATCH", "MISMATCH"}
  /\ staleRuns \in 0..MaxRuns /\ newestThen \in 0..MaxRuns

BackupInit ==
  /\ day = 0 /\ db = 0 /\ staleRuns = 0
  /\ runs = 0 /\ bpc = "off" /\ partial = NoFile /\ dumps = {}
  /\ dpc = "off" /\ DUMP = NoFile /\ BEFORE = 0 /\ verdict = "none" /\ newestThen = 0

-----------------------------------------------------------------------------
writeDb ==
  /\ db < MaxDb /\ db' = db + 1 /\ staleRuns' = runs
  /\ UNCHANGED <<day, backupState, drillState>>

\* A new day. pg_dump may take one, the lines after it do not.
nextDay ==
  /\ day < MaxDay /\ bpc \in {"off", "dump"} /\ day' = day + 1
  /\ UNCHANGED <<db, staleRuns, backupState, drillState>>

\* pg_dump begins: its snapshot is taken, the .partial is there.
startDump ==
  /\ bpc = "off" /\ runs < MaxRuns /\ runs' = runs + 1 /\ bpc' = "dump"
  /\ partial' = [stamp |-> runs', day |-> day, of |-> db, whole |-> FALSE]
  /\ UNCHANGED <<day, db, staleRuns, dumps, drillState>>

\* pg_dump ends, and the file is as old as its last byte.
dumpWritten ==
  /\ bpc = "dump" /\ bpc' = "check"
  /\ partial' = [partial EXCEPT !.whole = TRUE, !.day = day]
  /\ UNCHANGED <<day, db, staleRuns, runs, dumps, drillState>>

\* pg_dump or a check fails: set -e ends the script, the trap removes the
\* .partial. After a kill -9 it stays, under a name that nobody looks for.
dumpFails ==
  /\ bpc # "off" /\ bpc' = "off" /\ partial' = NoFile
  /\ UNCHANGED <<day, db, staleRuns, runs, dumps, drillState>>

\* The checks pass; mv "$PARTIAL" "$FILE".
moveDump ==
  /\ bpc = "check" /\ bpc' = "rotate"
  /\ dumps' = dumps \cup {partial} /\ partial' = NoFile
  /\ UNCHANGED <<day, db, staleRuns, runs, drillState>>

Old == {d \in dumps : day - d.day > KEEP_DAYS}

\* Mutant: rotation is a job of its own.
rotateAlways ==
  /\ Old # {} /\ dumps' = dumps \ Old
  /\ UNCHANGED <<day, db, staleRuns, runs, bpc, partial, drillState>>
\* find -mtime +KEEP_DAYS -delete.
rotate ==
  /\ bpc = "rotate" /\ bpc' = "off" /\ dumps' = dumps \ Old
  /\ UNCHANGED <<day, db, staleRuns, runs, partial, drillState>>

-----------------------------------------------------------------------------
Newest == CHOOSE d \in dumps : \A e \in dumps : e.stamp <= d.stamp

\* 1. ls -1t *.dump | head -1.
pickDump ==
  /\ dpc = "off" /\ dumps # {} /\ dpc' = "control"
  /\ DUMP' = Newest /\ newestThen' = Newest.stamp /\ verdict' = "none"
  /\ UNCHANGED <<day, db, staleRuns, backupState, BEFORE>>

\* 2. control compose.
controlLive ==
  /\ dpc = "control" /\ dpc' = "container" /\ BEFORE' = db
  /\ UNCHANGED <<day, db, staleRuns, backupState, DUMP, verdict, newestThen>>

\* 3. A leftover container is removed, a new one runs, and it is empty.
cleanContainer ==
  /\ dpc = "container" /\ dpc' = "restore"
  /\ UNCHANGED <<day, db, staleRuns, backupState, DUMP, BEFORE, verdict, newestThen>>

\* 4. and 5. pg_restore of a file that is still there, control drill, verdict.
restoreAndCompare ==
  /\ dpc = "restore" /\ DUMP \in dumps /\ DUMP.whole
  /\ verdict' = IF DUMP.of = BEFORE THEN "MATCH" ELSE "MISMATCH"
  /\ dpc' = "off"
  /\ UNCHANGED <<day, db, staleRuns, backupState, DUMP, BEFORE, newestThen>>

\* No Docker, a container that does not come up, a dump that rotation has
\* deleted meanwhile, a kill: no verdict.
drillFails ==
  /\ dpc # "off" /\ dpc' = "off"
  /\ UNCHANGED <<day, db, staleRuns, backupState, DUMP, BEFORE, verdict, newestThen>>

BackupNext ==
  \/ writeDb \/ nextDay
  \/ startDump \/ dumpWritten \/ dumpFails \/ moveDump \/ rotate
  \/ pickDump \/ controlLive \/ cleanContainer \/ restoreAndCompare \/ drillFails

BackupSpec == BackupInit /\ [][BackupNext]_backupVars

-----------------------------------------------------------------------------
\* "обірваний pg_dump не залишає файл, схожий на справжній бекап".
DumpsAreWhole == \A d \in dumps : d.whole

\* Once a drill has found a backup there always is one: rotation never deletes
\* the last, however long backups have failed.
AlwaysABackup == newestThen # 0 => dumps # {}

\* MISMATCH accuses the backup only when there is something to explain it: the
\* database has changed after the newest dump that the drill could have taken.
MismatchExplained == verdict = "MISMATCH" => newestThen <= staleRuns

\* backup.sh and restore-drill.sh: what lies in the directory can be relied on,
\* and so can what the drill says of it.
BackupsStand == DumpsAreWhole /\ AlwaysABackup /\ MismatchExplained

\* A dump shows the database as it is, unless that has changed since.
Current(d) == d.stamp <= runs /\ (d.of = db \/ d.stamp <= staleRuns)

\* The inductive invariant: the file that is being written and the one the drill
\* works on are known too, and a rotation finds the dump that was moved just before.
BackupInv ==
  /\ BackupTypeOK /\ staleRuns <= runs
  /\ \A d \in dumps : d.whole /\ Current(d)
  /\ bpc \in {"dump", "check"} => partial \in File /\ Current(partial)
  /\ bpc = "check" => partial.whole /\ partial.day = day
  /\ bpc = "rotate" => \E d \in dumps : d.day = day
  /\ AlwaysABackup
  /\ dpc # "off" => /\ DUMP \in File /\ Current(DUMP)
                    /\ newestThen = DUMP.stamp /\ verdict = "none"
  /\ dpc \in {"container", "restore"} => DUMP.of = BEFORE \/ DUMP.stamp <= staleRuns
  /\ MismatchExplained
=============================================================================
