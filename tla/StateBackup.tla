----------------------------- MODULE StateBackup -----------------------------
(***************************************************************************)
(* The nightly backup of the state databases (scripts/backup_state.ts)     *)
(* through the storage client's upload (src/storage/s3.ts): for each       *)
(* database a snapshot, an upload in one request or in parts, a pruning of  *)
(* old copies; a stamp at the end tells the monitor that it worked. Any    *)
(* request may fail, or be carried out without an answer, and the script   *)
(* may be killed.                                                          *)
(*                                                                         *)
(* Time is in days. A copy is the day of its key; a copy is whole because  *)
(* the store shows an object only when all its parts are in.               *)
(***************************************************************************)
EXTENDS Integers, Sequences, FiniteSets

CONSTANTS Databases,      (* in the order they are backed up: a sequence    *)
          InParts,        (* databases larger than a part                   *)
          Parts,          (* parts of such a database                       *)
          RetentionDays,  (* RETENTION_DAYS                                 *)
          LastBackupDay   (* bound                                          *)

ASSUME StateBackupAssumption ==
    /\ Databases \in Seq({ Databases[i] : i \in DOMAIN Databases })
    /\ InParts \subseteq { Databases[i] : i \in DOMAIN Databases }
    /\ Parts \in Nat \ {0} /\ RetentionDays \in Nat \ {0} /\ LastBackupDay \in Nat

VARIABLES
    today,     (* the day                                                  *)
    missing,   (* databases that are not where they should be              *)
    copies,    (* copies in storage, by database: days                     *)
    parts,     (* uploads in parts that were begun and not ended           *)
    backup,    (* the script: the day it began, the database it is at, the *)
               (* step there, the parts sent, what it found, the failures  *)
    stamp,     (* when it was written, and of the run that did: its day    *)
               (* and what it found; -1 while there is none                *)
    kept       (* history: the copies the latest run found when it began   *)

backupVars == <<today, missing, copies, parts, backup, stamp, kept>>

DatabaseSet == { Databases[i] : i \in DOMAIN Databases }
NoBackup == [day |-> -1, at |-> 0, step |-> "none", sent |-> 0, found |-> {}, failures |-> 0]
NoStamp == [written |-> -1, of |-> -1, found |-> {}]
Steps == {"none", "look", "snapshot", "upload", "parts", "prune"}

BackupTypeOK ==
    /\ today \in 0 .. LastBackupDay /\ missing \subseteq DatabaseSet
    /\ copies \in [DatabaseSet -> SUBSET (0 .. LastBackupDay)]
    /\ parts \subseteq InParts
    /\ backup \in [day: -1 .. LastBackupDay, at: 0 .. Len(Databases) + 1, step: Steps,
                   sent: 0 .. Parts, found: SUBSET DatabaseSet, failures: 0 .. Len(Databases)]
    /\ stamp \in [written: -1 .. LastBackupDay, of: -1 .. LastBackupDay,
                  found: SUBSET DatabaseSet]
    /\ kept \in [DatabaseSet -> SUBSET (0 .. LastBackupDay)]

BackupInit ==
    /\ today = 0 /\ missing = {} /\ parts = {}
    /\ copies = [d \in DatabaseSet |-> {}] /\ kept = copies
    /\ backup = NoBackup /\ stamp = NoStamp
-----------------------------------------------------------------------------
DayPasses ==
    /\ today < LastBackupDay /\ today' = today + 1
    /\ UNCHANGED <<missing, copies, parts, backup, stamp, kept>>

(* A volume is not mounted, or is again.                                   *)
VolumeChanges(d) ==
    /\ missing' = (missing \ {d}) \cup ({d} \ missing)
    /\ UNCHANGED <<today, copies, parts, backup, stamp, kept>>

Database == Databases[backup.at]
(* Mutant: the run goes on after a failure as if there had been none.      *)
FailedForgotten(b) == [b EXCEPT !.at = @ + 1, !.step = "look", !.sent = 0]
Failed(b) == [b EXCEPT !.at = @ + 1, !.step = "look", !.sent = 0, !.failures = @ + 1]
NextDatabase(b) == [b EXCEPT !.at = @ + 1, !.step = "look", !.sent = 0]

BeginBackup ==
    /\ backup = NoBackup
    /\ backup' = [NoBackup EXCEPT !.day = today, !.at = 1, !.step = "look"]
    /\ kept' = copies
    /\ UNCHANGED <<today, missing, copies, parts, stamp>>

(* A database that is not there is passed over, and that is no failure.    *)
LookForDatabase ==
    /\ backup.step = "look" /\ backup.at <= Len(Databases)
    /\ backup' = IF Database \in missing THEN NextDatabase(backup)
                 ELSE [backup EXCEPT !.step = "snapshot", !.found = @ \cup {Database}]
    /\ UNCHANGED <<today, missing, copies, parts, stamp, kept>>

Snapshot ==
    /\ backup.step = "snapshot"
    /\ backup' = [backup EXCEPT !.step = "upload"]
    /\ UNCHANGED <<today, missing, copies, parts, stamp, kept>>

Stored(d) == copies' = [copies EXCEPT ![d] = @ \cup {backup.day}]

(* putObject(), or the start of an upload in parts.                        *)
Put ==
    /\ backup.step = "upload" /\ Database \notin InParts
    /\ Stored(Database)
    /\ backup' = [backup EXCEPT !.step = "prune"]
    /\ UNCHANGED <<today, missing, parts, stamp, kept>>

CreateUpload ==
    /\ backup.step = "upload" /\ Database \in InParts
    /\ parts' = parts \cup {Database}
    /\ backup' = [backup EXCEPT !.step = "parts"]
    /\ UNCHANGED <<today, missing, copies, stamp, kept>>

SendPart ==
    /\ backup.step = "parts" /\ backup.sent < Parts
    /\ backup' = [backup EXCEPT !.sent = @ + 1]
    /\ UNCHANGED <<today, missing, copies, parts, stamp, kept>>

CompleteUpload ==
    /\ backup.step = "parts" /\ backup.sent = Parts
    /\ Stored(Database) /\ parts' = parts \ {Database}
    /\ backup' = [backup EXCEPT !.step = "prune"]
    /\ UNCHANGED <<today, missing, stamp, kept>>

(* A step throws; a put may be in the store all the same. An upload in     *)
(* parts is given up, which may fail too, or come too late.                *)
StepFails ==
    /\ backup.step \in {"snapshot", "upload", "parts", "prune"}
    /\ backup' = Failed(backup)
    /\ \/ UNCHANGED <<copies, parts>>
       \/ /\ backup.step = "upload" /\ Database \notin InParts
          /\ Stored(Database) /\ UNCHANGED parts
       \/ /\ backup.step = "parts" /\ backup.sent = Parts
          /\ Stored(Database) /\ parts' = parts \ {Database}
       \/ backup.step = "parts" /\ parts' = parts \ {Database} /\ UNCHANGED copies
    /\ UNCHANGED <<today, missing, stamp, kept>>

(* Keys older than the cutoff of the run's day. Mutant: of a day more.     *)
StaleOneMore(d) == { c \in copies[d] : c <= backup.day - RetentionDays }
Stale(d) == { c \in copies[d] : c < backup.day - RetentionDays }

(* deleteObjects() tries all of them; if one stays, that is a failure.     *)
Prune ==
    /\ backup.step = "prune"
    /\ \E gone \in SUBSET Stale(Database) :
         /\ copies' = [copies EXCEPT ![Database] = @ \ gone]
         /\ backup' = IF gone = Stale(Database) THEN NextDatabase(backup) ELSE Failed(backup)
    /\ UNCHANGED <<today, missing, parts, stamp, kept>>

EndBackup ==
    /\ backup.step = "look" /\ backup.at = Len(Databases) + 1
    /\ stamp' = IF backup.failures = 0 THEN [written |-> today, of |-> backup.day, found |-> backup.found]
                ELSE stamp
    /\ backup' = NoBackup
    /\ UNCHANGED <<today, missing, copies, parts, kept>>

BackupDies ==
    /\ backup # NoBackup
    /\ backup' = NoBackup
    /\ UNCHANGED <<today, missing, copies, parts, stamp, kept>>

BackupNext ==
    \/ DayPasses \/ BeginBackup \/ LookForDatabase \/ Snapshot \/ Put \/ CreateUpload
    \/ SendPart \/ CompleteUpload \/ StepFails \/ Prune \/ EndBackup \/ BackupDies
    \/ \E d \in DatabaseSet : VolumeChanges(d)

BackupSpec == BackupInit /\ [][BackupNext]_backupVars
-----------------------------------------------------------------------------
(* The stamp stands for a run that left a copy of its day of every         *)
(* database it found and no copy past the retention, and that copy is      *)
(* there until it is as old itself; and no run removes a copy it must      *)
(* keep. However runs fail, are killed, or take more than a night.         *)
StampMeansBackup ==
    \A d \in DatabaseSet :
        /\ d \in stamp.found =>
              /\ stamp.of \in copies[d] \/ stamp.of < today - RetentionDays
              /\ \A c \in copies[d] : c >= stamp.of - RetentionDays
        /\ \A c \in kept[d] \ copies[d] : c < today - RetentionDays
=============================================================================
