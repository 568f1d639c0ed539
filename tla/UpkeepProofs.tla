----------------------------- MODULE UpkeepProofs -----------------------------
(***************************************************************************)
(* Proofs about the components of the upkeep side, for any values of their *)
(* constants. The backup of the state databases (StateBackup): a stamp     *)
(* means that every database there was is backed up, and kept as long as   *)
(* promised. The monitor (Monitor): a trouble that lasts is told. The      *)
(* figures (Figures): none is shown for longer than it is remembered. The  *)
(* coverage check (CoverageCheck), the status page (StatusPage) and the    *)
(* list of runs (AdminPage): what they say was there. The scripts that go  *)
(* over what is stored (Revalidation, TimeRepair, IndexClient)             *)
(* and an operator's requests (OpsRequests): they do what they are for,    *)
(* however often they are killed and begun again, and nothing twice. And   *)
(* of all of them: types, and the bounds the types name.                   *)
(***************************************************************************)
EXTENDS MCUpkeep, FiniteSetTheorems, SequenceTheorems, NaturalsInduction,
        WellFoundedInduction, TLAPS
-----------------------------------------------------------------------------
(* Why it holds. Days are never ahead of the clock, a stamp is never of a  *)
(* later day than the run under way, and a run that has not failed leaves  *)
(* each database it found done, but for the one it is at.                  *)
DaysAreOrdered ==
    /\ stamp.of <= today /\ backup.day <= today
    /\ backup.step # "none" => backup.day >= 0 /\ stamp.of <= backup.day

PlaceIsKnown ==
    /\ backup.step # "none" => backup.at >= 1 /\ backup.failures < backup.at
    /\ backup.step \notin {"none", "look"} => backup.at <= Len(Databases)

BackedUp(d) ==
    /\ backup.day \in copies[d]
    /\ \A c \in copies[d] : c >= backup.day - RetentionDays

AtIt(d) == backup.step \notin {"none", "look"} /\ d = Database

RunIsWholeSoFar ==
    /\ backup.step = "prune" => backup.day \in copies[Database]
    /\ backup.step # "none" /\ backup.failures = 0 =>
          \A d \in backup.found : BackedUp(d) \/ AtIt(d)

BackupInvariant ==
    BackupTypeOK /\ DaysAreOrdered /\ PlaceIsKnown /\ RunIsWholeSoFar /\ StampMeansBackup

(* The record of the script, field by field.                               *)
BackupRow ==
    [day: -1 .. LastBackupDay, at: 0 .. Len(Databases) + 1, step: Steps,
     sent: 0 .. Parts, found: SUBSET DatabaseSet, failures: 0 .. Len(Databases)]

(* The database the script is at is one of those it backs up.              *)
LEMMA DatabaseIsKnown ==
    ASSUME BackupTypeOK, PlaceIsKnown, backup.step # "none", backup.at <= Len(Databases)
    PROVE  Database \in DatabaseSet
  <1>1. Len(Databases) \in Nat /\ DOMAIN Databases = 1 .. Len(Databases)
    BY StateBackupAssumption
  <1>2. backup.at \in 1 .. Len(Databases) BY <1>1 DEF BackupTypeOK, PlaceIsKnown
  <1> QED BY <1>1, <1>2 DEF Database, DatabaseSet

(* The record of no run.                                                   *)
LEMMA IdleIsTyped == NoBackup \in BackupRow
  <1>1. Len(Databases) \in Nat BY StateBackupAssumption
  <1> QED BY <1>1, StateBackupAssumption DEF NoBackup, BackupRow, Steps

(* What ends the work on a database keeps the record's type.               *)
LEMMA MovesOn ==
    ASSUME BackupTypeOK, PlaceIsKnown, backup.step # "none", backup.at <= Len(Databases)
    PROVE  Failed(backup) \in BackupRow /\ NextDatabase(backup) \in BackupRow
  <1>1. Len(Databases) \in Nat BY StateBackupAssumption
  <1>b. backup \in BackupRow BY DEF BackupTypeOK, BackupRow
  <1>n. backup.at \in Nat /\ backup.failures \in Nat /\ backup.failures < backup.at
    BY <1>b, <1>1 DEF BackupRow, PlaceIsKnown
  <1>2. /\ backup \in BackupRow /\ backup.at + 1 \in 0 .. Len(Databases) + 1
        /\ backup.failures + 1 \in 0 .. Len(Databases) /\ 0 \in 0 .. Parts
    BY <1>1, <1>b, <1>n, StateBackupAssumption
  <1>3. "look" \in Steps BY DEF Steps
  <1> QED BY <1>2, <1>3 DEF Failed, NextDatabase, BackupRow

LEMMA BackupTypeStep ==
    ASSUME BackupTypeOK, PlaceIsKnown, DaysAreOrdered, [BackupNext]_backupVars
    PROVE  BackupTypeOK'
  <1>a. Len(Databases) \in Nat BY StateBackupAssumption
  <1>b. backup \in BackupRow BY DEF BackupTypeOK, BackupRow
  <1>c. \A s \in Steps : [backup EXCEPT !.step = s] \in BackupRow BY <1>b DEF BackupRow
  <1>d. NoBackup \in BackupRow BY IdleIsTyped
  <1>s. ASSUME backup.step \notin {"none", "look"}
        PROVE  /\ Database \in DatabaseSet /\ backup.day \in 0 .. LastBackupDay
               /\ Failed(backup) \in BackupRow /\ NextDatabase(backup) \in BackupRow
    <2>1. backup.step # "none" /\ backup.at <= Len(Databases) BY <1>s DEF PlaceIsKnown
    <2>2. backup.day \in 0 .. LastBackupDay
      BY <2>1, StateBackupAssumption DEF BackupTypeOK, DaysAreOrdered
    <2> QED BY <2>1, <2>2, DatabaseIsKnown, MovesOn
  <1>t. ASSUME backup.step \notin {"none", "look"}
        PROVE  [copies EXCEPT ![Database] = @ \cup {backup.day}]
                  \in [DatabaseSet -> SUBSET (0 .. LastBackupDay)]
    BY <1>s, <1>t DEF BackupTypeOK
  <1>1. CASE DayPasses BY <1>1, StateBackupAssumption DEF DayPasses, BackupTypeOK
  <1>2. CASE BeginBackup
    <2>0. today \in -1 .. LastBackupDay /\ 1 \in 0 .. Len(Databases) + 1 /\ "look" \in Steps
      BY <1>a, StateBackupAssumption DEF BackupTypeOK, Steps
    <2>1. backup' \in BackupRow BY <2>0, <1>2, <1>d DEF BeginBackup, BackupRow
    <2> QED BY <2>1, <1>2 DEF BeginBackup, BackupTypeOK, BackupRow
  <1>3. CASE LookForDatabase
    <2>1. Database \in DatabaseSet BY <1>3, DatabaseIsKnown DEF LookForDatabase
    <2>2. NextDatabase(backup) \in BackupRow BY <1>3, MovesOn DEF LookForDatabase
    <2>3. [backup EXCEPT !.step = "snapshot", !.found = @ \cup {Database}] \in BackupRow
      BY <1>b, <2>1 DEF BackupRow, Steps
    <2>4. backup' \in BackupRow BY <1>3, <2>2, <2>3 DEF LookForDatabase
    <2> QED BY <2>4, <1>3 DEF LookForDatabase, BackupTypeOK, BackupRow
  <1>4. CASE Snapshot BY <1>4, <1>c DEF Snapshot, BackupTypeOK, BackupRow, Steps
  <1>5. CASE Put
    <2>1. backup' \in BackupRow BY <1>5, <1>c DEF Put, Steps
    <2> QED BY <2>1, <1>5, <1>t DEF Put, Stored, BackupTypeOK, BackupRow
  <1>6. CASE CreateUpload
    <2>1. backup' \in BackupRow BY <1>6, <1>c DEF CreateUpload, Steps
    <2> QED BY <2>1, <1>6 DEF CreateUpload, BackupTypeOK, BackupRow
  <1>7. CASE SendPart
    <2>0. backup.sent + 1 \in 0 .. Parts
      BY <1>7, <1>b, StateBackupAssumption DEF SendPart, BackupRow
    <2>1. backup' \in BackupRow BY <2>0, <1>7, <1>b DEF SendPart, BackupRow
    <2> QED BY <2>1, <1>7 DEF SendPart, BackupTypeOK, BackupRow
  <1>8. CASE CompleteUpload
    <2>1. backup' \in BackupRow BY <1>8, <1>c DEF CompleteUpload, Steps
    <2> QED BY <2>1, <1>8, <1>t DEF CompleteUpload, Stored, BackupTypeOK, BackupRow
  <1>9. CASE StepFails
    <2>1. backup.step \notin {"none", "look"} /\ backup' = Failed(backup)
      BY <1>9 DEF StepFails
    <2>2. backup' \in BackupRow BY <2>1, <1>s
    <2>3. copies' \in [DatabaseSet -> SUBSET (0 .. LastBackupDay)]
      BY <1>9, <2>1, <1>t DEF StepFails, Stored, BackupTypeOK
    <2>4. parts' \subseteq InParts BY <1>9 DEF StepFails, BackupTypeOK
    <2> QED BY <2>2, <2>3, <2>4, <1>9 DEF StepFails, BackupTypeOK, BackupRow
  <1>10. CASE Prune
    <2>1. backup' \in BackupRow BY <1>10, <1>s DEF Prune
    <2>2. copies' \in [DatabaseSet -> SUBSET (0 .. LastBackupDay)]
      BY <1>10, <1>s DEF Prune, BackupTypeOK
    <2> QED BY <2>1, <2>2, <1>10 DEF Prune, BackupTypeOK, BackupRow
  <1>11. CASE EndBackup
    <2>1. stamp' \in [written: -1 .. LastBackupDay, of: -1 .. LastBackupDay,
                      found: SUBSET DatabaseSet]
      BY <1>11 DEF EndBackup, BackupTypeOK
    <2> QED BY <2>1, <1>d, <1>11 DEF EndBackup, BackupTypeOK, BackupRow
  <1>12. CASE BackupDies BY <1>12, <1>d DEF BackupDies, BackupTypeOK, BackupRow
  <1>13. CASE \E d \in DatabaseSet : VolumeChanges(d)
    BY <1>13 DEF VolumeChanges, BackupTypeOK
  <1>14. CASE UNCHANGED backupVars BY <1>14 DEF backupVars, BackupTypeOK, DatabaseSet
  <1> QED BY <1>1, <1>2, <1>3, <1>4, <1>5, <1>6, <1>7, <1>8, <1>9, <1>10, <1>11, <1>12,
             <1>13, <1>14 DEF BackupNext

(* A run that is not idle: its day and the numbers it is compared with.    *)
LEMMA DaysAreNumbers ==
    ASSUME BackupTypeOK
    PROVE  /\ today \in Nat /\ RetentionDays \in Nat /\ RetentionDays >= 1
           /\ stamp.of \in Int /\ backup.day \in Int
           /\ backup.at \in Int /\ backup.failures \in Int /\ Len(Databases) \in Int
           /\ \A d \in DatabaseSet : copies[d] \subseteq Int /\ kept[d] \subseteq Int
  BY StateBackupAssumption DEF BackupTypeOK

LEMMA OrderStep ==
    ASSUME BackupTypeOK, DaysAreOrdered, PlaceIsKnown, [BackupNext]_backupVars
    PROVE  DaysAreOrdered' /\ PlaceIsKnown'
  <1> USE DaysAreNumbers
  <1>b. backup \in BackupRow BY DEF BackupTypeOK, BackupRow
  <1>m. ASSUME backup' \in {Failed(backup), NextDatabase(backup)}, backup.step # "none"
        PROVE  /\ backup'.day = backup.day /\ backup'.step = "look"
               /\ backup'.at = backup.at + 1
               /\ backup'.failures \in {backup.failures, backup.failures + 1}
    <2>1. CASE backup' = Failed(backup) BY <1>b, <2>1 DEF Failed, BackupRow
    <2>2. CASE backup' = NextDatabase(backup) BY <1>b, <2>2 DEF NextDatabase, BackupRow
    <2> QED BY <1>m, <2>1, <2>2
  <1>k. ASSUME backup'.step # "none", backup.step # "none", backup'.day = backup.day,
               backup'.at = backup.at, backup'.failures = backup.failures,
               backup'.at <= Len(Databases), UNCHANGED <<today, stamp>>
        PROVE  DaysAreOrdered' /\ PlaceIsKnown'
    BY <1>k DEF DaysAreOrdered, PlaceIsKnown
  <1>n. ASSUME backup' \in {Failed(backup), NextDatabase(backup)}, backup.step # "none",
               UNCHANGED <<today, stamp>>
        PROVE  DaysAreOrdered' /\ PlaceIsKnown'
    <2>1. /\ backup'.day = backup.day /\ backup'.step = "look" /\ backup'.at = backup.at + 1
          /\ backup'.failures \in {backup.failures, backup.failures + 1}
      BY <1>m, <1>n
    <2> QED BY <2>1, <1>n DEF DaysAreOrdered, PlaceIsKnown
  <1>1. CASE DayPasses BY <1>1 DEF DayPasses, DaysAreOrdered, PlaceIsKnown
  <1>2. CASE BeginBackup BY <1>2 DEF BeginBackup, NoBackup, DaysAreOrdered, PlaceIsKnown
  <1>3. CASE LookForDatabase
    <2>1. CASE Database \in missing BY <2>1, <1>3, <1>n DEF LookForDatabase
    <2>2. CASE Database \notin missing
      <3>1. backup' = [backup EXCEPT !.step = "snapshot", !.found = @ \cup {Database}]
        BY <2>2, <1>3 DEF LookForDatabase
      <3>2. /\ backup'.step = "snapshot" /\ backup'.day = backup.day
            /\ backup'.at = backup.at /\ backup'.failures = backup.failures
        BY <3>1, <1>b DEF BackupRow
      <3> QED BY <3>2, <1>3, <1>k DEF LookForDatabase
    <2> QED BY <2>1, <2>2
  <1>4. CASE Snapshot \/ Put \/ CreateUpload \/ SendPart \/ CompleteUpload
    <2>1. backup.step \notin {"none", "look"} /\ UNCHANGED <<today, stamp>>
      BY <1>4 DEF Snapshot, Put, CreateUpload, SendPart, CompleteUpload
    <2>2. /\ backup'.step # "none" /\ backup'.day = backup.day
          /\ backup'.at = backup.at /\ backup'.failures = backup.failures
      BY <1>4, <1>b DEF Snapshot, Put, CreateUpload, SendPart, CompleteUpload, BackupRow
    <2> QED BY <2>1, <2>2, <1>k DEF PlaceIsKnown
  <1>5. CASE StepFails \/ Prune BY <1>5, <1>n DEF StepFails, Prune
  <1>6. CASE EndBackup \/ BackupDies
    BY <1>6, StateBackupAssumption
    DEF EndBackup, BackupDies, NoBackup, DaysAreOrdered, PlaceIsKnown, BackupTypeOK
  <1>7. CASE (\E d \in DatabaseSet : VolumeChanges(d)) \/ UNCHANGED backupVars
    BY <1>7 DEF VolumeChanges, backupVars, DaysAreOrdered, PlaceIsKnown
  <1> QED BY <1>1, <1>2, <1>3, <1>4, <1>5, <1>6, <1>7 DEF BackupNext

(* A run keeps what it has done: it only ever adds copies of its own day,  *)
(* and prunes what is older than its cutoff.                               *)
LEMMA CopiesOfARun ==
    ASSUME BackupTypeOK, DaysAreOrdered, PlaceIsKnown,
           \/ LookForDatabase \/ Snapshot \/ Put \/ CreateUpload \/ SendPart
           \/ CompleteUpload \/ StepFails \/ Prune
    PROVE  /\ backup.step # "none" /\ backup'.day = backup.day
           /\ \A d \in DatabaseSet :
                 /\ \A c \in copies'[d] : c \in copies[d] \/ c = backup.day
                 /\ \A c \in copies[d] : c \in copies'[d] \/ c < backup.day - RetentionDays
  <1>b. backup \in BackupRow BY DEF BackupTypeOK, BackupRow
  <1>1. backup.step # "none"
    BY DEF LookForDatabase, Snapshot, Put, CreateUpload, SendPart, CompleteUpload, StepFails, Prune
  <1>2. backup'.day = backup.day
    <2>1. Failed(backup).day = backup.day /\ NextDatabase(backup).day = backup.day
      BY <1>b DEF Failed, NextDatabase, BackupRow
    <2> QED BY <2>1, <1>b DEF LookForDatabase, Snapshot, Put, CreateUpload, SendPart,
                              CompleteUpload, StepFails, Prune, BackupRow
  <1>3. \/ UNCHANGED copies
        \/ copies' = [copies EXCEPT ![Database] = @ \cup {backup.day}]
        \/ \E gone \in SUBSET Stale(Database) : copies' = [copies EXCEPT ![Database] = @ \ gone]
    BY DEF LookForDatabase, Snapshot, Put, CreateUpload, SendPart, CompleteUpload, StepFails,
           Prune, Stored
  <1>4. copies \in [DatabaseSet -> SUBSET (0 .. LastBackupDay)] BY DEF BackupTypeOK
  <1>5. ASSUME NEW d \in DatabaseSet
        PROVE  /\ \A c \in copies'[d] : c \in copies[d] \/ c = backup.day
               /\ \A c \in copies[d] : c \in copies'[d] \/ c < backup.day - RetentionDays
    BY <1>3, <1>4 DEF Stale
  <1> QED BY <1>1, <1>2, <1>5

LEMMA StampStep ==
    ASSUME BackupInvariant, [BackupNext]_backupVars
    PROVE  StampMeansBackup'
  <1> USE DaysAreNumbers DEF BackupInvariant
  <1>s. stamp \in [written: -1 .. LastBackupDay, of: -1 .. LastBackupDay, found: SUBSET DatabaseSet]
    BY DEF BackupTypeOK
  <1>1. CASE DayPasses BY <1>1 DEF DayPasses, StampMeansBackup
  <1>2. CASE BeginBackup BY <1>2 DEF BeginBackup, StampMeansBackup
  <1>3. CASE \/ LookForDatabase \/ Snapshot \/ Put \/ CreateUpload \/ SendPart
             \/ CompleteUpload \/ StepFails \/ Prune
    <2>1. UNCHANGED <<today, stamp, kept>>
      BY <1>3 DEF LookForDatabase, Snapshot, Put, CreateUpload, SendPart, CompleteUpload,
                  StepFails, Prune
    <2>2. backup.day <= today /\ stamp.of <= backup.day
      BY <1>3, CopiesOfARun DEF DaysAreOrdered
    <2>3. ASSUME NEW d \in DatabaseSet, d \in stamp.found
          PROVE  /\ stamp.of \in copies'[d] \/ stamp.of < today - RetentionDays
                 /\ \A c \in copies'[d] : c >= stamp.of - RetentionDays
      BY <1>3, <2>2, <2>3, CopiesOfARun DEF StampMeansBackup
    <2>4. ASSUME NEW d \in DatabaseSet
          PROVE  \A c \in kept[d] \ copies'[d] : c < today - RetentionDays
      BY <1>3, <2>2, CopiesOfARun DEF StampMeansBackup
    <2> QED BY <2>1, <2>3, <2>4 DEF StampMeansBackup
  <1>4. CASE EndBackup
    <2>1. CASE backup.failures = 0
      <3>1. \A d \in backup.found : BackedUp(d)
        BY <1>4, <2>1 DEF EndBackup, RunIsWholeSoFar, AtIt
      <3>2. stamp'.of = backup.day /\ stamp'.found = backup.found
        BY <1>4, <2>1 DEF EndBackup
      <3> QED BY <1>4, <3>1, <3>2 DEF EndBackup, StampMeansBackup, BackedUp
    <2>2. CASE backup.failures # 0 BY <1>4, <2>2 DEF EndBackup, StampMeansBackup
    <2> QED BY <2>1, <2>2
  <1>5. CASE BackupDies BY <1>5 DEF BackupDies, StampMeansBackup
  <1>6. CASE (\E d \in DatabaseSet : VolumeChanges(d)) \/ UNCHANGED backupVars
    BY <1>6 DEF VolumeChanges, backupVars, StampMeansBackup, DatabaseSet
  <1> QED BY <1>1, <1>2, <1>3, <1>4, <1>5, <1>6 DEF BackupNext

(* The run goes on: what was done stays done, and the database it was at   *)
(* becomes done where it moves on without a failure.                       *)
LEMMA WholeStep ==
    ASSUME BackupInvariant, [BackupNext]_backupVars
    PROVE  RunIsWholeSoFar'
  <1> USE DaysAreNumbers DEF BackupInvariant
  <1>b. backup \in BackupRow BY DEF BackupTypeOK, BackupRow
  <1>d. copies \in [DatabaseSet -> SUBSET (0 .. LastBackupDay)] BY DEF BackupTypeOK
  <1>1. CASE DayPasses \/ (\E d \in DatabaseSet : VolumeChanges(d)) \/ UNCHANGED backupVars
    BY <1>1 DEF DayPasses, VolumeChanges, backupVars, RunIsWholeSoFar, BackedUp, AtIt, Database
  <1>2. CASE BeginBackup \/ EndBackup \/ BackupDies
    <2>1. NoBackup.found = {} /\ NoBackup.step = "none" BY DEF NoBackup
    <2>2. CASE BeginBackup
      <3>1. NoBackup \in BackupRow BY IdleIsTyped
      <3>2. backup' = [NoBackup EXCEPT !.day = today, !.at = 1, !.step = "look"]
        BY <2>2 DEF BeginBackup
      <3>3. backup'.step = "look" /\ backup'.found = {}
        BY <2>1, <3>1, <3>2 DEF BackupRow
      <3> QED BY <3>3 DEF RunIsWholeSoFar
    <2>3. CASE EndBackup \/ BackupDies
      BY <2>1, <2>3 DEF EndBackup, BackupDies, RunIsWholeSoFar
    <2> QED BY <1>2, <2>2, <2>3
  <1>3. CASE \/ LookForDatabase \/ Snapshot \/ Put \/ CreateUpload \/ SendPart
             \/ CompleteUpload \/ StepFails \/ Prune
    <2>1. backup.step # "none" /\ backup'.day = backup.day BY <1>3, CopiesOfARun
    <2>2. ASSUME NEW d \in DatabaseSet, BackedUp(d) PROVE BackedUp(d)'
      <3>1. /\ \A c \in copies'[d] : c \in copies[d] \/ c = backup.day
            /\ \A c \in copies[d] : c \in copies'[d] \/ c < backup.day - RetentionDays
        BY <1>3, CopiesOfARun
      <3> QED BY <3>1, <2>1, <2>2 DEF BackedUp
    <2>3. backup.found \subseteq DatabaseSet BY <1>b DEF BackupRow
    <2>4. CASE LookForDatabase
      <3>1. CASE Database \in missing
        <4>1. /\ backup'.step = "look" /\ backup'.found = backup.found
              /\ backup'.failures = backup.failures
          BY <3>1, <2>4, <1>b DEF LookForDatabase, NextDatabase, BackupRow
        <4> QED BY <4>1, <2>1, <2>2, <2>3, <2>4 DEF LookForDatabase, RunIsWholeSoFar, AtIt
      <3>2. CASE Database \notin missing
        <4>1. /\ backup'.step = "snapshot" /\ backup'.found = backup.found \cup {Database}
              /\ backup'.failures = backup.failures /\ backup'.at = backup.at
          BY <3>2, <2>4, <1>b DEF LookForDatabase, BackupRow
        <4> QED BY <4>1, <2>1, <2>2, <2>3, <2>4
                DEF LookForDatabase, RunIsWholeSoFar, AtIt, Database
      <3> QED BY <3>1, <3>2
    <2>5. CASE Snapshot \/ CreateUpload \/ SendPart
      <3>1. /\ backup'.step \in {"upload", "parts"} /\ backup'.found = backup.found
            /\ backup'.failures = backup.failures /\ backup'.at = backup.at
            /\ backup.step \notin {"none", "look"}
        BY <2>5, <1>b DEF Snapshot, CreateUpload, SendPart, BackupRow
      <3> QED BY <3>1, <2>1, <2>2, <2>3 DEF RunIsWholeSoFar, AtIt, Database
    <2>6. CASE Put \/ CompleteUpload
      <3>1. /\ backup'.step = "prune" /\ backup'.found = backup.found
            /\ backup'.failures = backup.failures /\ backup'.at = backup.at
            /\ backup.step \notin {"none", "look"}
        BY <2>6, <1>b DEF Put, CompleteUpload, BackupRow
      <3>2. Database \in DatabaseSet BY <3>1, DatabaseIsKnown DEF PlaceIsKnown
      <3>3. backup.day \in copies'[Database]
        BY <2>6, <3>2, <1>d DEF Put, CompleteUpload, Stored
      <3> QED BY <3>1, <3>3, <2>1, <2>2, <2>3 DEF RunIsWholeSoFar, AtIt, Database
    <2>7. CASE backup' = Failed(backup)
      <3>1. backup'.step = "look" /\ backup'.failures = backup.failures + 1
        BY <2>7, <1>b DEF Failed, BackupRow
      <3>2. backup.failures \in Nat BY <1>b, StateBackupAssumption DEF BackupRow
      <3> QED BY <3>1, <3>2 DEF RunIsWholeSoFar
    <2>8. CASE Prune /\ backup' # Failed(backup)
      <3>1. backup.step = "prune" /\ backup' = NextDatabase(backup) BY <2>8 DEF Prune
      <3>2. copies' = [copies EXCEPT ![Database] = @ \ Stale(Database)]
        BY <2>8 DEF Prune
      <3>3. /\ backup'.step = "look" /\ backup'.found = backup.found
            /\ backup'.failures = backup.failures
        BY <3>1, <1>b DEF NextDatabase, BackupRow
      <3>4. Database \in DatabaseSet /\ backup.day \in copies[Database]
        BY <3>1, DatabaseIsKnown DEF PlaceIsKnown, RunIsWholeSoFar
      <3>5. copies'[Database] = copies[Database] \ Stale(Database) BY <3>2, <3>4, <1>d
      <3>6. /\ backup.day \in copies'[Database]
            /\ \A c \in copies'[Database] : c >= backup.day - RetentionDays
        BY <3>4, <3>5 DEF Stale
      <3>7. ASSUME NEW d \in backup.found, backup.failures = 0 PROVE BackedUp(d)'
        <4>1. CASE d = Database BY <4>1, <3>6, <2>1 DEF BackedUp
        <4>2. CASE d # Database
          BY <4>2, <3>7, <2>1, <2>2, <2>3 DEF RunIsWholeSoFar, AtIt
        <4> QED BY <4>1, <4>2
      <3> QED BY <3>3, <3>7 DEF RunIsWholeSoFar
    <2> QED BY <1>3, <2>4, <2>5, <2>6, <2>7, <2>8 DEF StepFails
  <1> QED BY <1>1, <1>2, <1>3 DEF BackupNext

(* The backup keeps its promise for any databases, parts and retention,    *)
(* with any requests failing and the script killed at any step.            *)
THEOREM BackupKeepsItsPromise == BackupSpec => []BackupInvariant
  <1>1. BackupInit => BackupInvariant
    <2> SUFFICES ASSUME BackupInit PROVE BackupInvariant OBVIOUS
    <2>1. Len(Databases) \in Nat BY StateBackupAssumption
    <2>2. BackupTypeOK
      BY <2>1, StateBackupAssumption
      DEF BackupInit, BackupTypeOK, NoBackup, NoStamp, Steps
    <2> QED BY <2>2, StateBackupAssumption
            DEF BackupInit, BackupInvariant, DaysAreOrdered, PlaceIsKnown, RunIsWholeSoFar,
                StampMeansBackup, NoBackup, NoStamp
  <1>2. BackupInvariant /\ [BackupNext]_backupVars => BackupInvariant'
    BY BackupTypeStep, OrderStep, WholeStep, StampStep DEF BackupInvariant
  <1> QED BY <1>1, <1>2, PTL DEF BackupSpec
-----------------------------------------------------------------------------
(* In the run of all upkeep components each behaves as it does alone.      *)
LEMMA EachIsAPart ==
    UpkeepSpec => /\ BackupSpec /\ MonitorSpec /\ CoverageSpec /\ StatusSpec /\ AdminPageSpec
                  /\ FiguresSpec /\ RevalidationSpec /\ TimeRepairSpec /\ IndexClientSpec
                  /\ OpsRequestsSpec
  <1>1. UpkeepInit =>
           /\ BackupInit /\ MonitorInit /\ CoverageInit /\ StatusInit /\ AdminPageInit
           /\ FiguresInit /\ RevalidationInit /\ TimeRepairInit /\ IndexClientInit
           /\ OpsRequestsInit
    BY DEF UpkeepInit
  <1>2. ASSUME [UpkeepNext]_upkeepVars
        PROVE  /\ [BackupNext]_backupVars /\ [MonitorNext]_monitorVars
               /\ [CoverageNext]_coverageVars /\ [StatusNext]_statusVars
               /\ [AdminPageNext]_adminPageVars /\ [FiguresNext]_figuresVars
               /\ [RevalidationNext]_revalidationVars /\ [TimeRepairNext]_timeRepairVars
               /\ [IndexClientNext]_indexClientVars
               /\ [OpsRequestsNext]_opsRequestsVars
    <2>1. CASE UpkeepNext
      <3> USE <2>1 DEF UpkeepNext, RevalidationStep, TimesStep, BackupStep, MonitorStep,
                       CoverageStep, StatusStep, ClientStep, AdminStep,
                       FiguresStep, RequestsStep
      <3>1. OthersRest OBVIOUS
      <3>2. /\ component = "backup" => BackupNext
            /\ component = "monitor" => MonitorNext
            /\ component = "coverage" => CoverageNext
            /\ component = "status" => StatusNext
            /\ component = "admin" => AdminPageNext
            /\ component \in {"stats", "ratios", "previews"} => FiguresNext
        BY DEF FiguresNext
      <3>3. /\ component = "revalidation" => RevalidationNext
            /\ component = "times" => TimeRepairNext
            /\ component = "client" => IndexClientNext
            /\ component = "requests" => OpsRequestsNext
        OBVIOUS
      <3> QED BY ONLY <3>1, <3>2, <3>3 DEF OthersRest, Rests
    <2>2. CASE UNCHANGED upkeepVars BY <2>2 DEF upkeepVars
    <2> QED BY <1>2, <2>1, <2>2
  <1> QED BY <1>1, <1>2, PTL
      DEF UpkeepSpec, BackupSpec, MonitorSpec, CoverageSpec, StatusSpec, AdminPageSpec,
          FiguresSpec, RevalidationSpec, TimeRepairSpec, IndexClientSpec,
          OpsRequestsSpec

(* StampMeansBackup, of the specification the run checks.                  *)
THEOREM StampIsTrue == UpkeepSpec => []StampMeansBackup
  <1>1. BackupInvariant => StampMeansBackup BY DEF BackupInvariant
  <1> QED BY <1>1, EachIsAPart, BackupKeepsItsPromise, PTL
-----------------------------------------------------------------------------
(* Monitor. Why a trouble that lasts is told: every check a tick has been  *)
(* through has raised what was wrong all along, and a key is marked only   *)
(* after the webhook has taken it.                                         *)
TickRow ==
    [check: {"none", "search", "disk", "docker", "supplier", "tell", "mark"},
     alerts: SUBSET Troubles, held: SUBSET Troubles]

(* What the checks before this one look for.                               *)
LookedFor ==
    CASE tick.check = "disk" -> {"search"}
      [] tick.check = "docker" -> {"search", "disk"}
      [] tick.check = "supplier" -> {"search", "disk", "docker"}
      [] tick.check \in {"tell", "mark"} -> Watched \ {"backup"}
      [] OTHER -> {}

TimesAreOrdered ==
    /\ slow <= ticks /\ (tick.check = "search" => slow < ticks)
    /\ \A k \in Troubles : marked[k] <= told[k] /\ told[k] <= ticks

TickIsHonest ==
    /\ tick.held \subseteq trouble
    /\ tick.check \in {"disk", "docker", "supplier"} => script.local
    /\ script.of = "deno" => tick.held \cap LookedFor \subseteq tick.alerts
    /\ tick.check = "mark" => \A k \in Unsuppressed : told[k] = ticks
    /\ script.of = "deno" => unheard \subseteq {"backup"}

MonitorInvariant == MonitorTypeOK /\ TimesAreOrdered /\ TickIsHonest

LEMMA MonitorNumbers ==
    ASSUME MonitorTypeOK
    PROVE  /\ ticks \in Nat /\ slow \in Nat /\ LastTick \in Nat /\ Cooldown \in Nat /\ Cooldown > 0
           /\ Never \in Times /\ Never \in Int /\ Never < 0
           /\ \A n \in 0 .. LastTick : n \in Times
           /\ \A k \in Troubles : marked[k] \in Int /\ told[k] \in Int
  BY MonitorAssumption DEF MonitorTypeOK, Times, Never

LEMMA TickRows ==
    ASSUME MonitorTypeOK
    PROVE  /\ tick \in TickRow /\ NoTick \in TickRow
           /\ \A held \in SUBSET Troubles :
                 /\ [tick EXCEPT !.held = held] \in TickRow
                 /\ [check |-> "search", alerts |-> {}, held |-> held] \in TickRow
           /\ \A next \in {"disk", "docker", "supplier", "tell", "mark"} :
                 /\ [tick EXCEPT !.check = next] \in TickRow
                 /\ \A keys \in SUBSET Troubles :
                       [tick EXCEPT !.check = next, !.alerts = @ \cup keys] \in TickRow
  <1>1. tick \in TickRow BY DEF MonitorTypeOK, TickRow
  <1> QED BY <1>1 DEF NoTick, TickRow

LEMMA MonitorTypeStep ==
    ASSUME MonitorTypeOK, TimesAreOrdered, TickIsHonest, [MonitorNext]_monitorVars
    PROVE  MonitorTypeOK'
  <1>r. /\ NoTick \in TickRow
        /\ \A held \in SUBSET Troubles :
              /\ [tick EXCEPT !.held = held] \in TickRow
              /\ [check |-> "search", alerts |-> {}, held |-> held] \in TickRow
        /\ \A next \in {"disk", "docker", "supplier", "tell", "mark"} :
              /\ [tick EXCEPT !.check = next] \in TickRow
              /\ \A keys \in SUBSET Troubles :
                    [tick EXCEPT !.check = next, !.alerts = @ \cup keys] \in TickRow
    BY TickRows
  <1>0. /\ trouble \subseteq Troubles /\ unheard \subseteq Troubles /\ tick.held \subseteq Troubles
        /\ \A when : Unheard(when) \subseteq Troubles
    BY DEF MonitorTypeOK, Unheard
  <1>t. tick' \in TickRow => tick' \in [check: {"none", "search", "disk", "docker", "supplier", "tell", "mark"},
                 alerts: SUBSET Troubles, held: SUBSET Troubles]
    BY DEF TickRow
  <1>1. CASE \E k \in Troubles : TroubleChanges(k)
    <2>1. trouble' \subseteq Troubles /\ tick.held \cap trouble' \subseteq Troubles
      BY <1>1, <1>0 DEF TroubleChanges
    <2>2. tick' \in TickRow BY <1>r, <1>1, <2>1 DEF TroubleChanges
    <2> QED BY <1>1, <2>1, <2>2, <1>t DEF TroubleChanges, MonitorTypeOK
  <1>2. CASE BeginTick
    <2>1. trouble \in SUBSET Troubles /\ ticks' \in 0 .. LastTick
      BY <1>2, <1>0, MonitorNumbers DEF BeginTick, MonitorTypeOK
    <2>2. tick' \in TickRow BY <1>r, <1>2, <2>1 DEF BeginTick
    <2> QED BY <1>2, <2>1, <2>2, <1>t DEF BeginTick, MonitorTypeOK
  <1>3. CASE CheckSearch \/ CheckDisk \/ CheckDocker \/ CheckSupplierFreshness
    <2>1. ASSUME NEW keys, NEW next \in {"disk", "docker", "supplier", "tell", "mark"},
                 Raised(keys, next)
          PROVE  tick' \in TickRow
      <3>1. keys \cap Troubles \in SUBSET Troubles OBVIOUS
      <3> QED BY <1>r, <2>1, <3>1 DEF Raised
    <2>3. tick' \in TickRow
      BY <1>3, <2>1 DEF CheckSearch, CheckDisk, CheckDocker, CheckSupplierFreshness
    <2>4. slow' \in 0 .. LastTick + 1
      <3>1. slow' \in {slow, slow + 1, 0} /\ slow \in 0 .. LastTick + 1
        BY <1>3 DEF CheckSearch, CheckDisk, CheckDocker, CheckSupplierFreshness, MonitorTypeOK
      <3>2. slow' = slow + 1 => CheckSearch
        BY <1>3 DEF CheckSearch, CheckDisk, CheckDocker, CheckSupplierFreshness
      <3>3. CheckSearch => slow < ticks /\ ticks <= LastTick
        BY MonitorNumbers DEF CheckSearch, TimesAreOrdered, MonitorTypeOK
      <3> QED BY <3>1, <3>2, <3>3, MonitorNumbers
    <2>5. UNCHANGED <<script, trouble, ticks, marked, told, unheard>>
      BY <1>3 DEF CheckSearch, CheckDisk, CheckDocker, CheckSupplierFreshness
    <2> QED BY <2>3, <2>4, <2>5, <1>t DEF MonitorTypeOK
  <1>4. CASE ScriptEnds \/ NothingToTell \/ WebhookRefuses \/ TickDies
    <2>1. tick' \in TickRow /\ unheard' \subseteq Troubles
      BY <1>r, <1>4, <1>0 DEF ScriptEnds, NothingToTell, WebhookRefuses, TickDies
    <2> QED BY <1>4, <2>1, <1>t
            DEF ScriptEnds, NothingToTell, WebhookRefuses, TickDies, MonitorTypeOK
  <1>5. CASE Tell
    <2>1. tick' \in TickRow /\ unheard' \subseteq Troubles BY <1>r, <1>5, <1>0 DEF Tell
    <2>2. told' \in [Troubles -> Times] BY <1>5, MonitorNumbers DEF Tell, MonitorTypeOK
    <2> QED BY <1>5, <2>1, <2>2, <1>t DEF Tell, MonitorTypeOK
  <1>6. CASE WriteState
    <2>1. tick' \in TickRow BY <1>r, <1>6 DEF WriteState
    <2>2. marked' \in [Troubles -> Times]
      BY <1>6, MonitorNumbers DEF WriteState, Marked, MonitorTypeOK
    <2> QED BY <1>6, <2>1, <2>2, <1>t DEF WriteState, MonitorTypeOK
  <1>7. CASE StateLost
    <2>1. marked' \in [Troubles -> Times] /\ slow' \in 0 .. LastTick + 1
      BY <1>7, MonitorNumbers DEF StateLost
    <2> QED BY <1>7, <2>1 DEF StateLost, MonitorTypeOK
  <1>8. CASE UNCHANGED monitorVars BY <1>8 DEF monitorVars, MonitorTypeOK
  <1> QED BY <1>1, <1>2, <1>3, <1>4, <1>5, <1>6, <1>7, <1>8 DEF MonitorNext

LEMMA TickTimesStep ==
    ASSUME MonitorTypeOK, TimesAreOrdered, TickIsHonest, [MonitorNext]_monitorVars
    PROVE  TimesAreOrdered'
  <1> USE MonitorNumbers
  <1>b. tick \in TickRow /\ NoTick.check = "none" BY TickRows DEF NoTick
  <1>n. ASSUME tick'.check # "search", slow' <= ticks, UNCHANGED <<ticks, marked, told>>
        PROVE  TimesAreOrdered'
    BY <1>n DEF TimesAreOrdered
  <1>1. CASE \E k \in Troubles : TroubleChanges(k)
    <2>1. tick'.check = tick.check BY <1>1, <1>b DEF TroubleChanges, TickRow
    <2> QED BY <1>1, <2>1 DEF TroubleChanges, TimesAreOrdered
  <1>2. CASE BeginTick BY <1>2 DEF BeginTick, TimesAreOrdered
  <1>3. CASE CheckSearch \/ CheckDisk \/ CheckDocker \/ CheckSupplierFreshness
    <2>1. tick'.check # "search"
      BY <1>3, <1>b DEF CheckSearch, CheckDisk, CheckDocker, CheckSupplierFreshness, Raised, TickRow
    <2>2. slow' <= ticks
      BY <1>3 DEF CheckSearch, CheckDisk, CheckDocker, CheckSupplierFreshness, TimesAreOrdered
    <2> QED BY <1>3, <2>1, <2>2, <1>n DEF CheckSearch, CheckDisk, CheckDocker, CheckSupplierFreshness
  <1>4. CASE ScriptEnds \/ NothingToTell \/ WebhookRefuses \/ TickDies
    BY <1>4, <1>b, <1>n DEF ScriptEnds, NothingToTell, WebhookRefuses, TickDies, TimesAreOrdered
  <1>5. CASE Tell
    <2>1. tick'.check # "search" BY <1>5, <1>b DEF Tell, TickRow
    <2>2. \A k \in Troubles : told'[k] = told[k] \/ told'[k] = ticks BY <1>5 DEF Tell
    <2> QED BY <1>5, <2>1, <2>2 DEF Tell, TimesAreOrdered
  <1>6. CASE WriteState
    <2>1. \A k \in Troubles : marked'[k] = marked[k] \/ (marked'[k] = ticks /\ told[k] = ticks)
      BY <1>6 DEF WriteState, Marked, TickIsHonest
    <2> QED BY <1>6, <1>b, <2>1 DEF WriteState, TimesAreOrdered
  <1>7. CASE StateLost
    <2>1. \A k \in Troubles : marked'[k] = Never /\ told[k] >= Never
      BY <1>7, MonitorAssumption DEF StateLost, MonitorTypeOK, Times, Never
    <2> QED BY <1>7, <1>b, <2>1 DEF StateLost, TimesAreOrdered
  <1>8. CASE UNCHANGED monitorVars BY <1>8 DEF monitorVars, TimesAreOrdered
  <1> QED BY <1>1, <1>2, <1>3, <1>4, <1>5, <1>6, <1>7, <1>8 DEF MonitorNext

LEMMA HonestStep ==
    ASSUME MonitorTypeOK, TimesAreOrdered, TickIsHonest, [MonitorNext]_monitorVars
    PROVE  TickIsHonest'
  <1> USE MonitorNumbers
  <1>b. tick \in TickRow /\ tick.held \subseteq Troubles /\ trouble \subseteq Troubles
    BY TickRows DEF MonitorTypeOK
  <1>i. NoTick.check = "none" /\ NoTick.held = {} BY DEF NoTick
  (* A tick that ends, with what it leaves unheard.                        *)
  <1>n. ASSUME tick' = NoTick, UNCHANGED <<script, trouble>>,
               script.of = "deno" => unheard' \subseteq {"backup"}
        PROVE  TickIsHonest'
    BY <1>n, <1>i DEF TickIsHonest
  <1>1. CASE \E k \in Troubles : TroubleChanges(k)
    <2>1. /\ tick'.check = tick.check /\ tick'.alerts = tick.alerts
          /\ tick'.held = tick.held \cap trouble'
      BY <1>1, <1>b DEF TroubleChanges, TickRow
    <2>2. UNCHANGED <<LookedFor, Unsuppressed>>
      BY <1>1, <2>1 DEF TroubleChanges, LookedFor, Watched, Unsuppressed
    <2> QED BY <1>1, <2>1, <2>2 DEF TroubleChanges, TickIsHonest
  <1>2. CASE BeginTick
    <2>1. tick'.check = "search" /\ tick'.held = trouble BY <1>2 DEF BeginTick
    <2>2. LookedFor' = {} BY <2>1 DEF LookedFor
    <2> QED BY <1>2, <2>1, <2>2 DEF BeginTick, TickIsHonest
  <1>3. CASE CheckSearch \/ CheckDisk \/ CheckDocker \/ CheckSupplierFreshness
    <2>0. UNCHANGED <<script, trouble, ticks, marked, told, unheard>>
      BY <1>3 DEF CheckSearch, CheckDisk, CheckDocker, CheckSupplierFreshness
    <2>r. ASSUME NEW keys, NEW next, Raised(keys, next)
          PROVE  /\ tick'.check = next /\ tick'.held = tick.held
                 /\ tick'.alerts = tick.alerts \cup (keys \cap Troubles)
      BY <2>r, <1>b DEF Raised, TickRow
    <2>1. tick'.held = tick.held /\ tick.alerts \subseteq tick'.alerts
      BY <1>3, <2>r DEF CheckSearch, CheckDisk, CheckDocker, CheckSupplierFreshness
    <2>2. /\ tick'.check \in {"disk", "docker", "supplier", "tell"}
          /\ tick'.check \in {"disk", "docker", "supplier"} => script.local
      BY <1>3, <2>r DEF CheckSearch, CheckDisk, CheckDocker, CheckSupplierFreshness, TickIsHonest
    <2>3. ASSUME script.of = "deno" PROVE tick'.held \cap LookedFor' \subseteq tick'.alerts
      <3>0. tick.held \cap LookedFor \subseteq tick.alerts BY <2>3 DEF TickIsHonest
      <3>1. CASE CheckSearch
        <4>1. /\ tick.held \cap {"search"} \subseteq tick'.alerts
              /\ tick'.check = IF script.local THEN "disk" ELSE "tell"
          BY <3>1, <2>3, <2>r, <1>b DEF CheckSearch, TickIsHonest
        <4> QED BY <4>1, <2>0, <2>1 DEF LookedFor, Watched
      <3>2. CASE CheckDisk
        <4>1. tick.held \cap {"disk"} \subseteq tick'.alerts /\ tick'.check = "docker"
          BY <3>2, <2>r, <1>b DEF CheckDisk, TickIsHonest
        <4>2. LookedFor = {"search"} /\ LookedFor' = {"search", "disk"}
          BY <4>1, <3>2 DEF CheckDisk, LookedFor
        <4> QED BY <4>1, <4>2, <3>0, <2>1
      <3>3. CASE CheckDocker
        <4>1. tick.held \cap {"docker"} \subseteq tick'.alerts /\ tick'.check = "supplier"
          BY <3>3, <2>r, <1>b DEF CheckDocker, TickIsHonest
        <4>2. LookedFor = {"search", "disk"} /\ LookedFor' = {"search", "disk", "docker"}
          BY <4>1, <3>3 DEF CheckDocker, LookedFor
        <4> QED BY <4>1, <4>2, <3>0, <2>1
      <3>4. CASE CheckSupplierFreshness
        <4>1. tick.held \cap {"supplier"} \subseteq tick'.alerts /\ tick'.check = "tell"
          BY <3>4, <2>r, <1>b DEF CheckSupplierFreshness, TickIsHonest
        <4>2. LookedFor = {"search", "disk", "docker"} /\ LookedFor' = Watched' \ {"backup"}
          BY <4>1, <3>4 DEF CheckSupplierFreshness, LookedFor
        <4>3. Watched' \subseteq {"search", "disk", "docker", "supplier", "backup"}
          BY <2>0, MonitorAssumption DEF Watched
        <4> QED BY <4>1, <4>2, <4>3, <3>0, <2>1
      <3> QED BY <1>3, <3>1, <3>2, <3>3, <3>4
    <2> QED BY <2>0, <2>1, <2>2, <2>3 DEF TickIsHonest
  <1>4. CASE ScriptEnds \/ WebhookRefuses \/ TickDies
    BY <1>4, <1>n DEF ScriptEnds, WebhookRefuses, TickDies, TickIsHonest
  <1>h. ASSUME tick.check = "tell", script.of = "deno", NEW k \in Unheard(told), k # "backup"
        PROVE  k \in Unsuppressed
    <2>1. k \in tick.held \cap Watched /\ ticks - told[k] >= Cooldown
      BY <1>h DEF Unheard
    <2>2. k \in tick.alerts /\ k \in Troubles
      BY <1>h, <2>1, <1>b DEF TickIsHonest, LookedFor
    <2>3. ticks - marked[k] >= Cooldown BY <2>1, <2>2 DEF TimesAreOrdered
    <2> QED BY <2>2, <2>3 DEF Unsuppressed
  <1>5. CASE NothingToTell BY <1>5, <1>n, <1>h DEF NothingToTell
  <1>6. CASE Tell
    <2>1. /\ tick'.check = "mark" /\ tick'.alerts = tick.alerts /\ tick'.held = tick.held
          /\ UNCHANGED <<script, trouble, ticks, marked>>
      BY <1>6, <1>b DEF Tell, TickRow
    <2>2. Unsuppressed' = Unsuppressed /\ LookedFor' = LookedFor
      BY <1>6, <2>1 DEF Tell, Unsuppressed, LookedFor, Watched
    <2>3. Unsuppressed \subseteq Troubles BY <1>b DEF Unsuppressed, TickRow
    <2>4. \A k \in Unsuppressed : told'[k] = ticks BY <1>6, <2>3 DEF Tell
    <2>5. ASSUME script.of = "deno", NEW k \in unheard', k # "backup" PROVE FALSE
      <3>1. k \in tick.held \cap Watched /\ ticks - told'[k] >= Cooldown
        BY <1>6, <2>5 DEF Tell, Unheard
      <3>2. k \in Troubles /\ k \notin Unsuppressed BY <3>1, <2>4, <1>b
      <3>3. told'[k] = told[k] BY <1>6, <3>2 DEF Tell
      <3> QED BY <3>1, <3>2, <3>3, <1>6, <2>5, <1>h DEF Unheard, Tell
    <2> QED BY <2>1, <2>2, <2>4, <2>5 DEF TickIsHonest
  <1>7. CASE WriteState BY <1>7, <1>n DEF WriteState, TickIsHonest
  <1>8. CASE StateLost BY <1>8, <1>n DEF StateLost, TickIsHonest
  <1>9. CASE UNCHANGED monitorVars
    <2>1. UNCHANGED <<LookedFor, Unsuppressed>>
      BY <1>9 DEF monitorVars, LookedFor, Watched, Unsuppressed
    <2> QED BY <1>9, <2>1 DEF monitorVars, TickIsHonest
  <1> QED BY <1>1, <1>2, <1>3, <1>4, <1>5, <1>6, <1>7, <1>8, <1>9 DEF MonitorNext

(* What is wrong throughout a tick of the counterpart is told by it or was *)
(* told within the cooldown, whatever the webhook, the file and the timer  *)
(* do (AlertsAreTold).                                                     *)
THEOREM TroubleIsTold == MonitorSpec => []MonitorInvariant
  <1>1. MonitorInit => MonitorInvariant
    BY MonitorAssumption
    DEF MonitorInit, MonitorInvariant, MonitorTypeOK, TimesAreOrdered, TickIsHonest, NoTick,
        LookedFor, Unsuppressed, Times, Never
  <1>2. MonitorInvariant /\ [MonitorNext]_monitorVars => MonitorInvariant'
    BY MonitorTypeStep, TickTimesStep, HonestStep DEF MonitorInvariant
  <1> QED BY <1>1, <1>2, PTL DEF MonitorSpec

LEMMA AlertsFollow == MonitorInvariant => AlertsAreTold
  BY DEF MonitorInvariant, TickIsHonest, TimesAreOrdered, AlertsAreTold
-----------------------------------------------------------------------------
(* Figures. What is remembered of the queries: each once, as sampled.      *)
RatioRow == [query: Asked, at: Moments, expiresAt: Nat]

EachOnce(cache) == \A i, j \in 1 .. Len(cache) : cache[i].query = cache[j].query => i = j

RatiosAreKept(cache) ==
    /\ cache \in Seq(RatioRow) /\ Len(cache) <= RatioMax /\ EachOnce(cache)
    /\ \A i \in 1 .. Len(cache) : cache[i].expiresAt = cache[i].at + RatioTTL

LEMMA FunctionsAreSequences ==
    ASSUME NEW S, NEW n \in Nat, NEW f \in [1 .. n -> S]
    PROVE  f \in Seq(S) /\ Len(f) = n
  OBVIOUS

(* Each query is listed once, so as many queries as rows are remembered.   *)
LEMMA QueriesAreCounted ==
    ASSUME NEW cache, cache \in Seq(RatioRow), EachOnce(cache)
    PROVE  Cardinality({ cache[i].query : i \in DOMAIN cache }) = Len(cache)
  <1> DEFINE queries == { cache[i].query : i \in DOMAIN cache }
             row == [i \in 1 .. Len(cache) |-> cache[i].query]
  <1>1. Len(cache) \in Nat /\ DOMAIN cache = 1 .. Len(cache) OBVIOUS
  <1>2. row \in [1 .. Len(cache) -> queries] BY <1>1
  <1>3. \A i, j \in 1 .. Len(cache) : row[i] = row[j] => i = j BY DEF EachOnce
  <1>4. \A q \in queries : \E i \in 1 .. Len(cache) : row[i] = q BY <1>1
  <1>5. row \in Bijection(1 .. Len(cache), queries)
    <2>1. row \in Injection(1 .. Len(cache), queries)
      BY <1>2, <1>3 DEF Injection, IsInjective
    <2>2. row \in Surjection(1 .. Len(cache), queries) BY <1>2, <1>4 DEF Surjection
    <2> QED BY <2>1, <2>2 DEF Bijection
  <1>6. IsFiniteSet(1 .. Len(cache)) /\ Cardinality(1 .. Len(cache)) = Len(cache)
    BY <1>1, FS_Interval
  <1> QED BY <1>5, <1>6, FS_Bijection DEF ExistsBijection

(* The oldest makes room for a query that is not there.                    *)
LEMMA RoomIsMade ==
    ASSUME NEW cache, RatiosAreKept(cache)
    PROVE  RatiosAreKept(RoomMade(cache)) /\ Len(RoomMade(cache)) < RatioMax
  <1>0. RatioMax \in Nat /\ RatioMax > 0 /\ Len(cache) \in Nat
    BY FiguresAssumption DEF RatiosAreKept
  <1>1. CASE Len(cache) < RatioMax BY <1>0, <1>1 DEF RoomMade
  <1>2. CASE ~(Len(cache) < RatioMax)
    <2>1. cache \in Seq(RatioRow) /\ cache # << >> /\ RoomMade(cache) = Tail(cache)
      BY <1>0, <1>2 DEF RatiosAreKept, RoomMade
    <2>2. /\ Tail(cache) \in Seq(RatioRow) /\ Len(Tail(cache)) = Len(cache) - 1
          /\ \A i \in 1 .. Len(Tail(cache)) : Tail(cache)[i] = cache[i + 1]
      BY <2>1, HeadTailProperties
    <2>3. \A i \in 1 .. Len(Tail(cache)) : i + 1 \in 1 .. Len(cache) BY <1>0, <2>2
    <2>4. EachOnce(Tail(cache))
      <3> SUFFICES ASSUME NEW i \in 1 .. Len(Tail(cache)), NEW j \in 1 .. Len(Tail(cache)),
                          Tail(cache)[i].query = Tail(cache)[j].query
                   PROVE  i = j
        BY DEF EachOnce
      <3>1. i + 1 = j + 1 BY <2>2, <2>3 DEF RatiosAreKept, EachOnce
      <3> QED BY <3>1
    <2> QED BY <1>0, <2>1, <2>2, <2>3, <2>4 DEF RatiosAreKept
  <1> QED BY <1>1, <1>2

LEMMA RatioIsSet ==
    ASSUME NEW cache, RatiosAreKept(cache), Len(cache) < RatioMax,
           NEW entry \in RatioRow, entry.expiresAt = entry.at + RatioTTL
    PROVE  RatiosAreKept(SetRatio(cache, entry))
  <1>0. /\ RatioMax \in Nat /\ Len(cache) \in Nat /\ DOMAIN cache = 1 .. Len(cache)
        /\ cache \in Seq(RatioRow) /\ \A i \in 1 .. Len(cache) : cache[i] \in RatioRow
    BY FiguresAssumption DEF RatiosAreKept
  <1>1. CASE \E i \in DOMAIN cache : cache[i].query = entry.query
    <2> DEFINE new == [i \in 1 .. Len(cache) |->
                          IF cache[i].query = entry.query THEN entry ELSE cache[i]]
    <2>1. new \in [1 .. Len(cache) -> RatioRow] BY <1>0
    <2>2. new \in Seq(RatioRow) /\ Len(new) = Len(cache)
      BY <1>0, <2>1, FunctionsAreSequences
    <2>3. SetRatio(cache, entry) = new BY <1>0, <1>1 DEF SetRatio
    <2>4. \A i \in 1 .. Len(cache) :
             /\ new[i].query = cache[i].query
             /\ new[i].expiresAt = new[i].at + RatioTTL
      BY <1>0 DEF RatiosAreKept
    <2> HIDE DEF new
    <2> QED BY <2>2, <2>3, <2>4 DEF RatiosAreKept, EachOnce
  <1>2. CASE ~\E i \in DOMAIN cache : cache[i].query = entry.query
    <2>1. SetRatio(cache, entry) = Append(cache, entry) BY <1>2 DEF SetRatio
    <2>2. /\ Append(cache, entry) \in Seq(RatioRow)
          /\ Len(Append(cache, entry)) = Len(cache) + 1
          /\ \A i \in 1 .. Len(cache) : Append(cache, entry)[i] = cache[i]
          /\ Append(cache, entry)[Len(cache) + 1] = entry
      BY <1>0, AppendProperties
    <2>3. \A i \in 1 .. Len(cache) + 1 : i \in 1 .. Len(cache) \/ i = Len(cache) + 1
      BY <1>0
    <2>4. EachOnce(Append(cache, entry))
      BY <1>0, <1>2, <2>2, <2>3 DEF EachOnce, RatiosAreKept
    <2> QED BY <1>0, <2>1, <2>2, <2>3, <2>4 DEF RatiosAreKept
  <1> QED BY <1>1, <1>2

(* Why no figure outlives its life: what is remembered says when it was    *)
(* true, never later than now, and how long it is remembered from then; a  *)
(* copy from the disk from the beginning of this process.                  *)
FiguresAreDated ==
    /\ moment \in Moments /\ started \in Moments /\ started <= moment
    /\ statsFile \in 0 .. LastMoment /\ statsFile <= moment
    /\ persisting \in 0 .. LastMoment /\ persisting <= moment
    /\ statsInFlight \in [computing : BOOLEAN, waits : BOOLEAN]
    /\ shown \in [what: {"nothing", "stats", "disk", "ratio", "preview"},
                  at: 0 .. LastMoment, when: 0 .. LastMoment]
    /\ shown.when <= moment

StatsAreDated ==
    /\ cachedStats \in [at: 0 .. LastMoment, expiresAt: Nat] /\ cachedStats.at <= moment
    /\ cachedStats.at # 0 =>
          cachedStats.expiresAt <=
             (IF cachedStats.at < started THEN started ELSE cachedStats.at) + StatsTTL

SamplesAreDated ==
    /\ sampling \subseteq Asked \X Moments
    /\ \A s \in sampling : s[2] <= moment
    /\ \A d \in DOMAIN previews :
          previews[d].at \in Moments /\ previews[d].expiresAt = previews[d].at + PreviewTTL

ShownIsRecent ==
    /\ shown.what = "stats" => shown.at = 0 \/ shown.when - shown.at <= StatsTTL
    /\ shown.what = "disk" => shown.when - started <= StatsTTL \/ shown.when < started
    /\ shown.what = "ratio" => shown.when - shown.at <= RatioTTL
    /\ shown.what = "preview" => shown.when - shown.at <= PreviewTTL

FiguresInvariant ==
    FiguresAreDated /\ StatsAreDated /\ SamplesAreDated /\ RatiosAreKept(ratioCache) /\ ShownIsRecent

LEMMA FigureNumbers ==
    ASSUME FiguresInvariant
    PROVE  /\ moment \in Nat /\ moment >= 1 /\ moment <= LastMoment /\ LastMoment \in Nat
           /\ started \in Nat /\ started >= 1 /\ started <= moment
           /\ StatsTTL \in Nat /\ RatioTTL \in Nat /\ PreviewTTL \in Nat
           /\ shown.at \in Nat /\ shown.when \in Nat /\ shown.when <= moment
           /\ cachedStats.at \in Nat /\ cachedStats.expiresAt \in Nat
  BY FiguresAssumption DEF FiguresInvariant, FiguresAreDated, StatsAreDated, Moments

(* What keeps each part.                                                   *)
LEMMA StatsRest ==
    ASSUME StatsAreDated, moment' >= moment, moment \in Nat, moment' \in Nat,
           UNCHANGED <<started, cachedStats>>
    PROVE  StatsAreDated'
  BY FiguresAssumption DEF StatsAreDated

LEMMA SamplesRest ==
    ASSUME SamplesAreDated, moment' >= moment, moment \in Nat, moment' \in Nat,
           sampling' \subseteq sampling, UNCHANGED previews
    PROVE  SamplesAreDated'
  BY FiguresAssumption DEF SamplesAreDated, Moments

LEMMA TimeKeepsFigures ==
    ASSUME FiguresInvariant, TimePasses
    PROVE  FiguresInvariant'
  <1> USE FigureNumbers DEF FiguresInvariant
  <1>1. moment' \in Moments /\ moment' = moment + 1 /\ moment' >= moment /\ moment' \in Nat
    BY DEF TimePasses, Moments
  <1>2. FiguresAreDated' BY <1>1 DEF TimePasses, processVars, FiguresAreDated
  <1>3. StatsAreDated' /\ SamplesAreDated'
    BY <1>1, StatsRest, SamplesRest DEF TimePasses, processVars
  <1>4. RatiosAreKept(ratioCache)' /\ ShownIsRecent'
    BY DEF TimePasses, processVars, ShownIsRecent
  <1> QED BY <1>2, <1>3, <1>4

LEMMA RestartKeepsFigures ==
    ASSUME FiguresInvariant, RestartWeb
    PROVE  FiguresInvariant'
  <1> USE FigureNumbers DEF FiguresInvariant
  <1>0. moment' = moment /\ started' = moment /\ shown' = shown BY DEF RestartWeb
  <1>1. statsFile' \in 0 .. LastMoment /\ statsFile' <= moment
    BY DEF RestartWeb, FiguresAreDated
  <1>2. FiguresAreDated' BY <1>0, <1>1 DEF RestartWeb, FiguresAreDated
  <1>3. StatsAreDated' BY <1>0, <1>1 DEF RestartWeb, Loaded, NoFigure, StatsAreDated
  <1>4. SamplesAreDated' BY DEF RestartWeb, SamplesAreDated
  <1>5. ratioCache' = << >> BY DEF RestartWeb
  <1>6. RatiosAreKept(ratioCache)'
    BY <1>5, FiguresAssumption DEF RatiosAreKept, EachOnce
  <1>7. ShownIsRecent' BY <1>0 DEF ShownIsRecent
  <1> QED BY <1>2, <1>3, <1>4, <1>6, <1>7

LEMMA FlightIsTyped ==
    /\ \A a, b \in {TRUE, FALSE} :
          [computing |-> a, waits |-> b] \in [computing : BOOLEAN, waits : BOOLEAN]
    /\ \A f \in [computing : BOOLEAN, waits : BOOLEAN] :
          [f EXCEPT !.computing = TRUE] \in [computing : BOOLEAN, waits : BOOLEAN]
  OBVIOUS

LEMMA StatsKeepFigures ==
    ASSUME FiguresInvariant, StatsNext
    PROVE  FiguresInvariant'
  <1> USE FigureNumbers DEF FiguresInvariant
  <1>1. CASE TimePasses \/ RestartWeb BY <1>1, TimeKeepsFigures, RestartKeepsFigures
  <1>2. CASE RefreshTimer \/ StatsFail
    <2>1. statsInFlight' \in [computing : BOOLEAN, waits : BOOLEAN]
      <3>1. \/ statsInFlight' = [statsInFlight EXCEPT !.computing = TRUE]
            \/ statsInFlight' = [computing |-> FALSE, waits |-> FALSE]
        BY <1>2 DEF RefreshTimer, StatsFail
      <3>2. statsInFlight \in [computing : BOOLEAN, waits : BOOLEAN]
        BY DEF FiguresAreDated
      <3>3. [statsInFlight EXCEPT !.computing = TRUE] \in [computing : BOOLEAN, waits : BOOLEAN]
        BY <3>2, FlightIsTyped
      <3>4. [computing |-> FALSE, waits |-> FALSE] \in [computing : BOOLEAN, waits : BOOLEAN]
        BY FlightIsTyped
      <3> QED BY <3>1, <3>3, <3>4
    <2>2. FiguresAreDated' BY <1>2, <2>1 DEF RefreshTimer, StatsFail, FiguresAreDated
    <2> QED BY <1>2, <2>2, StatsRest, SamplesRest DEF RefreshTimer, StatsFail, ShownIsRecent
  <1>3. CASE AskStats
    <2>1. CASE FreshCached
      <3>1. shown' = [what |-> IF cachedStats.at < started THEN "disk" ELSE "stats",
                      at |-> cachedStats.at, when |-> moment]
        BY <1>3, <2>1 DEF AskStats
      <3>2. cachedStats.at \in 0 .. LastMoment /\ moment \in 0 .. LastMoment
        BY DEF StatsAreDated
      <3>3. shown' \in [what: {"nothing", "stats", "disk", "ratio", "preview"},
                        at: 0 .. LastMoment, when: 0 .. LastMoment]
        BY <3>1, <3>2
      <3>4. /\ shown'.what = (IF cachedStats.at < started THEN "disk" ELSE "stats")
            /\ shown'.at = cachedStats.at /\ shown'.when = moment
        BY <3>1
      <3>5. FiguresAreDated' BY <1>3, <2>1, <3>3, <3>4 DEF AskStats, FiguresAreDated
      <3>6. /\ cachedStats.at # 0 /\ moment < cachedStats.expiresAt
            /\ UNCHANGED <<moment, started, sampling, previews, cachedStats, ratioCache>>
        BY <1>3, <2>1 DEF AskStats, FreshCached
      <3>7. ShownIsRecent' BY <3>4, <3>6 DEF ShownIsRecent, StatsAreDated
      <3> QED BY <3>5, <3>6, <3>7, StatsRest, SamplesRest
    <2>2. CASE ~FreshCached
      <3>0. statsInFlight' = [computing |-> TRUE, waits |-> TRUE] /\ shown' = shown
        BY <1>3, <2>2 DEF AskStats
      <3>1. statsInFlight' \in [computing : BOOLEAN, waits : BOOLEAN] /\ shown' = shown
        BY <3>0, FlightIsTyped
      <3>2. FiguresAreDated' BY <1>3, <3>1 DEF AskStats, FiguresAreDated
      <3> QED BY <1>3, <3>1, <3>2, StatsRest, SamplesRest DEF AskStats, ShownIsRecent
    <2> QED BY <2>1, <2>2
  <1>4. ASSUME NEW found \in BOOLEAN, StatsComputed(found) PROVE FiguresInvariant'
    <2>0. /\ UNCHANGED <<moment, started, statsFile, ratioCache, sampling, previews>>
          /\ moment \in 0 .. LastMoment /\ 0 \in 0 .. LastMoment
      BY <1>4 DEF StatsComputed
    <2>2. /\ shown' \in [what: {"nothing", "stats", "disk", "ratio", "preview"},
                         at: 0 .. LastMoment, when: 0 .. LastMoment]
          /\ shown'.when <= moment /\ ShownIsRecent'
      <3>1. CASE statsInFlight.waits
        <4>1. shown' = [what |-> "stats", when |-> moment, at |-> IF found THEN moment ELSE 0]
          BY <1>4, <3>1 DEF StatsComputed
        <4>2. shown' \in [what: {"nothing", "stats", "disk", "ratio", "preview"},
                          at: 0 .. LastMoment, when: 0 .. LastMoment]
          BY <2>0, <4>1
        <4>3. shown'.what = "stats" /\ shown'.when = moment /\ shown'.at \in {0, moment}
          BY <4>1
        <4> QED BY <4>2, <4>3 DEF ShownIsRecent
      <3>2. CASE ~statsInFlight.waits
        BY <1>4, <3>2, <2>0 DEF StatsComputed, ShownIsRecent, FiguresAreDated
      <3> QED BY <3>1, <3>2
    <2>3. statsInFlight' \in [computing : BOOLEAN, waits : BOOLEAN]
      BY <1>4 DEF StatsComputed
    <2>4. persisting' \in {persisting, moment} BY <1>4 DEF StatsComputed
    <2>5. FiguresAreDated' BY <2>0, <2>2, <2>3, <2>4 DEF FiguresAreDated
    <2>6. StatsAreDated'
      <3>1. CASE found
        <4>1. cachedStats' = [at |-> moment, expiresAt |-> moment + StatsTTL]
          BY <1>4, <3>1 DEF StatsComputed
        <4> QED BY <2>0, <4>1 DEF StatsAreDated
      <3>2. CASE ~found BY <1>4, <3>2, <2>0, StatsRest DEF StatsComputed
      <3> QED BY <3>1, <3>2
    <2> QED BY <2>0, <2>2, <2>5, <2>6, SamplesRest
  <1>5. ASSUME NEW written \in BOOLEAN, StatsPersisted(written) PROVE FiguresInvariant'
    <2>1. FiguresAreDated' BY <1>5 DEF StatsPersisted, FiguresAreDated
    <2> QED BY <1>5, <2>1, StatsRest, SamplesRest DEF StatsPersisted, ShownIsRecent
  <1> QED BY <1>1, <1>2, <1>3, <1>4, <1>5 DEF StatsNext

LEMMA RatioRows ==
    ASSUME NEW cache, RatiosAreKept(cache), NEW i \in DOMAIN cache
    PROVE  i \in 1 .. Len(cache) /\ cache[i] \in RatioRow
  BY DEF RatiosAreKept

LEMMA RatiosKeepFigures ==
    ASSUME FiguresInvariant, RatioNext
    PROVE  FiguresInvariant'
  <1> USE FigureNumbers DEF FiguresInvariant
  <1>1. CASE TimePasses \/ RestartWeb BY <1>1, TimeKeepsFigures, RestartKeepsFigures
  (* A figure of the queries that is shown.                                *)
  <1>r. ASSUME NEW from \in Moments, NEW when \in Moments, when <= moment, when <= from + RatioTTL,
               shown' = [what |-> "ratio", when |-> when, at |-> from],
               UNCHANGED <<moment, started, statsFile, persisting, statsInFlight>>
        PROVE  FiguresAreDated' /\ ShownIsRecent'
    <2>1. from \in 0 .. LastMoment /\ when \in 0 .. LastMoment BY DEF Moments
    <2>2. shown' \in [what: {"nothing", "stats", "disk", "ratio", "preview"},
                      at: 0 .. LastMoment, when: 0 .. LastMoment]
      BY <1>r, <2>1
    <2>3. shown'.what = "ratio" /\ shown'.when = when /\ shown'.at = from BY <1>r
    <2> QED BY <1>r, <2>1, <2>2, <2>3 DEF FiguresAreDated, ShownIsRecent
  <1>2. ASSUME NEW q \in Asked, AskRatio(q) PROVE FiguresInvariant'
    <2>0. UNCHANGED <<moment, started, statsFile, cachedStats, statsInFlight, persisting,
                      ratioCache, previews>>
      BY <1>2 DEF AskRatio
    <2>1. CASE FreshRatios(q) # {}
      <3> DEFINE i == CHOOSE i \in FreshRatios(q) : TRUE
      <3>1. i \in FreshRatios(q) BY <2>1
      <3>2. i \in DOMAIN ratioCache /\ ratioCache[i].expiresAt > moment
        BY <3>1 DEF FreshRatios, Remembered
      <3>3. /\ ratioCache[i].at \in Moments
            /\ ratioCache[i].expiresAt = ratioCache[i].at + RatioTTL
        BY <3>2, RatioRows DEF RatiosAreKept, RatioRow
      <3>4. /\ shown' = [what |-> "ratio", when |-> moment, at |-> ratioCache[i].at]
            /\ sampling' = sampling
        BY <1>2, <2>1 DEF AskRatio
      <3> HIDE DEF i
      <3>5. moment \in Moments /\ moment <= ratioCache[i].at + RatioTTL
        BY <3>2, <3>3 DEF FiguresAreDated, Moments
      <3>6. FiguresAreDated' /\ ShownIsRecent' BY <1>r, <2>0, <3>3, <3>4, <3>5
      <3> QED BY <2>0, <3>4, <3>6, StatsRest, SamplesRest
    <2>2. CASE FreshRatios(q) = {}
      <3>1. sampling' = sampling \cup {<<q, moment>>} /\ shown' = shown
        BY <1>2, <2>2 DEF AskRatio
      <3>2. <<q, moment>> \in Asked \X Moments /\ <<q, moment>>[2] = moment
        BY DEF FiguresAreDated
      <3>3. SamplesAreDated' BY <2>0, <3>1, <3>2 DEF SamplesAreDated
      <3> QED BY <2>0, <3>1, <3>3, StatsRest DEF FiguresAreDated, ShownIsRecent
    <2> QED BY <2>1, <2>2
  <1>3. ASSUME NEW s \in Asked \X Moments, SampleTaken(s) PROVE FiguresInvariant'
    <2>0. /\ UNCHANGED <<moment, started, statsFile, cachedStats, statsInFlight, persisting, previews>>
          /\ s[1] \in Asked /\ s[2] \in Moments /\ s \in sampling
      BY <1>3 DEF SampleTaken
    <2>1. s[2] <= moment /\ s[2] <= s[2] + RatioTTL BY <2>0 DEF SamplesAreDated, Moments
    <2>2. FiguresAreDated' /\ ShownIsRecent'
      <3>1. shown' = [what |-> "ratio", when |-> s[2], at |-> s[2]]
        BY <1>3 DEF SampleTaken
      <3> QED BY <1>r, <2>0, <2>1, <3>1
    <2> DEFINE entry == [query |-> s[1], at |-> s[2], expiresAt |-> s[2] + RatioTTL]
    <2>3. entry \in RatioRow /\ entry.expiresAt = entry.at + RatioTTL
      BY <2>0 DEF RatioRow, Moments
    <2>4. ratioCache' = SetRatio(RoomMade(ratioCache), entry) BY <1>3 DEF SampleTaken
    <2> HIDE DEF entry
    <2>5. RatiosAreKept(ratioCache') BY <2>3, <2>4, RoomIsMade, RatioIsSet
    <2>6. SamplesAreDated' BY <1>3, <2>0, SamplesRest DEF SampleTaken
    <2>7. RatiosAreKept(ratioCache)' BY <2>5 DEF RatiosAreKept, EachOnce, RatioRow
    <2> QED BY <2>0, <2>2, <2>6, <2>7, StatsRest
  <1>4. ASSUME NEW s \in Asked \X Moments, SampleFails(s) PROVE FiguresInvariant'
    BY <1>4, StatsRest, SamplesRest DEF SampleFails, FiguresAreDated, ShownIsRecent
  <1> QED BY <1>1, <1>2, <1>3, <1>4 DEF RatioNext

LEMMA PreviewsKeepFigures ==
    ASSUME FiguresInvariant, PreviewNext
    PROVE  FiguresInvariant'
  <1> USE FigureNumbers DEF FiguresInvariant
  <1>1. CASE TimePasses \/ RestartWeb BY <1>1, TimeKeepsFigures, RestartKeepsFigures
  <1>2. ASSUME NEW d \in Asked, NEW there \in BOOLEAN, AskPreview(d, there) PROVE FiguresInvariant'
    <2> DEFINE promise == IF d \in DOMAIN previews /\ previews[d].expiresAt > moment
                          THEN previews[d]
                          ELSE [at |-> moment, there |-> there, expiresAt |-> moment + PreviewTTL]
    <2>0. UNCHANGED <<moment, started, statsFile, cachedStats, statsInFlight, persisting,
                      ratioCache, sampling>>
      BY <1>2 DEF AskPreview
    <2>1. /\ promise.at \in Moments /\ promise.expiresAt = promise.at + PreviewTTL
          /\ moment <= promise.expiresAt
      <3>1. CASE d \in DOMAIN previews /\ previews[d].expiresAt > moment
        <4>1. promise = previews[d] BY <3>1
        <4>2. previews[d].at \in Moments /\ previews[d].expiresAt = previews[d].at + PreviewTTL
          BY <3>1 DEF SamplesAreDated
        <4>3. moment <= previews[d].at + PreviewTTL BY <3>1, <4>2 DEF Moments
        <4> QED BY <4>1, <4>2, <4>3
      <3>2. CASE ~(d \in DOMAIN previews /\ previews[d].expiresAt > moment)
        <4>1. promise = [at |-> moment, there |-> there, expiresAt |-> moment + PreviewTTL]
          BY <3>2
        <4>2. promise.at = moment /\ promise.expiresAt = moment + PreviewTTL BY <4>1
        <4> QED BY <4>2 DEF FiguresAreDated
      <3> QED BY <3>1, <3>2
    <2>2. /\ previews' = [x \in DOMAIN previews \cup {d} |-> IF x = d THEN promise ELSE previews[x]]
          /\ shown' = [what |-> "preview", at |-> promise.at, when |-> moment]
      BY <1>2 DEF AskPreview
    <2> HIDE DEF promise
    <2>3. SamplesAreDated' BY <2>0, <2>1, <2>2 DEF SamplesAreDated
    <2>4. promise.at \in 0 .. LastMoment /\ moment \in 0 .. LastMoment
      BY <2>1 DEF Moments
    <2>5. shown' \in [what: {"nothing", "stats", "disk", "ratio", "preview"},
                      at: 0 .. LastMoment, when: 0 .. LastMoment]
      BY <2>2, <2>4
    <2>6. shown'.what = "preview" /\ shown'.when = moment /\ shown'.at = promise.at
      BY <2>2
    <2>7. FiguresAreDated' /\ ShownIsRecent'
      BY <2>0, <2>1, <2>4, <2>5, <2>6 DEF FiguresAreDated, ShownIsRecent
    <2> QED BY <2>0, <2>3, <2>7, StatsRest
  <1> QED BY <1>1, <1>2 DEF PreviewNext

(* No figure is shown for longer than it is remembered, and what is        *)
(* remembered is bounded (FiguresAreRecent), for any lives and any number  *)
(* of queries, however often the process is restarted.                     *)
THEOREM FiguresAreDatedAndBounded == FiguresSpec => []FiguresInvariant
  <1>1. FiguresInit => FiguresInvariant
    <2> SUFFICES ASSUME FiguresInit PROVE FiguresInvariant OBVIOUS
    <2>0. ratioCache = << >> /\ LastMoment \in Nat BY FiguresAssumption DEF FiguresInit
    <2>1. RatiosAreKept(ratioCache)
      BY <2>0, FiguresAssumption DEF RatiosAreKept, EachOnce
    <2>2. FiguresAreDated
      BY FiguresAssumption DEF FiguresInit, FiguresAreDated, Moments, NoShown
    <2>3. StatsAreDated /\ SamplesAreDated /\ ShownIsRecent
      BY FiguresAssumption
      DEF FiguresInit, StatsAreDated, SamplesAreDated, ShownIsRecent, NoFigure, NoShown
    <2> QED BY <2>1, <2>2, <2>3 DEF FiguresInvariant
  <1>2. FiguresInvariant /\ [FiguresNext]_figuresVars => FiguresInvariant'
    <2> SUFFICES ASSUME FiguresInvariant, [FiguresNext]_figuresVars PROVE FiguresInvariant'
      OBVIOUS
    <2>1. CASE UNCHANGED figuresVars
      BY <2>1 DEF figuresVars, FiguresInvariant, FiguresAreDated, StatsAreDated, SamplesAreDated,
                  ShownIsRecent
    <2> QED BY <2>1, StatsKeepFigures, RatiosKeepFigures, PreviewsKeepFigures DEF FiguresNext
  <1> QED BY <1>1, <1>2, PTL DEF FiguresSpec

LEMMA FiguresFollow == FiguresInvariant => FiguresAreRecent
  <1> SUFFICES ASSUME FiguresInvariant PROVE FiguresAreRecent OBVIOUS
  <1>1. Cardinality({ ratioCache[i].query : i \in DOMAIN ratioCache }) = Len(ratioCache)
    BY QueriesAreCounted DEF FiguresInvariant, RatiosAreKept
  <1> QED BY <1>1 DEF FiguresInvariant, RatiosAreKept, ShownIsRecent, FiguresAreRecent
-----------------------------------------------------------------------------
(* CoverageCheck. Why a check without reserve has asked for everything: as *)
(* long as there is no warning, what hangs on the items of the phase is    *)
(* listed or still to be asked for.                                        *)
Phases == {"none", "types", "meetings", "details", "lists", "entries", "compare"}
CheckRow == [phase: Phases, again: BOOLEAN, todo: SUBSET (SiteMeetings \cup SiteLists \cup AllEntries),
             listed: SUBSET SiteDocuments, warnings: Nat,
             unsaid: SUBSET (SiteMeetings \cup AllEntries)]
CheckOutcomes == [error: BOOLEAN, listed: SUBSET SiteDocuments, missing: SUBSET SiteDocuments,
             warnings: Nat, unsaid: SUBSET (SiteMeetings \cup AllEntries)]

CoverageRows ==
    /\ siteOf \in Suppliers /\ holding \subseteq SiteDocuments
    /\ check \in CheckRow /\ checks \in Seq(CheckOutcomes)
    /\ \A n \in DOMAIN checks : checks[n].missing \subseteq checks[n].listed
    /\ everHeld \subseteq wereHeld /\ wereHeld \subseteq SiteDocuments

(* Everything of a set of items is listed, but for what an answer left out *)
(* unsaid, and for what is to be asked.                                    *)
AllListed(c, items) == \A x \in items \ c.unsaid : ShownOn[x] \subseteq c.listed
ListedBut(c, items) == AllListed(c, items \ c.todo)

RowIsHonest(c) ==
    /\ c.phase \in {"lists", "entries"} => siteOf \in WithLists
    /\ c.listed \subseteq OurDocuments
    /\ c.phase = "details" => c.todo \subseteq OurMeetings
    /\ c.phase = "entries" => c.todo \subseteq (SiteLists \ NotOurs) \cup OurEntries

RowSkipsNothing(c) ==
    c.warnings = 0 =>
        /\ c.phase = "details" => ListedBut(c, OurMeetings)
        /\ c.phase \in {"lists", "entries"} => AllListed(c, OurMeetings)
        /\ c.phase = "entries" =>
              \A k \in SiteLists \ NotOurs :
                  k \in c.todo \/ ListedBut(c, SiteEntries[k] \ NotOurs)
        /\ c.phase = "compare" => AllListed(c, OurItems)

HoldingIsFollowed ==
    /\ check.phase = "none" <=> check = NoCheck
    /\ check.phase # "none" => everHeld \subseteq holding /\ holding \subseteq wereHeld

CoverageInvariant ==
    /\ CoverageRows /\ HoldingIsFollowed
    /\ RowIsHonest(check) /\ RowSkipsNothing(check)
    /\ CoverageIsTrue

LEMMA DocumentsAreOn ==
    /\ \A items, d : d \in DocumentsOn(items) <=> \E x \in items : d \in ShownOn[x]
    /\ OurDocuments = DocumentsOn(OurItems)
    /\ OurDocuments \subseteq SiteDocuments
    /\ OurItems \subseteq SiteMeetings \cup AllEntries
  <1>1. \A items, d : d \in DocumentsOn(items) <=> \E x \in items : d \in ShownOn[x]
    BY DEF DocumentsOn
  <1>3. OurDocuments = DocumentsOn(OurItems) BY DEF OurDocuments
  <1>4. OurItems \subseteq SiteMeetings \cup AllEntries
    BY DEF OurItems, OurMeetings, OurEntries, AllEntries
  <1>5. OurDocuments \subseteq SiteDocuments BY <1>1, <1>3, <1>4 DEF SiteDocuments
  <1> QED BY <1>1, <1>3, <1>4, <1>5

(* A request of the check that is answered, or is not, but does not end it. *)
LEMMA CheckGoes ==
    ASSUME CoverageInvariant, NEW to \in CheckRow, Goes(to), to.phase # "none",
           check.phase # "none", RowIsHonest(to), RowSkipsNothing(to)
    PROVE  CoverageInvariant'
  <1>1. /\ check' = to /\ UNCHANGED <<siteOf, holding, checks, wereHeld, everHeld>>
        /\ NoCheck.phase = "none"
    BY DEF Goes, NoCheck
  <1>2. CoverageRows' BY <1>1 DEF CoverageInvariant, CoverageRows
  <1>3. CoverageIsTrue' /\ HoldingIsFollowed'
    BY <1>1 DEF CoverageInvariant, CoverageIsTrue, HoldingIsFollowed
  <1>4. UNCHANGED <<OurItems, OurMeetings, OurEntries, OurDocuments>>
    BY <1>1 DEF OurItems, OurMeetings, OurEntries, OurDocuments
  <1>5. RowIsHonest(check)' /\ RowSkipsNothing(check)'
    BY <1>1, <1>4 DEF RowIsHonest, RowSkipsNothing, ListedBut, AllListed
  <1> QED BY <1>2, <1>3, <1>5 DEF CoverageInvariant

(* What the steps of a check make of its record.                           *)
LEMMA CheckRows ==
    ASSUME NEW c \in CheckRow
    PROVE  /\ \A p \in Phases : [c EXCEPT !.phase = p] \in CheckRow
           /\ Warned(c) \in CheckRow /\ Warned(c).warnings > 0
           /\ Warned(c).listed = c.listed /\ Warned(c).todo = c.todo /\ Warned(c).phase = c.phase
           /\ Warned(c).unsaid = c.unsaid
           /\ \A items \in SUBSET (SiteMeetings \cup AllEntries) :
                 /\ Unsaid(c, items) \in CheckRow
                 /\ Unsaid(c, items).unsaid = c.unsaid \cup items
                 /\ Unsaid(c, items).listed = c.listed /\ Unsaid(c, items).todo = c.todo
                 /\ Unsaid(c, items).phase = c.phase /\ Unsaid(c, items).warnings = c.warnings
           /\ \A todo \in SUBSET (SiteMeetings \cup SiteLists \cup AllEntries) :
                 /\ [c EXCEPT !.todo = todo] \in CheckRow
                 /\ \A p \in Phases : [c EXCEPT !.phase = p, !.todo = todo] \in CheckRow
           /\ NoCheck \in CheckRow
  <1>1. /\ Warned(c) \in CheckRow /\ Warned(c).warnings > 0
        /\ Warned(c).listed = c.listed /\ Warned(c).todo = c.todo /\ Warned(c).phase = c.phase
        /\ Warned(c).unsaid = c.unsaid
    BY DEF CheckRow, Warned
  <1>2. ASSUME NEW items \in SUBSET (SiteMeetings \cup AllEntries)
        PROVE  /\ Unsaid(c, items) \in CheckRow
               /\ Unsaid(c, items).unsaid = c.unsaid \cup items
               /\ Unsaid(c, items).listed = c.listed /\ Unsaid(c, items).todo = c.todo
               /\ Unsaid(c, items).phase = c.phase /\ Unsaid(c, items).warnings = c.warnings
    <2>1. PICK u \in SUBSET (SiteMeetings \cup AllEntries) : u = c.unsaid \cup items
      BY DEF CheckRow
    <2>2. Unsaid(c, items) = [c EXCEPT !.unsaid = u] BY <2>1 DEF Unsaid
    <2> QED BY <2>1, <2>2 DEF CheckRow
  <1>3. ASSUME NEW todo \in SUBSET (SiteMeetings \cup SiteLists \cup AllEntries)
        PROVE  /\ [c EXCEPT !.todo = todo] \in CheckRow
               /\ \A p \in Phases : [c EXCEPT !.phase = p, !.todo = todo] \in CheckRow
    BY DEF CheckRow
  <1>4. \A p \in Phases : [c EXCEPT !.phase = p] \in CheckRow BY DEF CheckRow
  <1>5. NoCheck \in CheckRow BY DEF CheckRow, NoCheck, Phases
  <1> QED BY <1>1, <1>2, <1>3, <1>4, <1>5

LEMMA ListedRows ==
    ASSUME NEW c \in CheckRow, NEW docs, docs \subseteq SiteDocuments
    PROVE  /\ Lists(c, docs) \in CheckRow
           /\ Lists(c, docs).listed = c.listed \cup docs
           /\ Lists(c, docs).todo = c.todo /\ Lists(c, docs).phase = c.phase
           /\ Lists(c, docs).warnings = c.warnings /\ Lists(c, docs).unsaid = c.unsaid
  BY DEF CheckRow, Lists

LEMMA HoldingKeeps ==
    ASSUME CoverageInvariant, NEW d \in SiteDocuments, HoldingChanges(d)
    PROVE  CoverageInvariant'
  <1> USE DEF CoverageInvariant
  <1>1. /\ UNCHANGED <<siteOf, check, checks>> /\ holding' \subseteq SiteDocuments
        /\ wereHeld' = wereHeld \cup holding' /\ everHeld' = everHeld \cap holding'
    BY DEF HoldingChanges, CoverageRows
  <1>2. CoverageRows' BY <1>1 DEF CoverageRows
  <1>3. UNCHANGED <<OurItems, OurMeetings, OurEntries, OurDocuments, PublishedCheck>>
    BY <1>1 DEF OurItems, OurMeetings, OurEntries, OurDocuments, PublishedCheck
  <1>4. HoldingIsFollowed' BY <1>1 DEF HoldingIsFollowed
  <1>5. RowIsHonest(check)' /\ RowSkipsNothing(check)'
    BY <1>1, <1>3 DEF RowIsHonest, RowSkipsNothing, ListedBut, AllListed
  <1>6. CoverageIsTrue' BY <1>1, <1>3 DEF CoverageIsTrue
  <1> QED BY <1>2, <1>4, <1>5, <1>6

LEMMA BeginKeepsCheck ==
    ASSUME CoverageInvariant, BeginCheck
    PROVE  CoverageInvariant'
  <1> USE DEF CoverageInvariant
  <1>0. check \in CheckRow /\ NoCheck \in CheckRow BY CheckRows DEF CoverageRows
  <1>1. /\ check' = Entered /\ UNCHANGED <<siteOf, holding, checks>>
        /\ wereHeld' = holding /\ everHeld' = holding
    BY DEF BeginCheck
  <1>2. /\ Entered \in CheckRow /\ Entered.phase \in {"types", "meetings"}
        /\ Entered.listed = {} /\ NoCheck.phase = "none"
    BY <1>0 DEF Entered, CheckRow, Phases, NoCheck
  <1>3. CoverageRows' BY <1>1, <1>2 DEF CoverageRows
  <1>4. HoldingIsFollowed' /\ CoverageIsTrue'
    BY <1>1, <1>2 DEF HoldingIsFollowed, CoverageIsTrue
  <1>5. RowIsHonest(check)' /\ RowSkipsNothing(check)'
    BY <1>1, <1>2 DEF RowIsHonest, RowSkipsNothing
  <1> QED BY <1>3, <1>4, <1>5

(* The outcome is about what was listed, or says nothing.                  *)
LEMMA RecordKeepsCheck ==
    ASSUME CoverageInvariant, NEW o \in CheckOutcomes, Recorded(o), check' = NoCheck,
           UNCHANGED <<siteOf, holding, wereHeld, everHeld>>,
           o.missing \subseteq o.listed, o.listed \subseteq OurDocuments,
           o.listed \ o.missing \subseteq wereHeld, o.missing \cap everHeld = {},
           o.error \/ o.warnings > 0 \/ DocumentsOn(OurItems \ o.unsaid) \subseteq o.listed
    PROVE  CoverageInvariant'
  <1> USE DEF CoverageInvariant
  <1>0. /\ checks \in Seq(CheckOutcomes) /\ checks' = Append(checks, o) /\ Len(checks) \in Nat
    BY DEF Recorded, CoverageRows
  <1>1. /\ checks' \in Seq(CheckOutcomes) /\ Len(checks') = Len(checks) + 1
        /\ \A i \in 1 .. Len(checks) : checks'[i] = checks[i]
        /\ checks'[Len(checks) + 1] = o
    BY <1>0, AppendProperties
  <1>2. checks'[Len(checks')] = o BY <1>1
  <1>3. \A n \in DOMAIN checks' : checks'[n].missing \subseteq checks'[n].listed
    <2>1. DOMAIN checks = 1 .. Len(checks) /\ DOMAIN checks' = 1 .. Len(checks) + 1
      BY <1>0, <1>1
    <2>2. \A n \in DOMAIN checks' : n \in DOMAIN checks \/ n = Len(checks) + 1
      BY <1>0, <2>1
    <2> QED BY <1>1, <2>1, <2>2 DEF CoverageRows
  <1>4. CoverageRows' BY <1>1, <1>3, CheckRows DEF CoverageRows
  <1>5. HoldingIsFollowed' /\ RowIsHonest(check)' /\ RowSkipsNothing(check)'
    BY DEF HoldingIsFollowed, RowIsHonest, RowSkipsNothing, NoCheck
  <1>6. UNCHANGED <<OurDocuments, OurItems>>
    BY DEF OurDocuments, OurItems, OurMeetings, OurEntries
  <1>7. PublishedCheck.lowerBound' = (o.error \/ o.warnings > 0)
    BY <1>2 DEF PublishedCheck
  <1>8. CoverageIsTrue' BY <1>2, <1>6, <1>7 DEF CoverageIsTrue
  <1> QED BY <1>4, <1>5, <1>8

LEMMA FailureKeepsCheck ==
    ASSUME CoverageInvariant, CheckFails
    PROVE  CoverageInvariant'
  <1>1. Failure \in CheckOutcomes BY DEF Failure, CheckOutcomes
  <1>2. Failure.error /\ Failure.listed = {} /\ Failure.missing = {} BY DEF Failure
  <1> QED BY <1>1, <1>2, RecordKeepsCheck DEF CheckFails

LEMMA TypesKeepCheck ==
    ASSUME CoverageInvariant, AskTypes
    PROVE  CoverageInvariant'
  <1> USE DEF CoverageInvariant
  <1>0. check \in CheckRow /\ check.phase = "types" /\ check.phase # "none"
    BY DEF AskTypes, CoverageRows
  <1>1. CASE CheckFails BY <1>1, FailureKeepsCheck
  <1>2. CASE ~CheckFails
    <2> DEFINE next == [check EXCEPT !.phase = "meetings"]
    <2>1. next \in CheckRow /\ next.phase = "meetings" /\ next.listed = check.listed
      BY <1>0 DEF CheckRow, Phases
    <2>2. PICK to \in {next, Warned(next)} : Goes(to) BY <1>2 DEF AskTypes
    <2> HIDE DEF next
    <2>3. to \in CheckRow /\ to.phase = "meetings" /\ to.listed = check.listed
      BY <2>1, CheckRows
    <2>4. RowIsHonest(to) /\ RowSkipsNothing(to)
      BY <2>3 DEF RowIsHonest, RowSkipsNothing
    <2> QED BY <1>0, <2>2, <2>3, <2>4, CheckGoes
  <1> QED BY <1>1, <1>2

(* The meetings are known but for those under the silent ones, and those   *)
(* of which nothing is said.                                               *)
LEMMA DetailsBegin ==
    ASSUME CoverageInvariant, check.phase = "meetings",
           NEW n \in Nat, NEW open \in SUBSET OurMeetings,
           NEW hidden \in SUBSET SiteMeetings, n = 0 => OurMeetings \subseteq open \cup hidden,
           Goes([Unsaid(check, hidden) EXCEPT !.phase = "details", !.todo = open, !.warnings = @ + n])
    PROVE  CoverageInvariant'
  <1>1. check \in CheckRow /\ open \in SUBSET (SiteMeetings \cup SiteLists \cup AllEntries)
    BY DEF CoverageInvariant, CoverageRows, OurMeetings
  <1>a. PICK c : c = Unsaid(check, hidden) OBVIOUS
  <1>b. /\ c \in CheckRow /\ c.unsaid = check.unsaid \cup hidden /\ c.listed = check.listed
        /\ c.warnings = check.warnings
    BY <1>1, <1>a, CheckRows
  <1>2. PICK to : to = [c EXCEPT !.phase = "details", !.todo = open, !.warnings = @ + n]
    OBVIOUS
  <1>3. /\ to \in CheckRow /\ to.phase = "details" /\ to.todo = open
        /\ to.listed = check.listed /\ to.warnings = check.warnings + n
        /\ to.unsaid = check.unsaid \cup hidden
    <2>1. PICK k : k = c.warnings + n OBVIOUS
    <2>2. k \in Nat /\ "details" \in Phases BY <1>b, <2>1 DEF CheckRow, Phases
    <2>3. to = [c EXCEPT !.phase = "details", !.todo = open, !.warnings = k]
      BY <1>2, <2>1
    <2>4. /\ to \in CheckRow /\ to.phase = "details" /\ to.todo = open
          /\ to.listed = c.listed /\ to.warnings = k /\ to.unsaid = c.unsaid
      BY <1>1, <1>b, <2>2, <2>3 DEF CheckRow
    <2> QED BY <1>b, <2>1, <2>4
  <1>4. to.warnings = 0 => n = 0 BY <1>1, <1>3 DEF CheckRow
  <1>5. RowIsHonest(to) /\ RowSkipsNothing(to)
    BY <1>3, <1>4 DEF CoverageInvariant, RowIsHonest, RowSkipsNothing, ListedBut, AllListed
  <1>6. Goes(to) BY <1>a, <1>2
  <1> QED BY <1>1, <1>3, <1>5, <1>6, CheckGoes

LEMMA MeetingsKeepCheck ==
    ASSUME CoverageInvariant, AskMeetings
    PROVE  CoverageInvariant'
  <1> USE DEF CoverageInvariant
  <1>0. check \in CheckRow /\ check.phase = "meetings" /\ check.phase # "none"
    BY DEF AskMeetings, CoverageRows
  <1>1. CASE CheckFails BY <1>1, FailureKeepsCheck
  <1>2. CASE siteOf = "ibabs" /\ ~check.again /\ Goes([Entered EXCEPT !.again = TRUE])
    <2> DEFINE to == [Entered EXCEPT !.again = TRUE]
    <2>1. to \in CheckRow /\ to.phase \in {"types", "meetings"} /\ to.listed = {}
      <3>1. PICK e : e = Entered OBVIOUS
      <3>2. e \in CheckRow /\ e.phase \in {"types", "meetings"} /\ e.listed = {}
        BY <3>1 DEF Entered, NoCheck, CheckRow, Phases
      <3> QED BY <3>1, <3>2 DEF CheckRow
    <2>2. RowIsHonest(to) /\ RowSkipsNothing(to)
      BY <2>1 DEF RowIsHonest, RowSkipsNothing
    <2> HIDE DEF to
    <2>3. Goes(to) BY <1>2 DEF to
    <2> QED BY <1>0, <2>1, <2>2, <2>3, CheckGoes
  <1>3. ASSUME NEW read \in TopsRead, NEW silent \in SUBSET Assemblies,
               NEW bare \in SUBSET Assemblies,
               Goes([Unsaid(check, SiteMeetings \ ((read \cup Under(read)) \ Under(silent \cup bare)))
                   EXCEPT
                   !.phase = "details",
                   !.todo = ((read \cup Under(read)) \ Under(silent \cup bare)) \ NotOurs,
                   !.warnings = @ + Cardinality(silent)])
        PROVE  CoverageInvariant'
    <2> DEFINE known == (read \cup Under(read)) \ Under(silent \cup bare)
    <2>1. silent \subseteq SiteMeetings BY <1>3 DEF Assemblies
    <2>2. Cardinality(silent) \in Nat
      BY <2>1, CoverageAssumption, FS_Subset, FS_CardinalityType
    <2>n. PICK n \in Nat : n = Cardinality(silent) BY <2>2
    <2>3. known \subseteq SiteMeetings
      <3>1. read \subseteq SiteMeetings BY DEF TopsRead, Tops
      <3>2. Under(read) \subseteq SiteMeetings BY <3>1, CoverageAssumption DEF Under
      <3> QED BY <3>1, <3>2
    <2>4. Goes([Unsaid(check, SiteMeetings \ known) EXCEPT
                   !.phase = "details", !.todo = known \ NotOurs, !.warnings = @ + n])
      BY <1>3, <2>n
    <2> HIDE DEF known
    <2>5. /\ known \ NotOurs \in SUBSET OurMeetings
          /\ OurMeetings \subseteq (known \ NotOurs) \cup (SiteMeetings \ known)
      BY <2>3 DEF OurMeetings
    <2>o. PICK open, hidden : open = known \ NotOurs /\ hidden = SiteMeetings \ known
      OBVIOUS
    <2>6. Goes([Unsaid(check, hidden) EXCEPT !.phase = "details", !.todo = open, !.warnings = @ + n])
      BY <2>4, <2>o
    <2>7. /\ open \in SUBSET OurMeetings /\ hidden \in SUBSET SiteMeetings
          /\ OurMeetings \subseteq open \cup hidden
      BY <2>5, <2>o
    <2> QED BY <1>0, <2>6, <2>7, DetailsBegin
  <1> QED BY <1>1, <1>2, <1>3 DEF AskMeetings

(* What an answer of the details or the entries adds to the list.          *)
LEMMA ItemIsAsked ==
    ASSUME CoverageInvariant, NEW x \in check.todo, x \in OurItems
    PROVE  LET asked == [check EXCEPT !.todo = @ \ {x}]
           IN  /\ asked \in CheckRow /\ asked.phase = check.phase
               /\ asked.todo = check.todo \ {x}
               /\ asked.listed = check.listed /\ asked.warnings = check.warnings
               /\ asked.unsaid = check.unsaid
               /\ ShownOn[x] \subseteq SiteDocuments /\ ShownOn[x] \subseteq OurDocuments
  <1>1. check \in CheckRow BY DEF CoverageInvariant, CoverageRows
  <1>2. ShownOn[x] \subseteq OurDocuments BY DocumentsAreOn
  <1>3. ShownOn[x] \subseteq SiteDocuments BY <1>2, DocumentsAreOn
  <1> QED BY <1>1, <1>2, <1>3 DEF CheckRow

LEMMA DetailsKeepCheck ==
    ASSUME CoverageInvariant, NEW m \in SiteMeetings, AskDetail(m)
    PROVE  CoverageInvariant'
  <1> USE DEF CoverageInvariant
  <1> DEFINE asked == [check EXCEPT !.todo = @ \ {m}]
  <1>0. /\ check.phase = "details" /\ check.phase # "none" /\ m \in check.todo
        /\ m \in OurMeetings /\ m \in OurItems
    BY DEF AskDetail, RowIsHonest, OurItems
  <1>1. /\ asked \in CheckRow /\ asked.phase = "details" /\ asked.todo = check.todo \ {m}
        /\ asked.listed = check.listed /\ asked.warnings = check.warnings
        /\ asked.unsaid = check.unsaid
        /\ ShownOn[m] \subseteq SiteDocuments /\ ShownOn[m] \subseteq OurDocuments
    BY <1>0, ItemIsAsked
  <1>2. Goes(Lists(asked, ShownOn[m])) \/ Goes(Warned(asked)) BY DEF AskDetail
  <1> HIDE DEF asked
  <1>3. CASE Goes(Lists(asked, ShownOn[m]))
    <2>1. PICK to : to = Lists(asked, ShownOn[m]) OBVIOUS
    <2>2. /\ to \in CheckRow /\ to.phase = "details" /\ to.todo = check.todo \ {m}
          /\ to.listed = check.listed \cup ShownOn[m] /\ to.warnings = check.warnings
          /\ to.unsaid = check.unsaid
      BY <1>1, <2>1, ListedRows
    <2>3. RowIsHonest(to) BY <1>0, <1>1, <2>2 DEF RowIsHonest
    <2>4. RowSkipsNothing(to) BY <1>0, <2>2 DEF RowSkipsNothing, ListedBut, AllListed
    <2> QED BY <1>0, <1>3, <2>1, <2>2, <2>3, <2>4, CheckGoes
  <1>4. CASE Goes(Warned(asked))
    <2>1. PICK to : to = Warned(asked) OBVIOUS
    <2>2. /\ to \in CheckRow /\ to.phase = "details" /\ to.todo = check.todo \ {m}
          /\ to.listed = check.listed /\ to.warnings > 0
      BY <1>1, <2>1, CheckRows
    <2>3. RowIsHonest(to) /\ RowSkipsNothing(to)
      BY <1>0, <1>1, <2>2 DEF RowIsHonest, RowSkipsNothing
    <2> QED BY <1>0, <1>4, <2>1, <2>2, <2>3, CheckGoes
  <1> QED BY <1>2, <1>3, <1>4

LEMMA DetailsEndKeepsCheck ==
    ASSUME CoverageInvariant, DetailsDone
    PROVE  CoverageInvariant'
  <1> USE DEF CoverageInvariant
  <1>0. /\ check \in CheckRow /\ check.phase = "details" /\ check.phase # "none" /\ check.todo = {}
    BY DEF DetailsDone, CoverageRows
  <1>1. PICK next : next = IF siteOf \in WithLists THEN "lists" ELSE "compare" OBVIOUS
  <1>2. PICK to : to = [check EXCEPT !.phase = next] OBVIOUS
  <1>3. /\ to \in CheckRow /\ to.phase = next /\ to.listed = check.listed
        /\ to.warnings = check.warnings /\ to.unsaid = check.unsaid
    BY <1>0, <1>1, <1>2 DEF CheckRow, Phases
  <1>4. Goes(to) BY <1>1, <1>2 DEF DetailsDone
  <1>5. RowIsHonest(to) BY <1>0, <1>1, <1>3 DEF RowIsHonest
  <1>6. siteOf \notin WithLists => OurItems = OurMeetings BY DEF OurItems, OurEntries
  <1>7. RowSkipsNothing(to)
    BY <1>0, <1>1, <1>3, <1>6 DEF RowSkipsNothing, ListedBut, AllListed
  <1>8. to.phase # "none" BY <1>1, <1>3
  <1> QED BY <1>0, <1>3, <1>4, <1>5, <1>7, <1>8, CheckGoes

LEMMA ListsKeepCheck ==
    ASSUME CoverageInvariant, AskLists
    PROVE  CoverageInvariant'
  <1> USE DEF CoverageInvariant
  <1>0. /\ check \in CheckRow /\ check.phase = "lists" /\ check.phase # "none"
    BY DEF AskLists, CoverageRows
  <1>1. ASSUME NEW read \in ListsRead,
               Goes([Unsaid(check, UNION { SiteEntries[k] : k \in SiteLists \ read }) EXCEPT
                        !.phase = "entries", !.todo = read \ NotOurs])
        PROVE  CoverageInvariant'
    <2> DEFINE hidden == UNION { SiteEntries[k] : k \in SiteLists \ read }
    <2>0. read \subseteq SiteLists /\ hidden \in SUBSET (SiteMeetings \cup AllEntries)
      BY DEF ListsRead, AllEntries
    <2>1. PICK c : c = Unsaid(check, hidden) OBVIOUS
    <2>2. /\ c \in CheckRow /\ c.unsaid = check.unsaid \cup hidden /\ c.listed = check.listed
          /\ c.warnings = check.warnings
      <3> HIDE DEF hidden
      <3> QED BY <1>0, <2>0, <2>1, CheckRows
    <2>3. PICK to : to = [c EXCEPT !.phase = "entries", !.todo = read \ NotOurs] OBVIOUS
    <2>4. /\ to \in CheckRow /\ to.phase = "entries" /\ to.todo = read \ NotOurs
          /\ to.listed = check.listed /\ to.warnings = check.warnings
          /\ to.unsaid = check.unsaid \cup hidden
      <3> HIDE DEF hidden
      <3> QED BY <2>0, <2>2, <2>3 DEF CheckRow, Phases
    <2>5. \A k \in SiteLists : k \in read \/ SiteEntries[k] \subseteq hidden OBVIOUS
    <2>6. Goes(to) BY <1>1, <2>1, <2>3
    <2> HIDE DEF hidden
    <2>7. RowIsHonest(to) BY <1>0, <2>0, <2>4 DEF RowIsHonest
    <2>8. RowSkipsNothing(to)
      <3>1. ASSUME to.warnings = 0, NEW k \in SiteLists \ NotOurs
            PROVE  k \in to.todo \/ ListedBut(to, SiteEntries[k] \ NotOurs)
        BY <2>4, <2>5 DEF ListedBut, AllListed
      <3>2. to.warnings = 0 => AllListed(to, OurMeetings)
        BY <1>0, <2>4 DEF RowSkipsNothing, AllListed
      <3> QED BY <2>4, <3>1, <3>2 DEF RowSkipsNothing
    <2> QED BY <1>0, <2>4, <2>6, <2>7, <2>8, CheckGoes
  <1>2. CASE Goes(ListsSilent(check))
    <2>1. PICK c : c = [check EXCEPT !.phase = "compare"] OBVIOUS
    <2>2. c \in CheckRow /\ c.phase = "compare" /\ c.listed = check.listed
      BY <1>0, <2>1 DEF CheckRow, Phases
    <2>3. PICK to : to = Warned(c) OBVIOUS
    <2>4. to \in CheckRow /\ to.phase = "compare" /\ to.listed = check.listed /\ to.warnings > 0
      BY <2>2, <2>3, CheckRows
    <2>5. RowIsHonest(to) /\ RowSkipsNothing(to)
      BY <2>4 DEF RowIsHonest, RowSkipsNothing
    <2>6. Goes(to) BY <1>2, <2>1, <2>3 DEF ListsSilent
    <2> QED BY <1>0, <2>4, <2>5, <2>6, CheckGoes
  <1> QED BY <1>1, <1>2 DEF AskLists

LEMMA ListKeepsCheck ==
    ASSUME CoverageInvariant, NEW k \in SiteLists, AskList(k)
    PROVE  CoverageInvariant'
  <1> USE DEF CoverageInvariant
  <1> DEFINE asked == [check EXCEPT !.todo = @ \ {k}]
             own == SiteEntries[k] \ NotOurs
  <1>0. /\ check \in CheckRow /\ check.phase = "entries" /\ check.phase # "none"
        /\ k \in check.todo /\ siteOf \in WithLists
    BY DEF AskList, CoverageRows, RowIsHonest
  <1>1. k \notin AllEntries BY CoverageAssumption DEF AllEntries
  <1>2. k \in SiteLists \ NotOurs BY <1>0, <1>1 DEF RowIsHonest, OurEntries, AllEntries
  <1>3. own \subseteq OurEntries /\ own \subseteq OurItems /\ own \subseteq AllEntries
    BY <1>0, <1>2 DEF OurEntries, OurItems, AllEntries
  <1>4. /\ asked \in CheckRow /\ asked.phase = "entries" /\ asked.todo = check.todo \ {k}
        /\ asked.listed = check.listed /\ asked.warnings = check.warnings
        /\ asked.unsaid = check.unsaid
    BY <1>0 DEF CheckRow
  <1>5. \/ Goes(Lists(asked, DocumentsOn(own)))
        \/ Goes(Unsaid(asked, own))
        \/ Goes([asked EXCEPT !.todo = @ \cup own])
        \/ Goes(Warned(asked))
    BY DEF AskList
  (* Entries of other lists are listed or asked for as they were.          *)
  <1>6. ASSUME NEW l \in SiteLists \ NotOurs, NEW e \in SiteEntries[l] \ NotOurs, check.warnings = 0
        PROVE  \/ l \in check.todo \/ e \in check.todo \ {k}
               \/ e \in check.unsaid \/ ShownOn[e] \subseteq check.listed
    <2>1. e # k BY <1>1 DEF AllEntries
    <2> QED BY <1>0, <1>6, <2>1 DEF RowSkipsNothing, ListedBut, AllListed
  <1> HIDE DEF asked, own
  <1>7. CASE Goes(Lists(asked, DocumentsOn(own)))
    <2>1. PICK to : to = Lists(asked, DocumentsOn(own)) OBVIOUS
    <2>2. DocumentsOn(own) \subseteq OurDocuments /\ DocumentsOn(own) \subseteq SiteDocuments
      BY <1>3, DocumentsAreOn
    <2>3. /\ to \in CheckRow /\ to.phase = "entries" /\ to.todo = check.todo \ {k}
          /\ to.listed = check.listed \cup DocumentsOn(own) /\ to.warnings = check.warnings
          /\ to.unsaid = check.unsaid
      BY <1>4, <2>1, <2>2, ListedRows
    <2>4. RowIsHonest(to) BY <1>0, <2>2, <2>3 DEF RowIsHonest
    <2>5. \A e \in own : ShownOn[e] \subseteq to.listed BY <2>3, DocumentsAreOn
    <2>6. RowSkipsNothing(to)
      BY <1>0, <1>6, <2>3, <2>5 DEF RowSkipsNothing, ListedBut, AllListed, own
    <2> QED BY <1>0, <1>7, <2>1, <2>3, <2>4, <2>6, CheckGoes
  <1>8. CASE Goes([asked EXCEPT !.todo = @ \cup own])
    <2>1. PICK to : to = [asked EXCEPT !.todo = @ \cup own] OBVIOUS
    <2>3. /\ to \in CheckRow /\ to.phase = "entries" /\ to.todo = (check.todo \ {k}) \cup own
          /\ to.listed = check.listed /\ to.warnings = check.warnings /\ to.unsaid = check.unsaid
      BY <1>3, <1>4, <2>1 DEF CheckRow
    <2>4. RowIsHonest(to) BY <1>0, <1>3, <2>3 DEF RowIsHonest
    <2>6. RowSkipsNothing(to)
      BY <1>0, <1>6, <2>3 DEF RowSkipsNothing, ListedBut, AllListed, own
    <2> QED BY <1>0, <1>8, <2>1, <2>3, <2>4, <2>6, CheckGoes
  <1>9. CASE Goes(Warned(asked))
    <2>1. PICK to : to = Warned(asked) OBVIOUS
    <2>2. /\ to \in CheckRow /\ to.phase = "entries" /\ to.todo = check.todo \ {k}
          /\ to.listed = check.listed /\ to.warnings > 0
      BY <1>4, <2>1, CheckRows
    <2>3. RowIsHonest(to) /\ RowSkipsNothing(to)
      BY <1>0, <2>2 DEF RowIsHonest, RowSkipsNothing
    <2> QED BY <1>0, <1>9, <2>1, <2>2, <2>3, CheckGoes
  <1>10. CASE Goes(Unsaid(asked, own))
    <2>1. PICK to : to = Unsaid(asked, own) OBVIOUS
    <2>3. /\ to \in CheckRow /\ to.phase = "entries" /\ to.todo = check.todo \ {k}
          /\ to.listed = check.listed /\ to.warnings = check.warnings
          /\ to.unsaid = check.unsaid \cup own
      <3>1. own \in SUBSET (SiteMeetings \cup AllEntries) BY <1>3
      <3>2. /\ Unsaid(asked, own) \in CheckRow
            /\ Unsaid(asked, own).unsaid = asked.unsaid \cup own
            /\ Unsaid(asked, own).listed = asked.listed /\ Unsaid(asked, own).todo = asked.todo
            /\ Unsaid(asked, own).phase = asked.phase
            /\ Unsaid(asked, own).warnings = asked.warnings
        BY <1>4, <3>1, CheckRows
      <3> QED BY <1>4, <2>1, <3>2
    <2>4. RowIsHonest(to) BY <1>0, <2>3 DEF RowIsHonest
    <2>6. RowSkipsNothing(to)
      BY <1>0, <1>6, <2>3 DEF RowSkipsNothing, ListedBut, AllListed, own
    <2> QED BY <1>0, <1>10, <2>1, <2>3, <2>4, <2>6, CheckGoes
  <1> QED BY <1>5, <1>7, <1>8, <1>9, <1>10

LEMMA EntryKeepsCheck ==
    ASSUME CoverageInvariant, NEW e \in AllEntries, AskEntry(e)
    PROVE  CoverageInvariant'
  <1> USE DEF CoverageInvariant
  <1> DEFINE asked == [check EXCEPT !.todo = @ \ {e}]
  <1>0. /\ check.phase = "entries" /\ check.phase # "none" /\ e \in check.todo
        /\ siteOf \in WithLists /\ e \notin SiteLists
    BY CoverageAssumption DEF AskEntry, RowIsHonest, AllEntries
  <1>1. e \in OurItems BY <1>0 DEF RowIsHonest, OurItems
  <1>2. /\ asked \in CheckRow /\ asked.phase = "entries" /\ asked.todo = check.todo \ {e}
        /\ asked.listed = check.listed /\ asked.warnings = check.warnings
        /\ asked.unsaid = check.unsaid
        /\ ShownOn[e] \subseteq SiteDocuments /\ ShownOn[e] \subseteq OurDocuments
    BY <1>0, <1>1, ItemIsAsked
  <1>3. Goes(Lists(asked, ShownOn[e])) \/ Goes(Warned(asked)) BY DEF AskEntry
  <1> HIDE DEF asked
  <1>4. CASE Goes(Lists(asked, ShownOn[e]))
    <2>1. PICK to : to = Lists(asked, ShownOn[e]) OBVIOUS
    <2>2. /\ to \in CheckRow /\ to.phase = "entries" /\ to.todo = check.todo \ {e}
          /\ to.listed = check.listed \cup ShownOn[e] /\ to.warnings = check.warnings
          /\ to.unsaid = check.unsaid
      BY <1>2, <2>1, ListedRows
    <2>3. RowIsHonest(to) BY <1>0, <1>2, <2>2 DEF RowIsHonest
    <2>4. RowSkipsNothing(to) BY <1>0, <2>2 DEF RowSkipsNothing, ListedBut, AllListed
    <2> QED BY <1>0, <1>4, <2>1, <2>2, <2>3, <2>4, CheckGoes
  <1>5. CASE Goes(Warned(asked))
    <2>1. PICK to : to = Warned(asked) OBVIOUS
    <2>2. /\ to \in CheckRow /\ to.phase = "entries" /\ to.todo = check.todo \ {e}
          /\ to.listed = check.listed /\ to.warnings > 0
      BY <1>2, <2>1, CheckRows
    <2>3. RowIsHonest(to) /\ RowSkipsNothing(to)
      BY <1>0, <2>2 DEF RowIsHonest, RowSkipsNothing
    <2> QED BY <1>0, <1>5, <2>1, <2>2, <2>3, CheckGoes
  <1> QED BY <1>3, <1>4, <1>5

LEMMA EntriesEndKeepsCheck ==
    ASSUME CoverageInvariant, EntriesDone
    PROVE  CoverageInvariant'
  <1> USE DEF CoverageInvariant
  <1>0. /\ check \in CheckRow /\ check.phase = "entries" /\ check.phase # "none" /\ check.todo = {}
        /\ Goes([check EXCEPT !.phase = "compare"])
    BY DEF EntriesDone, CoverageRows
  <1>1. PICK to : to = [check EXCEPT !.phase = "compare"] OBVIOUS
  <1>2. /\ to \in CheckRow /\ to.phase = "compare" /\ to.listed = check.listed
        /\ to.warnings = check.warnings /\ to.unsaid = check.unsaid
    BY <1>0, <1>1 DEF CheckRow, Phases
  <1>3. RowIsHonest(to) BY <1>2 DEF RowIsHonest
  <1>4. ASSUME to.warnings = 0, NEW x \in OurItems \ to.unsaid PROVE ShownOn[x] \subseteq to.listed
    <2>1. CASE x \in OurMeetings
      BY <1>0, <1>2, <1>4, <2>1 DEF RowSkipsNothing, AllListed
    <2>2. CASE x \in OurEntries
      <3>1. PICK k \in SiteLists \ NotOurs : x \in SiteEntries[k] \ NotOurs
        BY <2>2 DEF OurEntries
      <3> QED BY <1>0, <1>2, <1>4, <3>1 DEF RowSkipsNothing, ListedBut, AllListed
    <2> QED BY <2>1, <2>2 DEF OurItems
  <1>5. RowSkipsNothing(to) BY <1>2, <1>4 DEF RowSkipsNothing, AllListed
  <1> QED BY <1>0, <1>1, <1>2, <1>3, <1>5, CheckGoes

LEMMA CompareKeepsCheck ==
    ASSUME CoverageInvariant, Compare
    PROVE  CoverageInvariant'
  <1> USE DEF CoverageInvariant
  <1> DEFINE o == [error |-> FALSE, listed |-> check.listed, missing |-> Missing,
                   warnings |-> check.warnings, unsaid |-> check.unsaid]
  <1>0. check \in CheckRow /\ check.phase = "compare" /\ check.phase # "none"
    BY DEF Compare, CoverageRows
  <1>1. Missing \subseteq check.listed /\ check.listed \subseteq SiteDocuments
    BY <1>0 DEF Missing, CheckRow
  <1>2. /\ o \in CheckOutcomes /\ o.listed = check.listed /\ o.missing = Missing
        /\ o.warnings = check.warnings /\ o.unsaid = check.unsaid
    BY <1>0, <1>1 DEF CheckOutcomes, CheckRow
  <1>3. /\ Recorded(o) /\ check' = NoCheck
        /\ UNCHANGED <<siteOf, holding, wereHeld, everHeld>>
    BY DEF Compare
  <1> HIDE DEF o
  <1>4. o.listed \ o.missing \subseteq wereHeld /\ o.missing \cap everHeld = {}
    BY <1>0, <1>2 DEF Missing, HoldingIsFollowed
  <1>5. o.warnings > 0 \/ DocumentsOn(OurItems \ o.unsaid) \subseteq o.listed
    <2>1. CASE check.warnings = 0
      <3>1. \A x \in OurItems \ check.unsaid : ShownOn[x] \subseteq check.listed
        BY <1>0, <2>1 DEF RowSkipsNothing, AllListed
      <3> QED BY <1>2, <3>1, DocumentsAreOn
    <2>2. CASE check.warnings # 0 BY <1>0, <1>2, <2>2 DEF CheckRow
    <2> QED BY <2>1, <2>2
  <1>6. o.listed \subseteq OurDocuments BY <1>2 DEF RowIsHonest
  <1> QED BY <1>1, <1>2, <1>3, <1>4, <1>5, <1>6, RecordKeepsCheck

(* What a check publishes without reserve is all there was, but for what   *)
(* it read as empty, and what it counts as held or missing was so while it *)
(* looked (CoverageIsTrue), for any site and any request that fails, while *)
(* imports and removals go on.                                             *)
THEOREM ChecksAreTrue == CoverageSpec => []CoverageInvariant
  <1>1. CoverageInit => CoverageInvariant
    <2> SUFFICES ASSUME CoverageInit PROVE CoverageInvariant OBVIOUS
    <2>1. NoCheck \in CheckRow /\ checks = << >> /\ checks \in Seq(CheckOutcomes)
      BY DEF CoverageInit, CheckRow, Phases, NoCheck
    <2>2. CoverageRows BY <2>1 DEF CoverageInit, CoverageRows
    <2>3. NoCheck.phase = "none" /\ NoCheck.listed = {} BY DEF NoCheck
    <2> QED BY <2>1, <2>2, <2>3 DEF CoverageInit, CoverageInvariant, HoldingIsFollowed, RowIsHonest,
                               RowSkipsNothing, CoverageIsTrue
  <1>2. CoverageInvariant /\ [CoverageNext]_coverageVars => CoverageInvariant'
    <2> SUFFICES ASSUME CoverageInvariant, [CoverageNext]_coverageVars PROVE CoverageInvariant'
      OBVIOUS
    <2>1. CASE UNCHANGED coverageVars
      <3>1. UNCHANGED <<OurItems, OurMeetings, OurEntries, OurDocuments, PublishedCheck>>
        BY <2>1 DEF coverageVars, OurItems, OurMeetings, OurEntries, OurDocuments, PublishedCheck
      <3> QED BY <2>1, <3>1 DEF coverageVars, CoverageInvariant, CoverageRows, HoldingIsFollowed,
                    RowIsHonest, RowSkipsNothing, ListedBut, AllListed, CoverageIsTrue
    <2>2. ASSUME NEW k \in SiteLists, AskList(k) PROVE CoverageInvariant'
      BY <2>2, ListKeepsCheck
    <2>3. ASSUME NEW e \in AllEntries, AskEntry(e) PROVE CoverageInvariant'
      BY <2>3, EntryKeepsCheck
    <2>4. ASSUME NEW m \in SiteMeetings, AskDetail(m) PROVE CoverageInvariant'
      BY <2>4, DetailsKeepCheck
    <2>5. ASSUME NEW d \in SiteDocuments, HoldingChanges(d) PROVE CoverageInvariant'
      BY <2>5, HoldingKeeps
    <2> QED BY <2>1, <2>2, <2>3, <2>4, <2>5, BeginKeepsCheck, TypesKeepCheck, MeetingsKeepCheck,
               DetailsEndKeepsCheck, ListsKeepCheck, EntriesEndKeepsCheck, CompareKeepsCheck
            DEF CoverageNext
  <1> QED BY <1>1, <1>2, PTL DEF CoverageSpec
-----------------------------------------------------------------------------
(* StatusPage. Why what the page says was true: a run that succeeds after  *)
(* a statement has read the runs finishes no earlier than the answer was   *)
(* begun, and a run that has succeeded stays as it is.                     *)
Succeeded(i, s) ==
    runRows[i].source = s /\ runRows[i].mode = "full" /\ runRows[i].status = "succeeded"

RecentRuns(statuses) ==
    { i \in DOMAIN runRows :
        /\ Polls(runRows[i]) /\ runRows[i].status \in statuses
        /\ runRows[i].queued > inFlight.began - StatusWindow }

States == {"none", "discontinued", "never_imported", "ok", "failing", "stale"}
StatusRow == [step: {"none", "latest", "success", "window", "build"}, began: Hours \cup {-1},
              latest: [StatusSources -> {"none", "open", "succeeded", "failed"}],
              success: [StatusSources -> Hours \cup {-1}], attempts: Nat, good: Nat, bad: Nat]
AnswerRow == [made: Hours \cup {-1}, began: Hours \cup {-1}, source: [StatusSources -> States],
              supplier: {"none", "ok", "idle", "down", "degraded"}]

StatusRows ==
    /\ hour \in Hours /\ runRows \in Seq(RunRows) /\ Len(runRows) <= MaxRunRows
    /\ inFlight \in StatusRow /\ cached \in AnswerRow /\ waiting \in BOOLEAN
    /\ answer \in [made: Hours \cup {-1}, at: Hours \cup {-1}, old: BOOLEAN]
    /\ inFlight.attempts <= MaxRunRows /\ inFlight.good + inFlight.bad <= inFlight.attempts
    /\ inFlight.step = "none" => ~waiting

RunsAreDated ==
    \A i \in 1 .. Len(runRows) :
        /\ runRows[i].queued <= hour /\ runRows[i].finished <= hour
        /\ runRows[i].status = "succeeded" => runRows[i].finished >= 0

InFlightIsTrue ==
    /\ inFlight.step # "none" => 0 <= inFlight.began /\ inFlight.began <= hour
    /\ inFlight.step \in {"success", "window", "build"} =>
          \A s \in StatusSources : inFlight.latest[s] = "none" =>
              \A i \in 1 .. Len(runRows) : Succeeded(i, s) => runRows[i].finished >= inFlight.began
    /\ inFlight.step \in {"window", "build"} =>
          \A s \in StatusSources :
              /\ inFlight.success[s] >= 0 =>
                    \E i \in 1 .. Len(runRows) :
                        Succeeded(i, s) /\ runRows[i].finished = inFlight.success[s]
              /\ \A i \in 1 .. Len(runRows) :
                    Succeeded(i, s) /\ runRows[i].finished < inFlight.began
                    => runRows[i].finished <= inFlight.success[s]
    /\ inFlight.step = "build" =>
          /\ inFlight.attempts <= Cardinality(RecentRuns({"open", "failed", "succeeded"}))
          /\ inFlight.good = 0 =>
                \A i \in 1 .. Len(runRows) :
                    (/\ runRows[i].mode = "full" /\ runRows[i].status = "succeeded"
                     /\ runRows[i].finished < inFlight.began)
                    => runRows[i].queued <= inFlight.began - StatusWindow

CachedIsTrue ==
    cached.made >= 0 =>
        /\ 0 <= cached.began /\ cached.began <= cached.made /\ cached.made <= hour
        /\ \A s \in StatusSources :
             /\ cached.source[s] = "ok" => Delivered(s, cached.made - StatusWindow, cached.made)
             /\ cached.source[s] \in {"stale", "failing"} =>
                   ~Delivered(s, cached.made - StatusWindow, cached.began - 1)
             /\ cached.source[s] = "never_imported" => ~Delivered(s, 0, cached.began - 1)
        /\ cached.supplier = "down" =>
             /\ Cardinality({ i \in DOMAIN runRows :
                   runRows[i].mode = "full" /\ runRows[i].queued \in
                     cached.began - StatusWindow + 1 .. cached.made }) >= MeaningfulRuns
             /\ \A i \in DOMAIN runRows :
                   runRows[i].mode = "full" /\ runRows[i].status = "succeeded"
                     /\ runRows[i].finished \in 0 .. cached.began - 1
                   => runRows[i].queued <= cached.began - StatusWindow

AnswerIsFresh == ~answer.old => answer.at - answer.made <= StatusTTL

StatusInvariant ==
    StatusRows /\ RunsAreDated /\ InFlightIsTrue /\ CachedIsTrue /\ AnswerIsFresh

LEMMA StatusNumbers ==
    ASSUME StatusRows
    PROVE  /\ hour \in Nat /\ LastHour \in Nat /\ Hours \subseteq Int
           /\ StatusWindow \in Nat /\ StatusTTL \in Nat /\ MeaningfulRuns \in Nat
           /\ MeaningfulRuns >= 1 /\ MaxRunRows \in Nat
           /\ inFlight.began \in Int /\ inFlight.attempts \in Nat
           /\ inFlight.good \in Nat /\ inFlight.bad \in Nat
           /\ cached.made \in Int /\ cached.began \in Int
           /\ answer.made \in Int /\ answer.at \in Int
           /\ Len(runRows) \in Nat /\ DOMAIN runRows = 1 .. Len(runRows)
           /\ \A s \in StatusSources : inFlight.success[s] \in Int
           /\ \A i \in 1 .. Len(runRows) :
                 /\ runRows[i] \in RunRows
                 /\ runRows[i].queued \in Int /\ runRows[i].finished \in Int
  <1>1. /\ hour \in Nat /\ LastHour \in Nat /\ Hours \subseteq Int
        /\ StatusWindow \in Nat /\ StatusTTL \in Nat /\ MeaningfulRuns \in Nat
        /\ MeaningfulRuns >= 1 /\ MaxRunRows \in Nat
    BY StatusAssumption DEF StatusRows, Hours
  <1>i. \A x \in Hours \cup {-1} : x \in Int BY <1>1
  <1>2. /\ inFlight.began \in Int /\ inFlight.attempts \in Nat
        /\ inFlight.good \in Nat /\ inFlight.bad \in Nat
        /\ cached.made \in Int /\ cached.began \in Int
        /\ answer.made \in Int /\ answer.at \in Int
    BY <1>i DEF StatusRows, StatusRow, AnswerRow
  <1>3. \A s \in StatusSources : inFlight.success[s] \in Int
    BY <1>i DEF StatusRows, StatusRow
  <1>4. Len(runRows) \in Nat /\ DOMAIN runRows = 1 .. Len(runRows) BY DEF StatusRows
  <1>5. ASSUME NEW i \in 1 .. Len(runRows)
        PROVE  runRows[i] \in RunRows /\ runRows[i].queued \in Int /\ runRows[i].finished \in Int
    <2>1. runRows[i] \in RunRows BY <1>5 DEF StatusRows
    <2> QED BY <1>1, <1>i, <2>1 DEF RunRows
  <1> QED BY <1>1, <1>2, <1>3, <1>4, <1>5

(* A set of numbers below a bound has a greatest.                          *)
LEMMA GreatestIsThere ==
    ASSUME NEW n \in Nat, NEW S, S \subseteq 0 .. n, S # {}
    PROVE  \E h \in S : \A g \in S : g <= h
  <1> DEFINE T == { n - h : h \in S }
  <1>1. T \subseteq Nat /\ T # {}
    <2>1. \A h \in S : n - h \in Nat OBVIOUS
    <2> QED BY <2>1
  <1> HIDE DEF T
  <1>w. IsWellFoundedOn(OpToRel(<, Nat), Nat) BY NatLessThanWellFounded
  <1>2. PICK m \in T : \A k \in T : ~(<<k, m>> \in OpToRel(<, Nat)) BY <1>1, <1>w, WFMin
  <1>3. \A k \in T : ~(k < m) BY <1>1, <1>2 DEF OpToRel
  <1>4. PICK h \in S : m = n - h BY <1>2 DEF T
  <1>5. ASSUME NEW g \in S PROVE g <= h
    <2>1. n - g \in T /\ ~(n - g < n - h) BY <1>3, <1>4 DEF T
    <2>2. g \in Int /\ h \in Int OBVIOUS
    <2> QED BY <2>1, <2>2
  <1> QED BY <1>5

LEMMA LatestIsGreatest ==
    ASSUME NEW n \in Nat, NEW S, S \subseteq 0 .. n, S # {}
    PROVE  LatestOf(S) \in S /\ \A g \in S : g <= LatestOf(S)
  <1>1. \E h \in S : \A g \in S : g <= h BY GreatestIsThere
  <1> QED BY <1>1 DEF LatestOf

(* Runs are only queued and settled.                                       *)
RunsGoOn ==
    /\ Len(runRows') \in Nat /\ Len(runRows) \in Nat /\ Len(runRows) <= Len(runRows')
    /\ DOMAIN runRows' = 1 .. Len(runRows')
    /\ \A i \in 1 .. Len(runRows) :
          /\ runRows'[i].source = runRows[i].source /\ runRows'[i].mode = runRows[i].mode
          /\ runRows'[i].queued = runRows[i].queued
          /\ runRows[i].status = "succeeded" => runRows'[i] = runRows[i]
    /\ \A i \in 1 .. Len(runRows') :
          /\ runRows'[i].status = "succeeded" =>
                \/ i \in 1 .. Len(runRows) /\ runRows'[i] = runRows[i]
                \/ runRows'[i].finished = hour
          /\ runRows'[i].queued <= hour /\ runRows'[i].finished <= hour
          /\ runRows'[i].status = "succeeded" => runRows'[i].finished >= 0
          /\ runRows'[i].queued \in Int /\ runRows'[i].finished \in Int

LEMMA RunsDoGoOn ==
    ASSUME StatusRows, RunsAreDated,
           \/ UNCHANGED runRows
           \/ \E s \in StatusSources, mode \in {"full", "other"} : QueueRun(s, mode)
           \/ \E i \in 1 .. MaxRunRows, status \in {"succeeded", "failed"} : SettleRun(i, status)
    PROVE  RunsGoOn /\ runRows' \in Seq(RunRows) /\ Len(runRows') <= MaxRunRows
  <1>0. /\ runRows \in Seq(RunRows) /\ Len(runRows) <= MaxRunRows /\ hour \in Hours
        /\ hour \in Nat /\ MaxRunRows \in Nat /\ Hours \subseteq Int
        /\ Len(runRows) \in Nat /\ DOMAIN runRows = 1 .. Len(runRows)
    BY StatusNumbers DEF StatusRows
  <1>i. \A i \in 1 .. Len(runRows) :
           runRows[i] \in RunRows /\ runRows[i].queued \in Int /\ runRows[i].finished \in Int
    BY StatusNumbers
  <1>1. CASE UNCHANGED runRows BY <1>0, <1>i, <1>1 DEF RunsGoOn, RunsAreDated
  <1>2. ASSUME NEW s \in StatusSources, NEW mode \in {"full", "other"}, QueueRun(s, mode)
        PROVE  RunsGoOn /\ runRows' \in Seq(RunRows) /\ Len(runRows') <= MaxRunRows
    <2>1. PICK r : r = [source |-> s, mode |-> mode, status |-> "open", queued |-> hour, finished |-> -1]
      OBVIOUS
    <2>2. r \in RunRows /\ r.status = "open" /\ r.queued = hour /\ r.finished = -1
      BY <1>0, <2>1 DEF RunRows
    <2>3. runRows' = Append(runRows, r) /\ Len(runRows) < MaxRunRows
      BY <1>2, <2>1 DEF QueueRun
    <2>4. /\ runRows' \in Seq(RunRows) /\ Len(runRows') = Len(runRows) + 1
          /\ \A i \in 1 .. Len(runRows) : runRows'[i] = runRows[i]
          /\ runRows'[Len(runRows) + 1] = r
      <3>1. /\ Append(runRows, r) \in Seq(RunRows) /\ Len(Append(runRows, r)) = Len(runRows) + 1
            /\ \A i \in 1 .. Len(runRows) : Append(runRows, r)[i] = runRows[i]
            /\ Append(runRows, r)[Len(runRows) + 1] = r
        BY <1>0, <2>2, AppendProperties
      <3> QED BY <2>3, <3>1
    <2>5. \A i \in 1 .. Len(runRows') : i \in 1 .. Len(runRows) \/ i = Len(runRows) + 1
      BY <2>4
    <2>6. DOMAIN runRows' = 1 .. Len(runRows') BY <2>4
    <2>7. \A i \in 1 .. Len(runRows) :
             /\ runRows'[i] = runRows[i] /\ runRows[i].queued <= hour /\ runRows[i].finished <= hour
             /\ runRows[i].status = "succeeded" => runRows[i].finished >= 0
      BY <2>4 DEF RunsAreDated
    <2>8. \A i \in 1 .. Len(runRows') :
             i \in 1 .. Len(runRows) \/ (i \notin 1 .. Len(runRows) /\ runRows'[i] = r)
      BY <1>0, <2>4, <2>5
    <2>9. \A i \in 1 .. Len(runRows') :
             /\ runRows'[i].status = "succeeded" => i \in 1 .. Len(runRows) /\ runRows'[i] = runRows[i]
             /\ runRows'[i].queued <= hour /\ runRows'[i].finished <= hour
             /\ runRows'[i].status = "succeeded" => runRows'[i].finished >= 0
             /\ runRows'[i].queued \in Int /\ runRows'[i].finished \in Int
      <3> TAKE i \in 1 .. Len(runRows')
      <3>1. CASE i \in 1 .. Len(runRows) BY <1>i, <2>7, <3>1
      <3>2. CASE i \notin 1 .. Len(runRows)
        <4>1. runRows'[i] = r BY <2>8, <3>2
        <4>2. hour \in Int /\ -1 <= hour /\ -1 \in Int /\ hour <= hour BY <1>0
        <4> QED BY <2>2, <4>1, <4>2
      <3> QED BY <3>1, <3>2
    <2>10. Len(runRows') \in Nat /\ Len(runRows) <= Len(runRows') /\ Len(runRows') <= MaxRunRows
      <3>1. \A a, b, c \in Int : (0 <= a /\ b = a + 1 /\ a < c) => (b \in Nat /\ a <= b /\ b <= c)
        OBVIOUS
      <3>2. Len(runRows') \in Int /\ Len(runRows') = Len(runRows) + 1 BY <1>0, <2>4
      <3>3. Len(runRows) < MaxRunRows BY <2>3
      <3>4. Len(runRows) \in Int /\ MaxRunRows \in Int /\ 0 <= Len(runRows) BY <1>0
      <3> QED BY <3>1, <3>2, <3>3, <3>4
    <2> QED BY <1>0, <2>4, <2>6, <2>7, <2>9, <2>10 DEF RunsGoOn
  <1>3. ASSUME NEW i \in 1 .. MaxRunRows, NEW status \in {"succeeded", "failed"}, SettleRun(i, status)
        PROVE  RunsGoOn /\ runRows' \in Seq(RunRows) /\ Len(runRows') <= MaxRunRows
    <2>1. /\ i \in 1 .. Len(runRows) /\ runRows[i].status = "open" /\ runRows[i] \in RunRows
          /\ runRows' = [runRows EXCEPT ![i].status = status, ![i].finished = hour]
      BY <1>0, <1>i, <1>3 DEF SettleRun
    <2>2. PICK r : r = [runRows[i] EXCEPT !.status = status, !.finished = hour] OBVIOUS
    <2>3. /\ r \in RunRows /\ r.status = status /\ r.finished = hour
          /\ r.source = runRows[i].source /\ r.mode = runRows[i].mode /\ r.queued = runRows[i].queued
      BY <1>0, <2>1, <2>2 DEF RunRows
    <2>4. runRows' = [runRows EXCEPT ![i] = r] BY <2>1, <2>2
    <2>5. /\ runRows' \in Seq(RunRows) /\ Len(runRows') = Len(runRows)
          /\ \A j \in 1 .. Len(runRows) : runRows'[j] = IF j = i THEN r ELSE runRows[j]
      <3>1. runRows' \in [1 .. Len(runRows) -> RunRows] BY <1>0, <1>i, <2>1, <2>3, <2>4
      <3>2. runRows' \in Seq(RunRows) /\ Len(runRows') = Len(runRows)
        BY <1>0, <3>1, FunctionsAreSequences
      <3> QED BY <1>0, <2>1, <2>4, <3>2
    <2>6. DOMAIN runRows' = 1 .. Len(runRows') BY <2>5
    <2> QED BY <1>0, <1>i, <2>1, <2>3, <2>5, <2>6 DEF RunsGoOn, RunsAreDated
  <1> QED BY <1>1, <1>2, <1>3

(* What was seen of them stays true while they go on.                      *)
LEMMA SightingsStay ==
    ASSUME StatusInvariant, RunsGoOn, runRows' \in Seq(RunRows), UNCHANGED <<hour, inFlight, cached>>
    PROVE  RunsAreDated' /\ InFlightIsTrue' /\ CachedIsTrue'
  <1>0. /\ StatusRows /\ RunsAreDated /\ InFlightIsTrue /\ CachedIsTrue
        /\ hour' = hour /\ inFlight' = inFlight /\ cached' = cached
    BY DEF StatusInvariant
  <1>n. /\ hour \in Nat /\ StatusWindow \in Nat /\ inFlight.began \in Int /\ inFlight.attempts \in Nat
        /\ cached.made \in Int /\ cached.began \in Int /\ MeaningfulRuns \in Nat
        /\ Len(runRows) \in Nat /\ DOMAIN runRows = 1 .. Len(runRows)
        /\ \A s \in StatusSources : inFlight.success[s] \in Int
        /\ \A i \in 1 .. Len(runRows) : runRows[i].queued \in Int /\ runRows[i].finished \in Int
    BY <1>0, StatusNumbers
  <1>d. /\ Len(runRows') \in Nat /\ Len(runRows) <= Len(runRows')
        /\ DOMAIN runRows' = 1 .. Len(runRows')
        /\ 1 .. Len(runRows) \subseteq 1 .. Len(runRows')
    BY <1>n DEF RunsGoOn
  <1>k. \A i \in 1 .. Len(runRows) :
          /\ runRows'[i].source = runRows[i].source /\ runRows'[i].mode = runRows[i].mode
          /\ runRows'[i].queued = runRows[i].queued
          /\ runRows[i].status = "succeeded" => runRows'[i] = runRows[i]
    BY DEF RunsGoOn
  <1>s. \A i \in 1 .. Len(runRows') :
          /\ runRows'[i].status = "succeeded" =>
                \/ i \in 1 .. Len(runRows) /\ runRows'[i] = runRows[i]
                \/ runRows'[i].finished = hour
          /\ runRows'[i].queued <= hour /\ runRows'[i].finished <= hour
          /\ runRows'[i].status = "succeeded" => runRows'[i].finished >= 0
          /\ runRows'[i].queued \in Int /\ runRows'[i].finished \in Int
    BY DEF RunsGoOn
  <1>r. \A i \in 1 .. Len(runRows') : runRows'[i].status \in {"open", "succeeded", "failed"}
    <2> TAKE i \in 1 .. Len(runRows')
    <2>1. runRows'[i] \in RunRows BY <1>d
    <2> QED BY <2>1 DEF RunRows
  <1>1. RunsAreDated' BY <1>0, <1>s DEF RunsAreDated
  <1>2. InFlightIsTrue'
    <2>1. ASSUME NEW s \in StatusSources, NEW i \in 1 .. Len(runRows'), Succeeded(i, s)',
                 0 <= inFlight.began, inFlight.began <= hour, runRows'[i].finished < inFlight.began
          PROVE  i \in 1 .. Len(runRows) /\ runRows'[i] = runRows[i] /\ Succeeded(i, s)
      BY <1>n, <1>s, <2>1 DEF Succeeded
    <2>2. inFlight.step # "none" => 0 <= inFlight.began /\ inFlight.began <= hour
      BY <1>0 DEF InFlightIsTrue
    <2>3. ASSUME inFlight.step \in {"success", "window", "build"}, NEW s \in StatusSources,
                 inFlight.latest[s] = "none", NEW i \in 1 .. Len(runRows'), Succeeded(i, s)'
          PROVE  runRows'[i].finished >= inFlight.began
      BY <1>0, <1>n, <1>s, <2>1, <2>2, <2>3 DEF InFlightIsTrue
    <2>4. ASSUME inFlight.step \in {"window", "build"}, NEW s \in StatusSources
          PROVE  /\ inFlight.success[s] >= 0 =>
                      \E i \in 1 .. Len(runRows') :
                          Succeeded(i, s)' /\ runRows'[i].finished = inFlight.success[s]
                 /\ \A i \in 1 .. Len(runRows') :
                      Succeeded(i, s)' /\ runRows'[i].finished < inFlight.began
                      => runRows'[i].finished <= inFlight.success[s]
      <3>1. ASSUME inFlight.success[s] >= 0
            PROVE  \E i \in 1 .. Len(runRows') :
                          Succeeded(i, s)' /\ runRows'[i].finished = inFlight.success[s]
        <4>1. PICK i \in 1 .. Len(runRows) : Succeeded(i, s) /\ runRows[i].finished = inFlight.success[s]
          BY <1>0, <2>4, <3>1 DEF InFlightIsTrue
        <4>2. i \in 1 .. Len(runRows') /\ runRows'[i] = runRows[i]
          BY <1>d, <1>k, <4>1 DEF Succeeded
        <4> QED BY <4>1, <4>2 DEF Succeeded
      <3>2. ASSUME NEW i \in 1 .. Len(runRows'), Succeeded(i, s)', runRows'[i].finished < inFlight.began
            PROVE  runRows'[i].finished <= inFlight.success[s]
        <4>1. i \in 1 .. Len(runRows) /\ runRows'[i] = runRows[i] /\ Succeeded(i, s)
          BY <2>1, <2>2, <2>4, <3>2
        <4> QED BY <1>0, <2>4, <3>2, <4>1 DEF InFlightIsTrue
      <3> QED BY <3>1, <3>2
    <2>5. ASSUME inFlight.step = "build"
          PROVE  /\ inFlight.attempts <= Cardinality(RecentRuns({"open", "failed", "succeeded"})')
                 /\ inFlight.good = 0 =>
                      \A i \in 1 .. Len(runRows') :
                          (/\ runRows'[i].mode = "full" /\ runRows'[i].status = "succeeded"
                           /\ runRows'[i].finished < inFlight.began)
                          => runRows'[i].queued <= inFlight.began - StatusWindow
      <3> DEFINE Before == RecentRuns({"open", "failed", "succeeded"})
                 After == RecentRuns({"open", "failed", "succeeded"})'
      <3>1. Before \subseteq After /\ After \subseteq 1 .. Len(runRows')
        BY <1>0, <1>n, <1>d, <1>k, <1>r DEF RecentRuns, Polls
      <3>2. inFlight.attempts <= Cardinality(Before) BY <1>0, <2>5 DEF InFlightIsTrue
      <3> HIDE DEF Before, After
      <3>3. IsFiniteSet(After)
        <4>1. IsFiniteSet(1 .. Len(runRows')) BY <1>d, FS_Interval
        <4> QED BY <3>1, <4>1, FS_Subset
      <3>4. IsFiniteSet(Before) /\ Cardinality(Before) <= Cardinality(After)
        BY <3>1, <3>3, FS_Subset
      <3>5. inFlight.attempts <= Cardinality(After)
        BY <1>n, <3>2, <3>3, <3>4, FS_CardinalityType
      <3>6. ASSUME inFlight.good = 0, NEW i \in 1 .. Len(runRows'), runRows'[i].mode = "full",
                   runRows'[i].status = "succeeded", runRows'[i].finished < inFlight.began
            PROVE  runRows'[i].queued <= inFlight.began - StatusWindow
        <4>1. i \in 1 .. Len(runRows) /\ runRows'[i] = runRows[i]
          BY <1>n, <1>s, <2>2, <2>5, <3>6
        <4> QED BY <1>0, <2>5, <3>6, <4>1 DEF InFlightIsTrue
      <3> QED BY <3>5, <3>6 DEF After
    <2> QED BY <1>0, <2>2, <2>3, <2>4, <2>5 DEF InFlightIsTrue
  <1>3. ASSUME cached.made >= 0
        PROVE  CachedIsTrue'
    <2>0. /\ 0 <= cached.began /\ cached.began <= cached.made /\ cached.made <= hour
          /\ cached.began \in Nat /\ cached.made \in Nat
      BY <1>0, <1>n, <1>3 DEF CachedIsTrue
    <2>1. ASSUME NEW i \in 1 .. Len(runRows'), runRows'[i].status = "succeeded",
                 runRows'[i].finished <= cached.began - 1
          PROVE  i \in 1 .. Len(runRows) /\ runRows'[i] = runRows[i]
      BY <1>n, <1>s, <2>0, <2>1
    <2>2. ASSUME NEW s \in StatusSources
          PROVE  /\ cached.source[s] = "ok" => Delivered(s, cached.made - StatusWindow, cached.made)'
                 /\ cached.source[s] \in {"stale", "failing"} =>
                       ~Delivered(s, cached.made - StatusWindow, cached.began - 1)'
                 /\ cached.source[s] = "never_imported" => ~Delivered(s, 0, cached.began - 1)'
      <3>1. ASSUME NEW a \in Int, NEW b \in Int, Delivered(s, a, b)
            PROVE  \E i \in DOMAIN runRows' :
                      /\ runRows'[i].source = s /\ runRows'[i].mode = "full"
                      /\ runRows'[i].status = "succeeded" /\ runRows'[i].finished \in a .. b
        <4>1. PICK i \in 1 .. Len(runRows) :
                      /\ runRows[i].source = s /\ runRows[i].mode = "full"
                      /\ runRows[i].status = "succeeded" /\ runRows[i].finished \in a .. b
          BY <1>n, <3>1 DEF Delivered
        <4>2. i \in DOMAIN runRows' /\ runRows'[i] = runRows[i] BY <1>d, <1>k, <4>1
        <4> QED BY <4>1, <4>2
      <3>2. ASSUME NEW a \in Int, NEW i \in DOMAIN runRows',
                   runRows'[i].source = s, runRows'[i].mode = "full",
                   runRows'[i].status = "succeeded", runRows'[i].finished \in a .. cached.began - 1
            PROVE  Delivered(s, a, cached.began - 1)
        <4>1. i \in 1 .. Len(runRows) /\ runRows'[i] = runRows[i]
          BY <1>d, <2>0, <2>1, <3>2
        <4> QED BY <1>n, <3>2, <4>1 DEF Delivered
      <3>3. cached.made - StatusWindow \in Int /\ cached.began - 1 \in Int /\ cached.made \in Int
        BY <1>n
      <3>4. cached.source[s] = "ok" => Delivered(s, cached.made - StatusWindow, cached.made)'
        <4>1. cached.source[s] = "ok" => Delivered(s, cached.made - StatusWindow, cached.made)
          BY <1>0, <1>3 DEF CachedIsTrue
        <4> QED BY <1>0, <3>1, <3>3, <4>1 DEF Delivered
      <3>5. cached.source[s] \in {"stale", "failing"} =>
               ~Delivered(s, cached.made - StatusWindow, cached.began - 1)'
        <4>1. cached.source[s] \in {"stale", "failing"} =>
                 ~Delivered(s, cached.made - StatusWindow, cached.began - 1)
          BY <1>0, <1>3 DEF CachedIsTrue
        <4> QED BY <1>0, <3>2, <3>3, <4>1 DEF Delivered
      <3>6. cached.source[s] = "never_imported" => ~Delivered(s, 0, cached.began - 1)'
        <4>1. cached.source[s] = "never_imported" => ~Delivered(s, 0, cached.began - 1)
          BY <1>0, <1>3 DEF CachedIsTrue
        <4>2. 0 \in Int OBVIOUS
        <4> QED BY <1>0, <3>2, <4>1, <4>2 DEF Delivered
      <3> QED BY <3>4, <3>5, <3>6
    <2>3. ASSUME cached.supplier = "down"
          PROVE  /\ Cardinality({ i \in DOMAIN runRows' :
                      runRows'[i].mode = "full" /\ runRows'[i].queued \in
                        cached.began - StatusWindow + 1 .. cached.made }) >= MeaningfulRuns
                 /\ \A i \in DOMAIN runRows' :
                      runRows'[i].mode = "full" /\ runRows'[i].status = "succeeded"
                        /\ runRows'[i].finished \in 0 .. cached.began - 1
                      => runRows'[i].queued <= cached.began - StatusWindow
      <3> DEFINE Before == { i \in DOMAIN runRows :
                      runRows[i].mode = "full" /\ runRows[i].queued \in
                        cached.began - StatusWindow + 1 .. cached.made }
                 After == { i \in DOMAIN runRows' :
                      runRows'[i].mode = "full" /\ runRows'[i].queued \in
                        cached.began - StatusWindow + 1 .. cached.made }
      <3>1. Before \subseteq After /\ After \subseteq 1 .. Len(runRows')
        BY <1>n, <1>d, <1>k
      <3>2. Cardinality(Before) >= MeaningfulRuns BY <1>0, <1>3, <2>3 DEF CachedIsTrue
      <3> HIDE DEF Before, After
      <3>3. IsFiniteSet(After)
        <4>1. IsFiniteSet(1 .. Len(runRows')) BY <1>d, FS_Interval
        <4> QED BY <3>1, <4>1, FS_Subset
      <3>4. IsFiniteSet(Before) /\ Cardinality(Before) <= Cardinality(After)
        BY <3>1, <3>3, FS_Subset
      <3>5. Cardinality(After) >= MeaningfulRuns
        BY <1>n, <3>2, <3>3, <3>4, FS_CardinalityType
      <3>6. ASSUME NEW i \in DOMAIN runRows', runRows'[i].mode = "full",
                   runRows'[i].status = "succeeded", runRows'[i].finished \in 0 .. cached.began - 1
            PROVE  runRows'[i].queued <= cached.began - StatusWindow
        <4>1. i \in 1 .. Len(runRows) /\ runRows'[i] = runRows[i]
          BY <1>d, <2>0, <2>1, <3>6
        <4> QED BY <1>0, <1>n, <1>3, <2>3, <3>6, <4>1 DEF CachedIsTrue
      <3> QED BY <3>5, <3>6 DEF After
    <2> QED BY <1>0, <2>0, <2>2, <2>3 DEF CachedIsTrue
  <1>4. ASSUME ~(cached.made >= 0) PROVE CachedIsTrue' BY <1>0, <1>4 DEF CachedIsTrue
  <1> QED BY <1>1, <1>2, <1>3, <1>4

(* The three statements: what each has read is true of the runs.           *)
LEMMA LatestIsRead ==
    ASSUME StatusInvariant, ReadLatest
    PROVE  StatusInvariant'
  <1>0. /\ StatusRows /\ RunsAreDated /\ InFlightIsTrue /\ CachedIsTrue /\ AnswerIsFresh
        /\ UNCHANGED <<hour, runRows, cached, waiting, answer>> /\ inFlight.step = "latest"
    BY DEF StatusInvariant, ReadLatest
  <1>n. /\ hour \in Nat /\ Hours \subseteq Int /\ inFlight.began \in Int
        /\ Len(runRows) \in Nat /\ DOMAIN runRows = 1 .. Len(runRows)
        /\ \A i \in 1 .. Len(runRows) : runRows[i] \in RunRows
    BY <1>0, StatusNumbers
  <1> DEFINE Newest(s) == LatestOf(Polling(s))
             found == [s \in StatusSources |->
                         IF Newest(s) = -1 THEN "none" ELSE runRows[Newest(s)].status]
  <1>1. inFlight' = [inFlight EXCEPT !.step = "success", !.latest = found]
    BY DEF ReadLatest
  <1>2. ASSUME NEW s \in StatusSources
        PROVE  /\ found[s] \in {"none", "open", "succeeded", "failed"}
               /\ found[s] = "none" => Polling(s) = {}
    <2>1. CASE Polling(s) = {}
      <3>1. Newest(s) = -1 BY <2>1 DEF LatestOf
      <3> QED BY <2>1, <3>1
    <2>2. CASE Polling(s) # {}
      <3>1. Polling(s) \subseteq 0 .. Len(runRows) /\ Polling(s) \subseteq 1 .. Len(runRows)
        BY <1>n DEF Polling
      <3>2. Newest(s) \in 1 .. Len(runRows) BY <1>n, <2>2, <3>1, LatestIsGreatest
      <3> HIDE DEF Newest
      <3>3. Newest(s) # -1 /\ runRows[Newest(s)] \in RunRows BY <1>n, <3>2
      <3>4. found[s] = runRows[Newest(s)].status BY <3>3
      <3> QED BY <3>3, <3>4 DEF RunRows
    <2> QED BY <2>1, <2>2
  <1>3. found \in [StatusSources -> {"none", "open", "succeeded", "failed"}] BY <1>2
  <1>4. ASSUME NEW s \in StatusSources, found[s] = "none", NEW i \in 1 .. Len(runRows)
        PROVE  ~Succeeded(i, s)
    BY <1>n, <1>2, <1>4 DEF Polling, Polls, Succeeded
  <1> HIDE DEF found
  <1>5. /\ inFlight'.step = "success" /\ inFlight'.began = inFlight.began
        /\ inFlight'.latest = found /\ inFlight'.success = inFlight.success
        /\ inFlight'.attempts = inFlight.attempts /\ inFlight'.good = inFlight.good
        /\ inFlight'.bad = inFlight.bad /\ inFlight' \in StatusRow
    BY <1>0, <1>1, <1>3 DEF StatusRows, StatusRow
  <1>6. StatusRows' BY <1>0, <1>5 DEF StatusRows
  <1>7. RunsAreDated' /\ CachedIsTrue' /\ AnswerIsFresh'
    BY <1>0 DEF RunsAreDated, CachedIsTrue, AnswerIsFresh, Delivered
  <1>8. InFlightIsTrue' BY <1>0, <1>4, <1>5 DEF InFlightIsTrue, Succeeded
  <1> QED BY <1>6, <1>7, <1>8 DEF StatusInvariant

LEMMA SuccessIsRead ==
    ASSUME StatusInvariant, ReadSuccess
    PROVE  StatusInvariant'
  <1>0. /\ StatusRows /\ RunsAreDated /\ InFlightIsTrue /\ CachedIsTrue /\ AnswerIsFresh
        /\ UNCHANGED <<hour, runRows, cached, waiting, answer>> /\ inFlight.step = "success"
    BY DEF StatusInvariant, ReadSuccess
  <1>n. /\ hour \in Nat /\ Hours \subseteq Int /\ inFlight.began \in Int /\ hour \in Hours
        /\ Hours = 0 .. LastHour /\ LastHour \in Nat
        /\ Len(runRows) \in Nat /\ DOMAIN runRows = 1 .. Len(runRows)
        /\ \A i \in 1 .. Len(runRows) : runRows[i] \in RunRows /\ runRows[i].finished \in Int
    BY <1>0, StatusNumbers DEF StatusRows, Hours
  <1> DEFINE Ends(s) == { runRows[i].finished : i \in { j \in Polling(s) : runRows[j].status = "succeeded" } }
             found == [s \in StatusSources |-> LatestOf(Ends(s))]
  <1>1. inFlight' = [inFlight EXCEPT !.step = "window", !.success = found]
    BY DEF ReadSuccess
  <1>2. ASSUME NEW s \in StatusSources
        PROVE  /\ found[s] \in Hours \cup {-1}
               /\ found[s] >= 0 => \E i \in 1 .. Len(runRows) :
                                      Succeeded(i, s) /\ runRows[i].finished = found[s]
               /\ \A i \in 1 .. Len(runRows) : Succeeded(i, s) => runRows[i].finished <= found[s]
    <2>1. \A i \in 1 .. Len(runRows) : Succeeded(i, s) => runRows[i].finished \in Ends(s)
      BY <1>n DEF Succeeded, Polling, Polls
    <2>2. ASSUME NEW h \in Ends(s)
          PROVE  h \in 0 .. hour /\ \E i \in 1 .. Len(runRows) : Succeeded(i, s) /\ runRows[i].finished = h
      <3>1. PICK i \in 1 .. Len(runRows) : Succeeded(i, s) /\ runRows[i].finished = h
        BY <1>n, <2>2 DEF Succeeded, Polling, Polls
      <3>2. runRows[i].finished \in Int /\ runRows[i].finished >= 0 /\ runRows[i].finished <= hour
        BY <1>0, <1>n, <3>1 DEF RunsAreDated, Succeeded
      <3> QED BY <1>n, <3>1, <3>2
    <2>3. found[s] = LatestOf(Ends(s)) OBVIOUS
    <2> HIDE DEF found, Ends
    <2>4. CASE Ends(s) = {}
      <3>1. found[s] = -1 BY <2>3, <2>4 DEF LatestOf
      <3> QED BY <2>1, <2>4, <3>1
    <2>5. CASE Ends(s) # {}
      <3>1. found[s] \in Ends(s) /\ \A g \in Ends(s) : g <= found[s]
        BY <1>n, <2>2, <2>3, <2>5, LatestIsGreatest
      <3>2. 0 .. hour \subseteq Hours BY <1>n
      <3> QED BY <2>1, <2>2, <3>1, <3>2
    <2> QED BY <2>4, <2>5
  <1>3. found \in [StatusSources -> Hours \cup {-1}] BY <1>2
  <1> HIDE DEF found
  <1>5. /\ inFlight'.step = "window" /\ inFlight'.began = inFlight.began
        /\ inFlight'.latest = inFlight.latest /\ inFlight'.success = found
        /\ inFlight'.attempts = inFlight.attempts /\ inFlight'.good = inFlight.good
        /\ inFlight'.bad = inFlight.bad /\ inFlight' \in StatusRow
    BY <1>0, <1>1, <1>3 DEF StatusRows, StatusRow
  <1>6. StatusRows' BY <1>0, <1>5 DEF StatusRows
  <1>7. RunsAreDated' /\ CachedIsTrue' /\ AnswerIsFresh'
    BY <1>0 DEF RunsAreDated, CachedIsTrue, AnswerIsFresh, Delivered
  <1>8. InFlightIsTrue'
    <2>1. \A i, s : Succeeded(i, s)' <=> Succeeded(i, s) BY <1>0 DEF Succeeded
    <2> QED BY <1>0, <1>2, <1>5, <2>1 DEF InFlightIsTrue
  <1> QED BY <1>6, <1>7, <1>8 DEF StatusInvariant

LEMMA WindowIsRead ==
    ASSUME StatusInvariant, ReadWindow
    PROVE  StatusInvariant'
  <1>0. /\ StatusRows /\ RunsAreDated /\ InFlightIsTrue /\ CachedIsTrue /\ AnswerIsFresh
        /\ UNCHANGED <<hour, runRows, cached, waiting, answer>> /\ inFlight.step = "window"
    BY DEF StatusInvariant, ReadWindow
  <1>n. /\ inFlight.began \in Int /\ StatusWindow \in Nat /\ MaxRunRows \in Nat
        /\ Len(runRows) \in Nat /\ DOMAIN runRows = 1 .. Len(runRows)
        /\ Len(runRows) <= MaxRunRows
        /\ \A i \in 1 .. Len(runRows) : runRows[i].queued \in Int
    BY <1>0, StatusNumbers DEF StatusRows
  <1> DEFINE All == RecentRuns({"open", "failed", "succeeded"})
             Good == RecentRuns({"succeeded"})
             Bad == RecentRuns({"failed"})
  <1>1. inFlight' = [inFlight EXCEPT !.step = "build", !.attempts = Cardinality(All),
                        !.good = Cardinality(Good), !.bad = Cardinality(Bad)]
    BY DEF ReadWindow, RecentRuns
  <1>2. /\ All \subseteq 1 .. Len(runRows) /\ Good \cup Bad \subseteq All /\ Good \cap Bad = {}
        /\ Good \subseteq All /\ Bad \subseteq All
    BY <1>n DEF RecentRuns
  <1>3. \A i \in 1 .. Len(runRows) :
           (runRows[i].mode = "full" /\ runRows[i].status = "succeeded" /\ i \notin Good)
           => runRows[i].queued <= inFlight.began - StatusWindow
    BY <1>n DEF RecentRuns, Polls
  <1>a. All = RecentRuns({"open", "failed", "succeeded"}) OBVIOUS
  <1> HIDE DEF All, Good, Bad
  <1>4. IsFiniteSet(1 .. Len(runRows)) /\ Cardinality(1 .. Len(runRows)) = Len(runRows)
    BY <1>n, FS_Interval
  <1>5. IsFiniteSet(All) /\ Cardinality(All) <= Len(runRows) BY <1>2, <1>4, FS_Subset
  <1>6. IsFiniteSet(Good) /\ IsFiniteSet(Bad) BY <1>2, <1>5, FS_Subset
  <1>7. Cardinality(Good \cup Bad) <= Cardinality(All) BY <1>2, <1>5, FS_Subset
  <1>8. Cardinality({}) = 0 /\ (Cardinality(Good) = 0 => Good = {}) BY <1>6, FS_EmptySet
  <1>9. Cardinality(Good \cup Bad) = Cardinality(Good) + Cardinality(Bad) - Cardinality(Good \cap Bad)
    BY <1>6, FS_Union
  <1>10. /\ Cardinality(All) \in Nat /\ Cardinality(Good) \in Nat /\ Cardinality(Bad) \in Nat
    BY <1>5, <1>6, FS_CardinalityType
  <1>11. /\ Cardinality(Good) + Cardinality(Bad) <= Cardinality(All)
         /\ Cardinality(All) <= MaxRunRows
    <2>1. Cardinality(Good \cap Bad) = 0 BY <1>2, <1>8
    <2> QED BY <1>n, <1>5, <1>7, <1>9, <1>10, <2>1
  <1>12. /\ inFlight'.step = "build" /\ inFlight'.began = inFlight.began
         /\ inFlight'.latest = inFlight.latest /\ inFlight'.success = inFlight.success
         /\ inFlight'.attempts = Cardinality(All) /\ inFlight'.good = Cardinality(Good)
         /\ inFlight'.bad = Cardinality(Bad) /\ inFlight' \in StatusRow
    BY <1>0, <1>1, <1>10 DEF StatusRows, StatusRow
  <1>13. StatusRows' BY <1>0, <1>11, <1>12 DEF StatusRows
  <1>14. RunsAreDated' /\ CachedIsTrue' /\ AnswerIsFresh'
    BY <1>0 DEF RunsAreDated, CachedIsTrue, AnswerIsFresh, Delivered
  <1>15. InFlightIsTrue'
    <2>1. \A i, s : Succeeded(i, s)' <=> Succeeded(i, s) BY <1>0 DEF Succeeded
    <2>2. RecentRuns({"open", "failed", "succeeded"})' = All
      BY <1>0, <1>12, <1>a DEF RecentRuns
    <2>3. Cardinality(All) <= Cardinality(All) BY <1>10
    <2>4. (/\ inFlight'.attempts <= Cardinality(RecentRuns({"open", "failed", "succeeded"})'))
      BY <1>12, <2>2, <2>3
    <2>5. inFlight'.good = 0 =>
                \A i \in 1 .. Len(runRows) :
                    (/\ runRows[i].mode = "full" /\ runRows[i].status = "succeeded")
                    => runRows[i].queued <= inFlight.began - StatusWindow
      BY <1>3, <1>8, <1>12
    <2> QED BY <1>0, <1>12, <2>1, <2>4, <2>5 DEF InFlightIsTrue
  <1> QED BY <1>13, <1>14, <1>15 DEF StatusInvariant

(* The answer is put together of what was read.                            *)
LEMMA AnswerIsBuilt ==
    ASSUME StatusInvariant, Build
    PROVE  StatusInvariant'
  <1>0. /\ StatusRows /\ RunsAreDated /\ InFlightIsTrue /\ CachedIsTrue /\ AnswerIsFresh
        /\ hour' = hour /\ runRows' = runRows /\ inFlight.step = "build"
        /\ inFlight' = NotRead /\ waiting' = FALSE
        /\ answer' = IF waiting THEN [made |-> cached'.made, at |-> hour, old |-> FALSE] ELSE answer
    BY DEF StatusInvariant, Build, Given
  <1>n. /\ hour \in Nat /\ Hours \subseteq Int /\ hour \in Hours /\ inFlight.began \in Int
        /\ Hours = 0 .. LastHour /\ LastHour \in Nat
        /\ StatusWindow \in Nat /\ StatusTTL \in Nat /\ MeaningfulRuns \in Nat /\ MeaningfulRuns >= 1
        /\ MaxRunRows \in Nat /\ inFlight.attempts \in Nat /\ inFlight.good \in Nat
        /\ Len(runRows) \in Nat /\ DOMAIN runRows = 1 .. Len(runRows)
        /\ \A s \in StatusSources : inFlight.success[s] \in Int
        /\ \A i \in 1 .. Len(runRows) : runRows[i].queued \in Int /\ runRows[i].finished \in Int
    BY <1>0, StatusNumbers DEF StatusRows, Hours
  <1>b. 0 <= inFlight.began /\ inFlight.began <= hour /\ inFlight.began \in Hours
    <2>1. 0 <= inFlight.began /\ inFlight.began <= hour BY <1>0 DEF InFlightIsTrue
    <2> QED BY <1>n, <2>1
  <1>1. /\ cached'.made = hour /\ cached'.began = inFlight.began
        /\ cached'.source = [s \in StatusSources |-> SourceState(s)]
        /\ cached'.supplier = SupplierState
        /\ cached' = [made |-> hour, began |-> inFlight.began,
                      source |-> [s \in StatusSources |-> SourceState(s)], supplier |-> SupplierState]
    BY DEF Build
  <1>2. ASSUME NEW s \in StatusSources
        PROVE  /\ SourceState(s) \in States
               /\ SourceState(s) = "ok" => inFlight.success[s] >= 0 /\ hour - inFlight.success[s] <= StatusWindow
               /\ SourceState(s) \in {"stale", "failing"} =>
                     ~(inFlight.success[s] >= 0 /\ hour - inFlight.success[s] <= StatusWindow)
               /\ SourceState(s) = "never_imported" => inFlight.latest[s] = "none"
    <2> DEFINE Recently == inFlight.success[s] >= 0 /\ hour - inFlight.success[s] <= StatusWindow
    <2>1. CASE s \in Merged
      <3>1. SourceState(s) = "discontinued" BY <2>1 DEF SourceState
      <3> QED BY <3>1 DEF States
    <2>2. CASE s \notin Merged /\ inFlight.latest[s] = "none"
      BY <2>2 DEF SourceState, States
    <2>3. CASE s \notin Merged /\ inFlight.latest[s] # "none" /\ Recently
      <3>1. SourceState(s) = "ok" BY <2>3 DEF SourceState
      <3> QED BY <2>3, <3>1 DEF States
    <2>4. CASE s \notin Merged /\ inFlight.latest[s] # "none" /\ ~Recently /\ inFlight.latest[s] = "failed"
      <3>1. SourceState(s) = "failing" BY <2>4 DEF SourceState
      <3> QED BY <2>4, <3>1 DEF States
    <2>5. CASE s \notin Merged /\ inFlight.latest[s] # "none" /\ ~Recently /\ inFlight.latest[s] # "failed"
      <3>1. SourceState(s) = "stale" BY <2>5 DEF SourceState
      <3> QED BY <2>5, <3>1 DEF States
    <2> QED BY <2>1, <2>2, <2>3, <2>4, <2>5
  <1>3. /\ SupplierState \in {"none", "ok", "idle", "down", "degraded"}
        /\ SupplierState = "down" => inFlight.attempts >= MeaningfulRuns /\ inFlight.good = 0
    BY DEF SupplierState
  <1>4. StatusRows'
    <2>1. [s \in StatusSources |-> SourceState(s)] \in [StatusSources -> States] BY <1>2
    <2>2. cached' \in AnswerRow BY <1>n, <1>b, <1>1, <1>3, <2>1 DEF AnswerRow
    <2>3. answer' \in [made: Hours \cup {-1}, at: Hours \cup {-1}, old: BOOLEAN]
      BY <1>0, <1>n, <1>1 DEF StatusRows
    <2>4. /\ inFlight' \in StatusRow /\ inFlight'.attempts = 0 /\ inFlight'.good = 0
          /\ inFlight'.bad = 0 /\ inFlight'.step = "none"
      BY <1>0 DEF StatusRow, NotRead
    <2>5. inFlight'.attempts <= MaxRunRows /\ inFlight'.good + inFlight'.bad <= inFlight'.attempts
      BY <1>n, <2>4
    <2> QED BY <1>0, <2>2, <2>3, <2>4, <2>5 DEF StatusRows
  <1>5. RunsAreDated' BY <1>0 DEF RunsAreDated
  <1>6. AnswerIsFresh' BY <1>0, <1>n, <1>1 DEF AnswerIsFresh
  <1>7. InFlightIsTrue' BY <1>0 DEF InFlightIsTrue, NotRead
  <1>8. CachedIsTrue'
    <2>1. ASSUME NEW s \in StatusSources
          PROVE  /\ SourceState(s) = "ok" => Delivered(s, hour - StatusWindow, hour)
                 /\ SourceState(s) \in {"stale", "failing"} =>
                       ~Delivered(s, hour - StatusWindow, inFlight.began - 1)
                 /\ SourceState(s) = "never_imported" => ~Delivered(s, 0, inFlight.began - 1)
      <3>1. ASSUME SourceState(s) = "ok" PROVE Delivered(s, hour - StatusWindow, hour)
        <4>1. inFlight.success[s] >= 0 /\ hour - inFlight.success[s] <= StatusWindow
          BY <1>2, <3>1
        <4>2. PICK i \in 1 .. Len(runRows) :
                 Succeeded(i, s) /\ runRows[i].finished = inFlight.success[s]
          BY <1>0, <4>1 DEF InFlightIsTrue
        <4>3. runRows[i].finished <= hour BY <1>0, <4>2 DEF RunsAreDated
        <4>4. runRows[i].finished \in hour - StatusWindow .. hour
          BY <1>n, <4>1, <4>2, <4>3
        <4> QED BY <1>n, <4>2, <4>4 DEF Delivered, Succeeded
      <3>2. ASSUME SourceState(s) \in {"stale", "failing"},
                   Delivered(s, hour - StatusWindow, inFlight.began - 1)
            PROVE  FALSE
        <4>1. PICK i \in 1 .. Len(runRows) :
                 Succeeded(i, s) /\ runRows[i].finished \in hour - StatusWindow .. inFlight.began - 1
          BY <1>n, <3>2 DEF Delivered, Succeeded
        <4>2. runRows[i].finished >= 0 BY <1>0, <4>1 DEF RunsAreDated, Succeeded
        <4>3. runRows[i].finished < inFlight.began /\ hour - StatusWindow <= runRows[i].finished
          BY <1>n, <4>1
        <4>4. runRows[i].finished <= inFlight.success[s]
          BY <1>0, <4>1, <4>3 DEF InFlightIsTrue
        <4>5. ~(inFlight.success[s] >= 0 /\ hour - inFlight.success[s] <= StatusWindow)
          BY <1>2, <3>2
        <4>6. \A a, b, h, w \in Int : (a >= 0 /\ h - w <= a /\ a <= b) => (b >= 0 /\ h - b <= w)
          OBVIOUS
        <4> QED BY <1>n, <4>2, <4>3, <4>4, <4>5, <4>6
      <3>3. ASSUME SourceState(s) = "never_imported", Delivered(s, 0, inFlight.began - 1)
            PROVE  FALSE
        <4>1. PICK i \in 1 .. Len(runRows) :
                 Succeeded(i, s) /\ runRows[i].finished \in 0 .. inFlight.began - 1
          BY <1>n, <3>3 DEF Delivered, Succeeded
        <4>2. inFlight.latest[s] = "none" BY <1>2, <3>3
        <4>3. runRows[i].finished >= inFlight.began
          BY <1>0, <4>1, <4>2 DEF InFlightIsTrue
        <4> QED BY <1>n, <4>1, <4>3
      <3> QED BY <3>1, <3>2, <3>3
    <2>2. ASSUME SupplierState = "down"
          PROVE  /\ Cardinality({ i \in DOMAIN runRows :
                      runRows[i].mode = "full" /\ runRows[i].queued \in
                        inFlight.began - StatusWindow + 1 .. hour }) >= MeaningfulRuns
                 /\ \A i \in DOMAIN runRows :
                      runRows[i].mode = "full" /\ runRows[i].status = "succeeded"
                        /\ runRows[i].finished \in 0 .. inFlight.began - 1
                      => runRows[i].queued <= inFlight.began - StatusWindow
      <3> DEFINE Recent == RecentRuns({"open", "failed", "succeeded"})
                 Queued == { i \in DOMAIN runRows :
                      runRows[i].mode = "full" /\ runRows[i].queued \in
                        inFlight.began - StatusWindow + 1 .. hour }
      <3>0. inFlight.attempts >= MeaningfulRuns /\ inFlight.good = 0 BY <1>3, <2>2
      <3>1. inFlight.attempts <= Cardinality(Recent) BY <1>0 DEF InFlightIsTrue
      <3>2. Recent \subseteq Queued /\ Queued \subseteq 1 .. Len(runRows)
        <4>1. \A i \in 1 .. Len(runRows) : runRows[i].queued <= hour
          BY <1>0 DEF RunsAreDated
        <4> QED BY <1>n, <4>1 DEF RecentRuns, Polls
      <3> HIDE DEF Recent, Queued
      <3>3. IsFiniteSet(1 .. Len(runRows))
        <4>1. 1 \in Int /\ Len(runRows) \in Int BY <1>n
        <4> QED BY <4>1, FS_Interval
      <3>4. IsFiniteSet(Queued) BY <3>2, <3>3, FS_Subset
      <3>5. IsFiniteSet(Recent) /\ Cardinality(Recent) <= Cardinality(Queued)
        BY <3>2, <3>4, FS_Subset
      <3>6. Cardinality(Queued) >= MeaningfulRuns
        BY <1>n, <3>0, <3>1, <3>4, <3>5, FS_CardinalityType
      <3>7. ASSUME NEW i \in DOMAIN runRows, runRows[i].mode = "full",
                   runRows[i].status = "succeeded", runRows[i].finished \in 0 .. inFlight.began - 1
            PROVE  runRows[i].queued <= inFlight.began - StatusWindow
        <4>1. i \in 1 .. Len(runRows) /\ runRows[i].finished < inFlight.began
          BY <1>n, <3>7
        <4> QED BY <1>0, <3>0, <3>7, <4>1 DEF InFlightIsTrue
      <3> QED BY <3>6, <3>7 DEF Queued
    <2>3. \A s, a, b : Delivered(s, a, b)' <=> Delivered(s, a, b) BY <1>0 DEF Delivered
    <2>4. \A s \in StatusSources : cached'.source[s] = SourceState(s) BY <1>1
    <2>5. 0 <= cached'.began /\ cached'.began <= cached'.made /\ cached'.made <= hour'
      BY <1>0, <1>n, <1>b, <1>1
    <2>6. \A s \in StatusSources :
             /\ cached'.source[s] = "ok" => Delivered(s, cached.made - StatusWindow, cached.made)'
             /\ cached'.source[s] \in {"stale", "failing"} =>
                   ~Delivered(s, cached.made - StatusWindow, cached.began - 1)'
             /\ cached'.source[s] = "never_imported" => ~Delivered(s, 0, cached.began - 1)'
      BY <1>0, <1>1, <2>1, <2>4 DEF Delivered
    <2> QED BY <1>0, <1>1, <2>2, <2>5, <2>6 DEF CachedIsTrue
  <1> QED BY <1>4, <1>5, <1>6, <1>7, <1>8 DEF StatusInvariant

LEMMA StatusIsKept ==
    ASSUME StatusInvariant, [StatusNext]_statusVars
    PROVE  StatusInvariant'
  <1>0. /\ StatusRows /\ RunsAreDated /\ InFlightIsTrue /\ CachedIsTrue /\ AnswerIsFresh
    BY DEF StatusInvariant
  <1>n. /\ hour \in Nat /\ Hours \subseteq Int /\ hour \in Hours /\ inFlight.began \in Int
        /\ LastHour \in Nat /\ Hours = 0 .. LastHour /\ MaxRunRows \in Nat
        /\ cached.made \in Int /\ cached.began \in Int /\ StatusTTL \in Nat
        /\ answer.made \in Int /\ answer.at \in Int
        /\ Len(runRows) \in Nat /\ DOMAIN runRows = 1 .. Len(runRows)
        /\ \A i \in 1 .. Len(runRows) : runRows[i].queued \in Int /\ runRows[i].finished \in Int
    BY <1>0, StatusNumbers DEF StatusRows, Hours
  <1>b. /\ Begun \in StatusRow /\ Begun.step = "latest" /\ Begun.began = hour
        /\ Begun.attempts <= MaxRunRows /\ Begun.good + Begun.bad <= Begun.attempts
    <2>1. /\ Begun \in StatusRow /\ Begun.step = "latest" /\ Begun.began = hour
          /\ Begun.attempts = 0 /\ Begun.good = 0 /\ Begun.bad = 0
      BY <1>n DEF Begun, NotRead, StatusRow
    <2> QED BY <1>n, <2>1
  <1>r. /\ NotRead \in StatusRow /\ NotRead.step = "none"
        /\ NotRead.attempts <= MaxRunRows /\ NotRead.good + NotRead.bad <= NotRead.attempts
    <2>1. /\ NotRead \in StatusRow /\ NotRead.step = "none"
          /\ NotRead.attempts = 0 /\ NotRead.good = 0 /\ NotRead.bad = 0
      BY DEF NotRead, StatusRow
    <2> QED BY <1>n, <2>1
  <1>1. CASE HourPasses
    <2>0. /\ hour < LastHour /\ hour' = hour + 1 /\ runRows' = runRows /\ cached' = cached
          /\ inFlight' = inFlight /\ waiting' = waiting /\ answer' = answer
      BY <1>1 DEF HourPasses
    <2>1. StatusRows' BY <1>0, <1>n, <2>0 DEF StatusRows
    <2>2. RunsAreDated'
      <3>1. ASSUME NEW i \in 1 .. Len(runRows)
            PROVE  runRows[i].queued <= hour + 1 /\ runRows[i].finished <= hour + 1
        <4>1. runRows[i].queued <= hour /\ runRows[i].finished <= hour
          BY <1>0 DEF RunsAreDated
        <4> QED BY <1>n, <4>1
      <3> QED BY <1>0, <2>0, <3>1 DEF RunsAreDated
    <2>3. InFlightIsTrue'
      <3>1. \A i, s : Succeeded(i, s)' <=> Succeeded(i, s) BY <2>0 DEF Succeeded
      <3>2. \A S : RecentRuns(S)' = RecentRuns(S) BY <2>0 DEF RecentRuns
      <3>3. inFlight.step # "none" => 0 <= inFlight.began /\ inFlight.began <= hour'
        BY <1>0, <1>n, <2>0 DEF InFlightIsTrue
      <3> QED BY <1>0, <2>0, <3>1, <3>2, <3>3 DEF InFlightIsTrue
    <2>4. CachedIsTrue'
      <3>1. \A s, a, b : Delivered(s, a, b)' <=> Delivered(s, a, b)
        BY <2>0 DEF Delivered
      <3>2. cached.made >= 0 => cached.made <= hour'
        BY <1>0, <1>n, <2>0 DEF CachedIsTrue
      <3> QED BY <1>0, <2>0, <3>1, <3>2 DEF CachedIsTrue, Delivered
    <2> QED BY <1>0, <2>0, <2>1, <2>2, <2>3, <2>4 DEF StatusInvariant, AnswerIsFresh
  <1>2. CASE Ask
    <2>0. hour' = hour /\ runRows' = runRows /\ cached' = cached BY <1>2 DEF Ask
    <2>1. RunsAreDated' /\ CachedIsTrue'
      BY <1>0, <2>0 DEF RunsAreDated, CachedIsTrue, Delivered
    <2>2. CASE Fresh
      <3>1. /\ answer' = [made |-> cached.made, at |-> hour, old |-> FALSE]
            /\ inFlight' = inFlight /\ waiting' = waiting
        BY <1>2, <2>2 DEF Ask
      <3>2. StatusRows'
        <4>1. cached.made \in Hours \cup {-1} BY <1>0 DEF StatusRows, AnswerRow
        <4>2. answer' \in [made: Hours \cup {-1}, at: Hours \cup {-1}, old: BOOLEAN]
          BY <1>n, <3>1, <4>1
        <4> QED BY <1>0, <2>0, <3>1, <4>2 DEF StatusRows
      <3>3. AnswerIsFresh' BY <1>n, <2>2, <3>1 DEF AnswerIsFresh, Fresh
      <3>4. InFlightIsTrue'
        BY <1>0, <2>0, <3>1 DEF InFlightIsTrue, Succeeded, RecentRuns
      <3> QED BY <2>1, <3>2, <3>3, <3>4 DEF StatusInvariant
    <2>3. CASE ~Fresh
      <3>1. /\ inFlight' = IF inFlight.step = "none" THEN Begun ELSE inFlight
            /\ answer' = answer /\ waiting' = TRUE
        BY <1>2, <2>3 DEF Ask
      <3>2. AnswerIsFresh' BY <1>0, <3>1 DEF AnswerIsFresh
      <3>3. CASE inFlight.step = "none"
        <4>1. inFlight' = Begun BY <3>1, <3>3
        <4>2. StatusRows' BY <1>0, <1>b, <2>0, <3>1, <4>1 DEF StatusRows
        <4>3. InFlightIsTrue' BY <1>n, <1>b, <2>0, <4>1 DEF InFlightIsTrue
        <4> QED BY <2>1, <3>2, <4>2, <4>3 DEF StatusInvariant
      <3>4. CASE inFlight.step # "none"
        <4>1. inFlight' = inFlight BY <3>1, <3>4
        <4>2. StatusRows' BY <1>0, <2>0, <3>1, <3>4, <4>1 DEF StatusRows
        <4>3. InFlightIsTrue'
          BY <1>0, <2>0, <4>1 DEF InFlightIsTrue, Succeeded, RecentRuns
        <4> QED BY <2>1, <3>2, <4>2, <4>3 DEF StatusInvariant
      <3> QED BY <3>3, <3>4
    <2> QED BY <2>2, <2>3
  <1>3. CASE OthersAsk
    <2>0. /\ inFlight' = Begun /\ hour' = hour /\ runRows' = runRows /\ cached' = cached
          /\ waiting' = waiting /\ answer' = answer /\ inFlight.step = "none"
      BY <1>3 DEF OthersAsk
    <2>1. RunsAreDated' /\ CachedIsTrue' /\ AnswerIsFresh'
      BY <1>0, <2>0 DEF RunsAreDated, CachedIsTrue, Delivered, AnswerIsFresh
    <2>2. StatusRows' BY <1>0, <1>b, <2>0 DEF StatusRows
    <2>3. InFlightIsTrue' BY <1>n, <1>b, <2>0 DEF InFlightIsTrue
    <2> QED BY <2>1, <2>2, <2>3 DEF StatusInvariant
  <1>4. CASE ReadLatest BY <1>4, LatestIsRead
  <1>5. CASE ReadSuccess BY <1>5, SuccessIsRead
  <1>6. CASE ReadWindow BY <1>6, WindowIsRead
  <1>7. CASE Build BY <1>7, AnswerIsBuilt
  <1>8. CASE ComputeFails
    <2>0. /\ inFlight' = NotRead /\ waiting' = FALSE /\ hour' = hour /\ runRows' = runRows
          /\ cached' = cached
          /\ \/ answer' = [made |-> cached.made, at |-> hour, old |-> TRUE]
             \/ answer' = answer
      BY <1>8 DEF ComputeFails, Given
    <2>1. RunsAreDated' /\ CachedIsTrue'
      BY <1>0, <2>0 DEF RunsAreDated, CachedIsTrue, Delivered
    <2>2. cached.made \in Hours \cup {-1} BY <1>0 DEF StatusRows, AnswerRow
    <2>3. answer' \in [made: Hours \cup {-1}, at: Hours \cup {-1}, old: BOOLEAN]
      <3>1. [made |-> cached.made, at |-> hour, old |-> TRUE]
               \in [made: Hours \cup {-1}, at: Hours \cup {-1}, old: BOOLEAN]
        BY <1>n, <2>2
      <3> QED BY <1>0, <2>0, <3>1 DEF StatusRows
    <2>4. StatusRows' BY <1>0, <1>r, <2>0, <2>3 DEF StatusRows
    <2>5. AnswerIsFresh' /\ InFlightIsTrue'
      BY <1>0, <1>r, <2>0 DEF AnswerIsFresh, InFlightIsTrue
    <2> QED BY <2>1, <2>4, <2>5 DEF StatusInvariant
  <1>9. CASE \/ \E s \in StatusSources, mode \in {"full", "other"} : QueueRun(s, mode)
             \/ \E i \in 1 .. MaxRunRows, status \in {"succeeded", "failed"} : SettleRun(i, status)
    <2>0. UNCHANGED <<hour, cached, inFlight, waiting, answer>>
      BY <1>9 DEF QueueRun, SettleRun
    <2>1. RunsGoOn /\ runRows' \in Seq(RunRows) /\ Len(runRows') <= MaxRunRows
      BY <1>0, <1>9, RunsDoGoOn
    <2>2. RunsAreDated' /\ InFlightIsTrue' /\ CachedIsTrue' BY <2>0, <2>1, SightingsStay
    <2>3. StatusRows' /\ AnswerIsFresh'
      BY <1>0, <2>0, <2>1 DEF StatusRows, AnswerIsFresh
    <2> QED BY <2>2, <2>3 DEF StatusInvariant
  <1>10. CASE UNCHANGED statusVars
    <2>0. /\ hour' = hour /\ runRows' = runRows /\ cached' = cached
          /\ inFlight' = inFlight /\ waiting' = waiting /\ answer' = answer
      BY <1>10 DEF statusVars
    <2> QED BY <1>0, <2>0 DEF StatusInvariant, StatusRows, RunsAreDated, InFlightIsTrue, CachedIsTrue,
                Delivered, AnswerIsFresh, Succeeded, RecentRuns
  <1> QED BY <1>1, <1>2, <1>3, <1>4, <1>5, <1>6, <1>7, <1>8, <1>9, <1>10 DEF StatusNext

LEMMA StatusStartsTrue ==
    ASSUME StatusInit
    PROVE  StatusInvariant
  <1>1. /\ hour = 0 /\ runRows = <<>> /\ cached = NoAnswer /\ inFlight = NotRead
        /\ waiting = FALSE /\ answer = [made |-> -1, at |-> -1, old |-> FALSE]
        /\ LastHour \in Nat /\ MaxRunRows \in Nat /\ StatusTTL \in Nat
    BY StatusAssumption DEF StatusInit
  <1>2. /\ NotRead \in StatusRow /\ NotRead.step = "none"
        /\ NotRead.attempts <= MaxRunRows /\ NotRead.good + NotRead.bad <= NotRead.attempts
        /\ NoAnswer \in AnswerRow /\ NoAnswer.made = -1
    <2>1. /\ NotRead \in StatusRow /\ NotRead.step = "none"
          /\ NotRead.attempts = 0 /\ NotRead.good = 0 /\ NotRead.bad = 0
          /\ NoAnswer \in AnswerRow /\ NoAnswer.made = -1
      BY DEF NotRead, StatusRow, NoAnswer, AnswerRow, States
    <2> QED BY <1>1, <2>1
  <1>3. runRows \in Seq(RunRows) /\ Len(runRows) = 0 BY <1>1
  <1>4. StatusRows
    <2>1. hour \in Hours /\ Len(runRows) <= MaxRunRows BY <1>1, <1>3 DEF Hours
    <2>2. answer \in [made: Hours \cup {-1}, at: Hours \cup {-1}, old: BOOLEAN] BY <1>1
    <2> QED BY <1>1, <1>2, <1>3, <2>1, <2>2 DEF StatusRows
  <1>5. RunsAreDated BY <1>3 DEF RunsAreDated
  <1>6. InFlightIsTrue /\ CachedIsTrue /\ AnswerIsFresh
    BY <1>1, <1>2 DEF InFlightIsTrue, CachedIsTrue, AnswerIsFresh
  <1> QED BY <1>4, <1>5, <1>6 DEF StatusInvariant

(* In every behaviour of the status page its statements and its answers    *)
(* agree with the runs, whatever is queued and settled in between.         *)
THEOREM StatusStaysTrue == StatusSpec => []StatusInvariant
  BY StatusStartsTrue, StatusIsKept, PTL DEF StatusSpec

LEMMA StatusFollows ==
    ASSUME StatusInvariant
    PROVE  StatusIsTrue
  BY DEF StatusInvariant, AnswerIsFresh, CachedIsTrue, StatusIsTrue
-----------------------------------------------------------------------------
(* AdminPage. Why a request that is left alone puts the page right: while  *)
(* it has the page to itself no other is under way, so the list it asked   *)
(* for is still the one its limit was worked out for, what it read is      *)
(* still what is listed when it ends, and the page is polled if it is a    *)
(* poll.                                                                   *)
IsList(s) == \E S : s \in Seq(S)

RequestRow ==
    [kind: {"none", "replace", "append", "poll", "import"},
     step: {"none", "summary", "runs", "issues", "posted"},
     filter: AdminFilters, offset: Nat, limit: Nat, alone: BOOLEAN]

AdminRows ==
    /\ runTable \in Seq(BOOLEAN) /\ IsList(runs) /\ filter \in AdminFilters
    /\ pollTimer \in BOOLEAN /\ runsHasMore \in BOOLEAN
    /\ runRequests \in [RequestNumbers -> RequestRow]
    /\ IsList(right.read) /\ right.atLeast \in Nat
    /\ right = [known |-> right.known, read |-> right.read, atLeast |-> right.atLeast]

Asks(r) ==
    /\ r.step = "summary" => r.kind = "poll" /\ r.offset = 0
    /\ r.step \in {"runs", "issues"} => r.kind \in {"replace", "append", "poll"}
    /\ r.step = "runs" /\ r.kind # "append" => r.offset = 0 /\ r.limit >= RunsPage

ListIsAsRead ==
    /\ runs = SubSeq(right.read, 1, Len(runs)) /\ Len(runs) <= Len(right.read)
    /\ Len(runs) >= LesserOf(right.atLeast, Len(right.read))
    /\ runsHasMore <=> Len(runs) < Len(right.read)

HasThePage(n) ==
    LET r == runRequests[n] IN
    /\ r.kind = "poll" => pollTimer
    /\ r.kind = "poll" /\ r.step = "runs" => r.limit >= Len(runs)
    /\ r.step = "issues" /\ r.kind # "append" => ListIsAsRead /\ right.known = FALSE

RequestsAreApart ==
    \A n \in RequestNumbers :
        /\ Asks(runRequests[n])
        /\ runRequests[n].alone =>
              /\ HasThePage(n)
              /\ \A m \in RequestNumbers : m # n => runRequests[m] = NoRequest

KnownMeansQuiet ==
    right.known => \A n \in RequestNumbers : runRequests[n] = NoRequest

AdminInvariant == AdminRows /\ RequestsAreApart /\ KnownMeansQuiet /\ AlonePutsRight

LEMMA AdminNumbers ==
    RunsPage \in Nat /\ RunsPage >= 1 /\ MaxAdminRuns \in Nat
  BY AdminPageAssumption

LEMMA ListFacts ==
    ASSUME NEW s, IsList(s)
    PROVE  Len(s) \in Nat /\ DOMAIN s = 1 .. Len(s) /\ \A i \in 1 .. Len(s) : s[i] \in { s[j] : j \in 1 .. Len(s) }
  <1>1. PICK S : s \in Seq(S) BY DEF IsList
  <1> QED BY <1>1

LEMMA PrefixIsList ==
    ASSUME NEW s, IsList(s), NEW a \in Nat, NEW b \in Int, b <= Len(s)
    PROVE  /\ IsList(SubSeq(s, a + 1, b))
           /\ Len(SubSeq(s, a + 1, b)) = IF a + 1 <= b THEN b - a ELSE 0
  <1> DEFINE S == { s[j] : j \in 1 .. Len(s) }
  <1>1. \A i \in a + 1 .. b : s[i] \in S BY ListFacts
  <1>2. a + 1 \in Int OBVIOUS
  <1> HIDE DEF S
  <1>3. /\ SubSeq(s, a + 1, b) \in Seq(S)
        /\ Len(SubSeq(s, a + 1, b)) = IF a + 1 <= b THEN b - (a + 1) + 1 ELSE 0
    BY <1>1, <1>2, SubSeqProperties
  <1> QED BY <1>3 DEF IsList

LEMMA ListsJoin ==
    ASSUME NEW s, NEW t, IsList(s), IsList(t)
    PROVE  IsList(s \o t)
  <1>1. PICK S : s \in Seq(S) BY DEF IsList
  <1>2. PICK T : t \in Seq(T) BY DEF IsList
  <1>3. s \in Seq(S \cup T) /\ t \in Seq(S \cup T) BY <1>1, <1>2
  <1>4. s \o t \in Seq(S \cup T) BY <1>3, ConcatProperties
  <1> QED BY <1>4 DEF IsList

LEMMA LeastNumber ==
    ASSUME NEW B \in SUBSET Nat, B # {}
    PROVE  \E n \in B : \A m \in B : n <= m
  <1>1. IsWellFoundedOn(OpToRel(<, Nat), Nat) BY NatLessThanWellFounded
  <1>2. PICK n \in B : \A m \in B : ~(<<m, n>> \in OpToRel(<, Nat)) BY <1>1, WFMin
  <1>3. \A m \in B : ~(m < n) BY <1>2 DEF OpToRel
  <1> QED BY <1>3

(* The i-th of a finite set of numbers.                                    *)
LEMMA EveryRankIsTaken ==
    ASSUME NEW S \in SUBSET Nat, IsFiniteSet(S), NEW i \in 1 .. Cardinality(S)
    PROVE  \E e \in S : Cardinality({ f \in S : f < e }) = i - 1
  <1> DEFINE Below(e) == { f \in S : f < e }
             Bad == { j \in 1 .. Cardinality(S) : ~\E e \in S : Cardinality(Below(e)) = j - 1 }
  <1>0. Cardinality(S) \in Nat /\ \A T : T \subseteq S => IsFiniteSet(T) /\ Cardinality(T) \in Nat
    BY FS_CardinalityType, FS_Subset
  <1> SUFFICES ASSUME i \in Bad PROVE FALSE OBVIOUS
  <1>1. PICK j \in Bad : \A k \in Bad : j <= k
    <2>1. Bad \in SUBSET Nat /\ Bad # {} BY <1>0
    <2> HIDE DEF Bad
    <2> QED BY <2>1, LeastNumber
  <1>2. j \in 1 .. Cardinality(S) /\ ~\E e \in S : Cardinality(Below(e)) = j - 1 BY <1>1
  <1>3. CASE j = 1
    <2>1. S # {} BY <1>0, <1>2, FS_EmptySet
    <2>2. PICK e \in S : \A f \in S : e <= f BY <2>1, LeastNumber
    <2>3. \A f \in S : ~(f < e) BY <2>2
    <2>4. Cardinality(Below(e)) = 0
      <3>1. Below(e) = {} BY <2>3
      <3> QED BY <3>1, FS_EmptySet
    <2>5. Cardinality(Below(e)) = j - 1 BY <1>3, <2>4
    <2> QED BY <1>2, <2>5
  <1>4. CASE j # 1
    <2>1. j - 1 \in 1 .. Cardinality(S) /\ j - 1 \notin Bad
      <3>1. j - 1 \in 1 .. Cardinality(S) /\ ~(j <= j - 1) BY <1>0, <1>2, <1>4
      <3> QED BY <1>1, <3>1
    <2>2. PICK e \in S : Cardinality(Below(e)) = (j - 1) - 1 BY <2>1
    <2> DEFINE UpTo == Below(e) \cup {e}
               Above == S \ UpTo
    <2>3. e \notin Below(e) /\ Below(e) \subseteq S /\ UpTo \subseteq S OBVIOUS
    <2>4. Cardinality(UpTo) = j - 1
      <3>1. Cardinality(UpTo) = Cardinality(Below(e)) + 1 BY <1>0, <2>3, FS_AddElement
      <3> QED BY <1>0, <1>2, <2>2, <3>1
    <2>5. Above # {} /\ Above \in SUBSET Nat
      <3>1. UpTo # S
        <4> HIDE DEF UpTo
        <4>1. Cardinality(UpTo) < Cardinality(S) BY <1>0, <1>2, <2>4
        <4> QED BY <1>0, <4>1
      <3> QED BY <2>3, <3>1
    <2>6. PICK m \in Above : \A f \in Above : m <= f
      <3> HIDE DEF Above
      <3> QED BY <2>5, LeastNumber
    <2>7. m \in S /\ Below(m) = UpTo
      <3>1. m \in S /\ m > e BY <2>6
      <3>2. \A f \in S : f < m => f \in UpTo BY <2>6, <3>1
      <3>3. \A f \in UpTo : f \in S /\ f < m BY <3>1
      <3> HIDE DEF UpTo
      <3> QED BY <3>1, <3>2, <3>3
    <2> QED BY <1>2, <2>4, <2>7
  <1> QED BY <1>3, <1>4

LEMMA EveryRankFromTheTop ==
    ASSUME NEW S \in SUBSET Nat, IsFiniteSet(S), NEW i \in 1 .. Cardinality(S)
    PROVE  \E e \in S : Cardinality({ f \in S : f > e }) = i - 1
  <1> DEFINE n == Cardinality(S)
  <1>1. n \in Nat /\ i \in 1 .. n /\ (n - i) + 1 \in 1 .. n BY FS_CardinalityType
  <1>2. PICK e \in S : Cardinality({ f \in S : f < e }) = ((n - i) + 1) - 1
    BY <1>1, EveryRankIsTaken
  <1> DEFINE Below == { f \in S : f < e }
             UpTo == Below \cup {e}
             Above == { f \in S : f > e }
  <1>3. IsFiniteSet(Below) /\ e \notin Below /\ IsFiniteSet(UpTo)
    <2>1. Below \subseteq S /\ UpTo \subseteq S OBVIOUS
    <2>2. e \notin Below OBVIOUS
    <2> HIDE DEF Below, UpTo
    <2> QED BY <2>1, <2>2, FS_Subset
  <1>4. Cardinality(UpTo) = Cardinality(Below) + 1 BY <1>3, FS_AddElement
  <1>5. Above = S \ UpTo /\ S \cap UpTo = UpTo
    <2>1. \A f \in S : f > e <=> ~(f < e \/ f = e) OBVIOUS
    <2>2. \A f \in S : f \in UpTo <=> (f < e \/ f = e) OBVIOUS
    <2>3. UpTo \subseteq S /\ Above \subseteq S /\ \A f \in S : f \in Above <=> f > e
      OBVIOUS
    <2> HIDE DEF UpTo, Above, Below
    <2> QED BY <2>1, <2>2, <2>3
  <1>6. Cardinality(Above) = n - Cardinality(UpTo)
    <2> HIDE DEF Below, UpTo, Above
    <2> QED BY <1>5, FS_Difference
  <1>7. Cardinality(Below) = n - i BY <1>1, <1>2
  <1> HIDE DEF Below, UpTo, Above, n
  <1>8. Cardinality(Above) = i - 1 BY <1>1, <1>4, <1>6, <1>7
  <1> QED BY <1>8 DEF Above

LEMMA ListingShowsRuns ==
    ASSUME runTable \in Seq(BOOLEAN), NEW f
    PROVE  Listing(f) \in Seq([id: 1 .. Len(runTable), active: BOOLEAN])
  <1> DEFINE ids == Matching(f)
             n == Cardinality(ids)
             id(i) == CHOOSE x \in ids : Cardinality({ y \in ids : y > x }) = i - 1
             row(i) == [id |-> id(i), active |-> runTable[id(i)]]
             Row == [id: 1 .. Len(runTable), active: BOOLEAN]
  <1>1. ids \subseteq 1 .. Len(runTable) /\ Len(runTable) \in Nat BY DEF Matching
  <1>2. ids \in SUBSET Nat /\ IsFiniteSet(ids)
    <2>1. IsFiniteSet(1 .. Len(runTable)) BY <1>1, FS_Interval
    <2> QED BY <1>1, <2>1, FS_Subset
  <1>3. n \in Nat BY <1>2, FS_CardinalityType
  <1>4. ASSUME NEW i \in 1 .. n PROVE row(i) \in Row
    <2>1. \E x \in ids : Cardinality({ y \in ids : y > x }) = i - 1
      <3> HIDE DEF ids
      <3> QED BY <1>2, EveryRankFromTheTop
    <2>2. id(i) \in ids BY <2>1
    <2> DEFINE k == id(i)
    <2>3. k \in 1 .. Len(runTable) /\ runTable[k] \in BOOLEAN BY <1>1, <2>2
    <2> HIDE DEF k
    <2>4. [id |-> k, active |-> runTable[k]] \in Row BY <2>3
    <2> QED BY <2>4 DEF k
  <1>5. Listing(f) = [i \in 1 .. n |-> row(i)] BY DEF Listing
  <1> HIDE DEF n, row, Row
  <1>6. Listing(f) \in [1 .. n -> Row] BY <1>4, <1>5
  <1>7. Listing(f) \in Seq(Row) BY <1>3, <1>6, FunctionsAreSequences
  <1> QED BY <1>7 DEF Row

(* Of the places a run is listed at there is a first.                      *)
LEMMA FirstIsThere ==
    ASSUME NEW n \in Nat, NEW S, S \subseteq 1 .. n, S # {}
    PROVE  \E k \in S : \A j \in 1 .. k - 1 : j \notin S
  <1>1. PICK m \in S : \A k \in S : m <= k
    <2>1. S \in SUBSET Nat OBVIOUS
    <2> QED BY <2>1, LeastNumber
  <1> QED BY <1>1

(* A request under way goes on or ends: the others have not changed, and   *)
(* none of them has the page to itself.                                    *)
LEMMA OneGoesOn ==
    ASSUME RequestsAreApart, runRequests \in [RequestNumbers -> RequestRow],
           NEW n \in RequestNumbers, runRequests[n] # NoRequest,
           NEW row \in RequestRow, Asks(row),
           row.alone =>
              /\ runRequests[n].alone
              /\ row.kind = "poll" => pollTimer'
              /\ row.kind = "poll" /\ row.step = "runs" => row.limit >= Len(runs')
              /\ row.step = "issues" /\ row.kind # "append" => ListIsAsRead' /\ right'.known = FALSE,
           runRequests' = [runRequests EXCEPT ![n] = row]
    PROVE  RequestsAreApart' /\ runRequests' \in [RequestNumbers -> RequestRow]
  <1>1. runRequests' \in [RequestNumbers -> RequestRow] OBVIOUS
  <1>2. \A m \in RequestNumbers : runRequests'[m] = IF m = n THEN row ELSE runRequests[m]
    OBVIOUS
  <1>3. ASSUME NEW m \in RequestNumbers
        PROVE  /\ Asks(runRequests'[m])
               /\ runRequests'[m].alone =>
                     /\ HasThePage(m)'
                     /\ \A k \in RequestNumbers : k # m => runRequests'[k] = NoRequest
    <2>1. CASE m = n
      <3>1. runRequests'[m] = row BY <1>2, <2>1
      <3>2. row.alone => \A k \in RequestNumbers : k # m => runRequests'[k] = NoRequest
        BY <1>2, <2>1 DEF RequestsAreApart
      <3> QED BY <3>1, <3>2 DEF HasThePage
    <2>2. CASE m # n
      <3>1. runRequests'[m] = runRequests[m] /\ ~runRequests[m].alone /\ Asks(runRequests[m])
        BY <1>2, <2>2 DEF RequestsAreApart
      <3> QED BY <3>1
    <2> QED BY <2>1, <2>2
  <1> QED BY <1>1, <1>3 DEF RequestsAreApart, Asks

(* A request begins, alone if nothing is under way.                        *)
LEMMA OneBegins ==
    ASSUME RequestsAreApart, runRequests \in [RequestNumbers -> RequestRow],
           NEW n \in RequestNumbers, NEW request \in RequestRow, Begin(n, request), Asks(request),
           request.kind = "poll" => pollTimer' /\ request.step = "summary",
           request.step # "issues"
    PROVE  /\ RequestsAreApart' /\ runRequests' \in [RequestNumbers -> RequestRow]
           /\ right' = NotKnown
  <1>1. PICK row : row = [request EXCEPT !.alone = Quiet] OBVIOUS
  <1>2. /\ row \in RequestRow /\ row.alone = Quiet /\ row.kind = request.kind
        /\ row.step = request.step /\ row.offset = request.offset /\ row.limit = request.limit
    <2>1. Quiet \in BOOLEAN BY DEF Quiet
    <2> QED BY <1>1, <2>1 DEF RequestRow
  <1>3. \A m \in RequestNumbers :
           runRequests'[m] = IF m = n THEN row ELSE [runRequests[m] EXCEPT !.alone = FALSE]
    BY <1>1 DEF Begin, Disturbed
  <1>d. \A r \in RequestRow : Asks(r) =>
           /\ [r EXCEPT !.alone = FALSE] \in RequestRow /\ Asks([r EXCEPT !.alone = FALSE])
           /\ [r EXCEPT !.alone = FALSE].alone = FALSE
    BY DEF RequestRow, Asks
  <1>4. \A m \in RequestNumbers :
           \E r \in RequestRow : r = [runRequests[m] EXCEPT !.alone = FALSE] /\ Asks(r) /\ r.alone = FALSE
    BY <1>d DEF RequestsAreApart
  <1>5. runRequests' \in [RequestNumbers -> RequestRow]
    <2>1. runRequests' = [m \in RequestNumbers |->
              IF m = n THEN row ELSE [runRequests[m] EXCEPT !.alone = FALSE]]
      BY <1>1 DEF Begin, Disturbed
    <2> QED BY <1>2, <1>4, <2>1
  <1>6. Quiet => \A m \in RequestNumbers : m # n => runRequests'[m] = NoRequest
    <2>1. Quiet => \A m \in RequestNumbers : runRequests[m] = NoRequest
      BY DEF Quiet, Free
    <2>2. [NoRequest EXCEPT !.alone = FALSE] = NoRequest
      <3>1. \A r \in RequestRow : r.alone = FALSE => [r EXCEPT !.alone = FALSE] = r
        BY DEF RequestRow
      <3>2. NoRequest \in RequestRow /\ NoRequest.alone = FALSE
        BY DEF NoRequest, RequestRow, AdminFilters
      <3> QED BY <3>1, <3>2
    <2> QED BY <1>3, <2>1, <2>2
  <1>7. Asks(row) BY <1>2 DEF Asks
  <1>8. ASSUME NEW m \in RequestNumbers
        PROVE  /\ Asks(runRequests'[m])
               /\ runRequests'[m].alone =>
                     /\ HasThePage(m)'
                     /\ \A k \in RequestNumbers : k # m => runRequests'[k] = NoRequest
    <2>1. CASE m = n
      <3>1. runRequests'[m] = row BY <1>3, <2>1
      <3> QED BY <1>2, <1>6, <1>7, <2>1, <3>1 DEF HasThePage
    <2>2. CASE m # n
      <3>1. runRequests'[m] = [runRequests[m] EXCEPT !.alone = FALSE] BY <1>3, <2>2
      <3> QED BY <1>4, <3>1
    <2> QED BY <2>1, <2>2
  <1>9. RequestsAreApart' BY <1>8 DEF RequestsAreApart, Asks
  <1> QED BY <1>5, <1>9 DEF Begin

(* The list a request has read, as long as its limit allows.               *)
LEMMA RunsAreTaken ==
    ASSUME AdminInvariant, NEW n \in RequestNumbers, TakeRuns(n)
    PROVE  AdminInvariant'
  <1> DEFINE r == runRequests[n]
             read == Listing(r.filter)
             to == LesserOf(r.offset + r.limit, Len(read))
  <1>0. /\ AdminRows /\ RequestsAreApart /\ KnownMeansQuiet /\ AlonePutsRight
    BY DEF AdminInvariant
  <1>1. /\ r.step = "runs"
        /\ runs' = IF r.kind = "append" THEN runs \o Fetched(r) ELSE Fetched(r)
        /\ runsHasMore' = (Len(read) > r.offset + r.limit)
        /\ runRequests' = [runRequests EXCEPT ![n].step = "issues"]
        /\ right' = IF ~r.alone \/ r.kind = "append" THEN NotKnown ELSE
                      [known |-> FALSE, read |-> read,
                       atLeast |-> IF r.kind = "poll" THEN Len(runs) ELSE RunsPage]
        /\ runTable' = runTable /\ filter' = filter /\ pollTimer' = pollTimer
    BY DEF TakeRuns
  <1>2. /\ r \in RequestRow /\ r.offset \in Nat /\ r.limit \in Nat /\ r.alone \in BOOLEAN
        /\ Asks(r) /\ r # NoRequest
    BY <1>0, <1>1 DEF AdminRows, RequestRow, RequestsAreApart, NoRequest
  <1>3. IsList(read) /\ Len(read) \in Nat
    BY <1>0, ListingShowsRuns, ListFacts DEF AdminRows, IsList
  <1>4. to \in Nat /\ to <= Len(read) /\ Fetched(r) = SubSeq(read, r.offset + 1, to)
    BY <1>2, <1>3 DEF LesserOf, Fetched
  <1>5. /\ IsList(Fetched(r))
        /\ Len(Fetched(r)) = IF r.offset + 1 <= to THEN to - r.offset ELSE 0
    BY <1>2, <1>3, <1>4, PrefixIsList
  <1>6. IsList(runs) /\ Len(runs) \in Nat BY <1>0, ListFacts DEF AdminRows
  <1>7. IsList(runs') BY <1>1, <1>5, <1>6, ListsJoin
  <1>8. right' = [known |-> right'.known, read |-> right'.read, atLeast |-> right'.atLeast]
    BY <1>1 DEF NotKnown
  <1>9. right'.known = FALSE /\ IsList(right'.read) /\ right'.atLeast \in Nat
    <2>1. IsList(<<>>)
      <3>1. <<>> \in Seq({}) OBVIOUS
      <3> QED BY <3>1 DEF IsList
    <2>2. CASE ~r.alone \/ r.kind = "append" BY <1>1, <2>1, <2>2 DEF NotKnown
    <2>3. CASE ~(~r.alone \/ r.kind = "append")
      <3>1. right' = [known |-> FALSE, read |-> read,
                      atLeast |-> IF r.kind = "poll" THEN Len(runs) ELSE RunsPage]
        BY <1>1, <2>3
      <3> QED BY <1>3, <1>6, <3>1, AdminNumbers
    <2> QED BY <2>2, <2>3
  <1>10. PICK row : row = [r EXCEPT !.step = "issues"] OBVIOUS
  <1>11. /\ row \in RequestRow /\ row.step = "issues" /\ row.kind = r.kind /\ row.alone = r.alone
         /\ Asks(row) /\ runRequests' = [runRequests EXCEPT ![n] = row]
    BY <1>0, <1>1, <1>2, <1>10 DEF RequestRow, Asks, AdminRows
  <1>12. ASSUME r.alone, r.kind # "append"
         PROVE  ListIsAsRead'
    <2>1. r.offset = 0 /\ r.limit >= RunsPage /\ (r.kind = "poll" => r.limit >= Len(runs))
      BY <1>0, <1>1, <1>12 DEF RequestsAreApart, Asks, HasThePage
    <2>2. /\ runs' = SubSeq(read, 1, to) /\ Len(runs') = to /\ right'.read = read
          /\ right'.atLeast = IF r.kind = "poll" THEN Len(runs) ELSE RunsPage
          /\ runsHasMore' = (Len(read) > r.limit) /\ to = LesserOf(r.limit, Len(read))
      <3>1. r.offset + 1 = 1 /\ r.offset + r.limit = r.limit /\ to - r.offset = to
            /\ (~(1 <= to) => to = 0)
        BY <1>2, <1>4, <2>1
      <3>2. runs' = Fetched(r) BY <1>1, <1>12
      <3>3. right' = [known |-> FALSE, read |-> read,
                      atLeast |-> IF r.kind = "poll" THEN Len(runs) ELSE RunsPage]
        BY <1>1, <1>12
      <3>4. Len(Fetched(r)) = to /\ Fetched(r) = SubSeq(read, 1, to) BY <1>4, <1>5, <3>1
      <3>5. runsHasMore' = (Len(read) > r.limit) /\ to = LesserOf(r.limit, Len(read))
        BY <1>1, <3>1
      <3>6. right'.read = read /\ right'.atLeast = IF r.kind = "poll" THEN Len(runs) ELSE RunsPage
        BY <3>3
      <3> QED BY <3>2, <3>4, <3>5, <3>6
    <2> HIDE DEF r, read, to
    <2>3. LesserOf(right'.atLeast, Len(read)) <= to
      BY <1>2, <1>3, <1>6, <2>1, <2>2, AdminNumbers DEF LesserOf
    <2>4. Len(read) > r.limit <=> to < Len(read) BY <1>2, <1>3, <2>2 DEF LesserOf
    <2>5. LesserOf(right.atLeast, Len(right.read))' = LesserOf(right'.atLeast, Len(right'.read))
      BY DEF LesserOf
    <2>6. to >= LesserOf(right'.atLeast, Len(read))
      BY <1>2, <1>3, <1>6, <2>1, <2>2, AdminNumbers DEF LesserOf
    <2> QED BY <1>4, <2>2, <2>4, <2>5, <2>6 DEF ListIsAsRead
  <1>13. RequestsAreApart' /\ runRequests' \in [RequestNumbers -> RequestRow]
    <2>1. row.kind = "poll" /\ row.alone => pollTimer'
      BY <1>0, <1>1, <1>11 DEF RequestsAreApart, HasThePage
    <2> QED BY <1>0, <1>2, <1>9, <1>11, <1>12, <2>1, OneGoesOn DEF AdminRows
  <1>14. AdminRows' BY <1>0, <1>1, <1>2, <1>3, <1>7, <1>8, <1>9, <1>13 DEF AdminRows
  <1> QED BY <1>9, <1>13, <1>14 DEF AdminInvariant, KnownMeansQuiet, AlonePutsRight

(* A request ends: the run that is open is found again.                    *)
LEMMA RequestIsEnded ==
    ASSUME AdminInvariant, NEW n \in RequestNumbers, EndRequest(n)
    PROVE  AdminInvariant'
  <1> DEFINE r == runRequests[n]
  <1>0. /\ AdminRows /\ RequestsAreApart /\ KnownMeansQuiet /\ AlonePutsRight
    BY DEF AdminInvariant
  <1>1. /\ r.step = "issues"
        /\ openRun' = FoundAgain
        /\ pollTimer' = IF r.kind = "poll" THEN pollTimer /\ ActiveShown ELSE ActiveShown
        /\ runRequests' = [runRequests EXCEPT ![n] = NoRequest]
        /\ right' = IF ~r.alone \/ r.kind = "append" THEN NotKnown
                    ELSE [right EXCEPT !.known = TRUE]
        /\ runTable' = runTable /\ filter' = filter /\ runs' = runs /\ runsHasMore' = runsHasMore
    BY DEF EndRequest
  <1>2. /\ r \in RequestRow /\ r # NoRequest /\ r.alone \in BOOLEAN
        /\ NoRequest \in RequestRow /\ Asks(NoRequest) /\ ~NoRequest.alone
    BY <1>0, <1>1 DEF AdminRows, RequestRow, RequestsAreApart, NoRequest, Asks, AdminFilters
  <1>3. RequestsAreApart' /\ runRequests' \in [RequestNumbers -> RequestRow]
    BY <1>0, <1>1, <1>2, OneGoesOn DEF AdminRows
  <1>4. pollTimer' \in BOOLEAN BY <1>0, <1>1 DEF AdminRows, ActiveShown
  <1>5. CASE ~r.alone \/ r.kind = "append"
    <2>1. right' = NotKnown BY <1>1, <1>5
    <2>2. IsList(<<>>)
      <3>1. <<>> \in Seq({}) OBVIOUS
      <3> QED BY <3>1 DEF IsList
    <2>3. /\ right'.known = FALSE /\ right'.read = <<>> /\ right'.atLeast = 0
          /\ right' = [known |-> right'.known, read |-> right'.read, atLeast |-> right'.atLeast]
      BY <2>1 DEF NotKnown
    <2>4. AdminRows' BY <1>0, <1>1, <1>3, <1>4, <2>2, <2>3 DEF AdminRows
    <2> QED BY <1>3, <2>3, <2>4 DEF AdminInvariant, KnownMeansQuiet, AlonePutsRight
  <1>6. CASE r.alone /\ r.kind # "append"
    <2>1. /\ ListIsAsRead /\ (r.kind = "poll" => pollTimer)
          /\ \A m \in RequestNumbers : m # n => runRequests[m] = NoRequest
      BY <1>0, <1>1, <1>6 DEF RequestsAreApart, HasThePage
    <2>2. \A m \in RequestNumbers : runRequests'[m] = NoRequest
      BY <1>0, <1>1, <2>1 DEF AdminRows
    <2>3. /\ right'.known = TRUE /\ right'.read = right.read /\ right'.atLeast = right.atLeast
          /\ right' = [known |-> right'.known, read |-> right'.read, atLeast |-> right'.atLeast]
      <3>1. right' = [right EXCEPT !.known = TRUE] BY <1>1, <1>6
      <3> QED BY <1>0, <3>1 DEF AdminRows
    <2>4. AdminRows' BY <1>0, <1>1, <1>3, <1>4, <2>3 DEF AdminRows
    <2>5. pollTimer' <=> ActiveShown'
      <3>1. ActiveShown' <=> ActiveShown BY <1>1 DEF ActiveShown
      <3> QED BY <1>1, <2>1, <3>1
    <2>6. openRun' # NoneOpen => \E i \in DOMAIN runs : runs[i] = openRun'
      <3> DEFINE S == { i \in DOMAIN runs : runs[i].id = openRun.id }
      <3>1. CASE openRun # NoneOpen /\ S # {}
        <4>1. S \subseteq 1 .. Len(runs) /\ Len(runs) \in Nat /\ DOMAIN runs = 1 .. Len(runs)
          BY <1>0, ListFacts DEF AdminRows
        <4>2. PICK k \in S : \A j \in 1 .. k - 1 : j \notin S
          BY <3>1, <4>1, FirstIsThere
        <4>3. \A j \in 1 .. k - 1 : runs[j].id # openRun.id
          <5>1. \A j \in 1 .. k - 1 : j \in DOMAIN runs BY <4>1, <4>2
          <5> QED BY <4>2, <5>1
        <4> DEFINE first == CHOOSE i \in DOMAIN runs :
                               /\ runs[i].id = openRun.id
                               /\ \A j \in 1 .. i - 1 : runs[j].id # openRun.id
        <4>4. \E i \in DOMAIN runs :
                 runs[i].id = openRun.id /\ \A j \in 1 .. i - 1 : runs[j].id # openRun.id
          BY <4>2, <4>3
        <4>5. first \in DOMAIN runs BY <4>4
        <4>6. FoundAgain = runs[first] BY <3>1 DEF FoundAgain
        <4> HIDE DEF first
        <4> QED BY <1>1, <4>5, <4>6
      <3>2. CASE ~(openRun # NoneOpen /\ S # {}) BY <1>1, <3>2 DEF FoundAgain
      <3> QED BY <3>1, <3>2
    <2>7. AlonePutsRight'
      <3>1. LesserOf(right.atLeast, Len(right.read))' = LesserOf(right'.atLeast, Len(right'.read))
        BY DEF LesserOf
      <3> QED BY <1>1, <2>1, <2>3, <2>5, <2>6, <3>1 DEF AlonePutsRight, ListIsAsRead
    <2> QED BY <1>3, <2>2, <2>4, <2>7 DEF AdminInvariant, KnownMeansQuiet
  <1> QED BY <1>2, <1>5, <1>6

LEMMA AdminIsKept ==
    ASSUME AdminInvariant, [AdminPageNext]_adminPageVars
    PROVE  AdminInvariant'
  <1>0. /\ AdminRows /\ RequestsAreApart /\ KnownMeansQuiet /\ AlonePutsRight
    BY DEF AdminInvariant
  <1>l. /\ IsList(runs) /\ Len(runs) \in Nat /\ DOMAIN runs = 1 .. Len(runs)
        /\ runTable \in Seq(BOOLEAN)
    BY <1>0, ListFacts DEF AdminRows
  <1>e. IsList(<<>>)
    <2>1. <<>> \in Seq({}) OBVIOUS
    <2> QED BY <2>1 DEF IsList
  <1>n. /\ NoRequest \in RequestRow /\ Asks(NoRequest) /\ ~NoRequest.alone
        /\ NoRequest.step = "none"
    BY DEF NoRequest, RequestRow, Asks, AdminFilters
  <1>k. /\ NotKnown.known = FALSE /\ NotKnown.read = <<>> /\ NotKnown.atLeast = 0
        /\ NotKnown = [known |-> NotKnown.known, read |-> NotKnown.read, atLeast |-> NotKnown.atLeast]
    BY DEF NotKnown
  <1>p. ASSUME NEW f \in AdminFilters
        PROVE  /\ Replacing(f) \in RequestRow /\ Asks(Replacing(f))
               /\ Replacing(f).kind = "replace" /\ Replacing(f).step = "runs"
    <2>1. PICK base \in RequestRow : base = NoRequest /\ base.offset = 0
      BY <1>n DEF NoRequest
    <2>2. Replacing(f) = [base EXCEPT !.kind = "replace", !.step = "runs", !.filter = f, !.limit = RunsPage]
      BY <2>1 DEF Replacing
    <2>3. RunsPage \in Nat /\ RunsPage >= RunsPage BY AdminNumbers
    <2>4. /\ Replacing(f) \in RequestRow /\ Replacing(f).kind = "replace"
          /\ Replacing(f).step = "runs" /\ Replacing(f).offset = 0 /\ Replacing(f).limit = RunsPage
      BY <2>1, <2>2, <2>3 DEF RequestRow
    <2> QED BY <2>3, <2>4 DEF Asks
  <1>1. CASE \E n \in RequestNumbers : TakeRuns(n) BY <1>1, RunsAreTaken
  <1>2. CASE \E n \in RequestNumbers : EndRequest(n) BY <1>2, RequestIsEnded
  (* What leaves the list, the requests and the polling alone.             *)
  <1>3. ASSUME UNCHANGED <<filter, runs, runsHasMore, pollTimer, runRequests, right>>,
               runTable' \in Seq(BOOLEAN),
               openRun' = openRun \/ openRun' = NoneOpen \/ \E i \in DOMAIN runs : openRun' = runs[i]
        PROVE  AdminInvariant'
    <2>1. AdminRows' /\ RequestsAreApart' /\ KnownMeansQuiet'
      BY <1>0, <1>3 DEF AdminRows, RequestsAreApart, KnownMeansQuiet, HasThePage, ListIsAsRead,
                        LesserOf, Asks
    <2>2. AlonePutsRight' BY <1>0, <1>3 DEF AlonePutsRight, ActiveShown, LesserOf
    <2> QED BY <2>1, <2>2 DEF AdminInvariant
  <1>4. CASE RunQueued
    <2>1. runTable' \in Seq(BOOLEAN) BY <1>l, <1>4 DEF RunQueued
    <2> QED BY <1>3, <1>4, <2>1 DEF RunQueued, runList
  <1>5. CASE \E id \in 1 .. MaxAdminRuns : RunSettled(id)
    <2>1. PICK id \in 1 .. MaxAdminRuns : RunSettled(id) BY <1>5
    <2>2. runTable' \in Seq(BOOLEAN)
      <3>1. runTable' = [runTable EXCEPT ![id] = FALSE] /\ runTable \in [1 .. Len(runTable) -> BOOLEAN]
            /\ Len(runTable) \in Nat
        BY <1>l, <2>1 DEF RunSettled
      <3>2. runTable' \in [1 .. Len(runTable) -> BOOLEAN] BY <3>1
      <3> QED BY <3>1, <3>2, FunctionsAreSequences
    <2> QED BY <1>3, <2>1, <2>2 DEF RunSettled, runList
  <1>6. CASE CloseDetail
    <2>1. runTable' = runTable BY <1>6 DEF CloseDetail
    <2> QED BY <1>l, <1>3, <1>6, <2>1 DEF CloseDetail, runList
  <1>7. CASE \E i \in 1 .. MaxAdminRuns : OpenDetail(i)
    <2>1. PICK i \in 1 .. MaxAdminRuns : OpenDetail(i) BY <1>7
    <2>2. runTable' = runTable BY <2>1 DEF OpenDetail
    <2> QED BY <1>l, <1>3, <2>1, <2>2 DEF OpenDetail, runList
  (* What begins a request.                                                *)
  <1>8. ASSUME NEW n \in RequestNumbers, NEW request \in RequestRow, Begin(n, request), Asks(request),
               request.kind = "poll" => pollTimer' /\ request.step = "summary",
               request.step # "issues",
               UNCHANGED <<runTable, runs, runsHasMore, pollTimer>>, filter' \in AdminFilters
        PROVE  AdminInvariant'
    <2>1. /\ RequestsAreApart' /\ runRequests' \in [RequestNumbers -> RequestRow]
          /\ right' = NotKnown
      BY <1>0, <1>8, OneBegins DEF AdminRows
    <2>2. AdminRows' BY <1>0, <1>e, <1>k, <1>8, <2>1 DEF AdminRows
    <2> QED BY <1>k, <2>1, <2>2 DEF AdminInvariant, KnownMeansQuiet, AlonePutsRight
  <1>9. ASSUME NEW n \in RequestNumbers, Refresh(n)
        PROVE  AdminInvariant'
    <2>1. PICK request : request = Replacing(filter) OBVIOUS
    <2>2. /\ request \in RequestRow /\ Asks(request) /\ request.kind = "replace"
          /\ request.step = "runs" /\ filter \in AdminFilters
      BY <1>0, <1>p, <2>1 DEF AdminRows
    <2> QED BY <1>8, <1>9, <2>1, <2>2 DEF Refresh, runList
  <1>10. ASSUME NEW n \in RequestNumbers, NEW f \in AdminFilters, ChangeFilter(n, f)
         PROVE  AdminInvariant'
    <2>1. PICK request : request = Replacing(f) OBVIOUS
    <2>2. /\ request \in RequestRow /\ Asks(request) /\ request.kind = "replace"
          /\ request.step = "runs"
      BY <1>p, <2>1
    <2> QED BY <1>8, <1>10, <2>1, <2>2 DEF ChangeFilter, runList
  <1>11. ASSUME NEW n \in RequestNumbers, LoadOlder(n)
         PROVE  AdminInvariant'
    <2>1. PICK request : request = [Replacing(filter) EXCEPT !.kind = "append", !.offset = Len(runs)]
      OBVIOUS
    <2>2. /\ request \in RequestRow /\ Asks(request) /\ request.kind = "append"
          /\ request.step = "runs" /\ filter \in AdminFilters
      <3>1. filter \in AdminFilters BY <1>0 DEF AdminRows
      <3>2. PICK base \in RequestRow : base = Replacing(filter) /\ base.step = "runs"
        BY <1>p, <3>1
      <3>3. request = [base EXCEPT !.kind = "append", !.offset = Len(runs)]
        BY <2>1, <3>2
      <3>4. request \in RequestRow /\ request.kind = "append" /\ request.step = "runs"
        BY <1>l, <3>2, <3>3 DEF RequestRow
      <3> QED BY <3>1, <3>4 DEF Asks
    <2> QED BY <1>8, <1>11, <2>1, <2>2 DEF LoadOlder
  <1>12. ASSUME NEW n \in RequestNumbers, Poll(n)
         PROVE  AdminInvariant'
    <2>1. PICK request : request = [NoRequest EXCEPT !.kind = "poll", !.step = "summary"]
      OBVIOUS
    <2>2. /\ request \in RequestRow /\ Asks(request) /\ request.step = "summary"
          /\ filter \in AdminFilters
      <3>1. request = [kind |-> "poll", step |-> "summary", filter |-> "all", offset |-> 0,
                       limit |-> 0, alone |-> FALSE]
        BY <2>1 DEF NoRequest
      <3>2. filter \in AdminFilters /\ "all" \in AdminFilters
        BY <1>0 DEF AdminRows, AdminFilters
      <3> QED BY <3>1, <3>2 DEF RequestRow, Asks
    <2> QED BY <1>8, <1>12, <2>1, <2>2 DEF Poll, runList
  <1>13. ASSUME NEW n \in RequestNumbers, StartImport(n)
         PROVE  AdminInvariant'
    <2>1. PICK request : request = [NoRequest EXCEPT !.kind = "import", !.step = "posted"]
      OBVIOUS
    <2>2. /\ request \in RequestRow /\ Asks(request) /\ request.step = "posted" /\ request.kind = "import"
          /\ filter \in AdminFilters
      BY <1>0, <1>n, <2>1 DEF AdminRows, RequestRow, Asks
    <2> QED BY <1>8, <1>13, <2>1, <2>2 DEF StartImport, runList
  (* What goes on with one, before it has read the list.                   *)
  <1>14. ASSUME NEW n \in RequestNumbers, Summarised(n)
         PROVE  AdminInvariant'
    <2>1. PICK row : row = [runRequests[n] EXCEPT !.step = "runs", !.filter = filter, !.limit = PollLimit]
      OBVIOUS
    <2>2. /\ runRequests[n] \in RequestRow /\ runRequests[n].step = "summary"
          /\ runRequests' = [runRequests EXCEPT ![n] = row]
          /\ UNCHANGED <<runTable, filter, runs, runsHasMore, pollTimer, openRun, right>>
      BY <1>0, <1>14, <2>1 DEF Summarised, AdminRows, runList
    <2>3. PollLimit \in Nat /\ PollLimit >= Len(runs) /\ PollLimit >= RunsPage
      BY <1>l, AdminNumbers DEF PollLimit, LargerOf
    <2>4. /\ runRequests[n].kind = "poll" /\ runRequests[n].offset = 0
          /\ filter \in AdminFilters /\ runRequests[n] # NoRequest
      BY <1>0, <1>n, <2>2 DEF RequestsAreApart, Asks, AdminRows
    <2>5. /\ row \in RequestRow /\ row.kind = "poll" /\ row.step = "runs" /\ row.offset = 0
          /\ row.limit = PollLimit /\ row.alone = runRequests[n].alone
      BY <2>1, <2>2, <2>3, <2>4 DEF RequestRow
    <2>6. Asks(row) BY <2>3, <2>5 DEF Asks
    <2>7. row.alone => pollTimer' /\ row.limit >= Len(runs')
      BY <1>0, <2>2, <2>3, <2>4, <2>5 DEF RequestsAreApart, HasThePage
    <2>8. RequestsAreApart' /\ runRequests' \in [RequestNumbers -> RequestRow]
      BY <1>0, <2>2, <2>4, <2>5, <2>6, <2>7, OneGoesOn DEF AdminRows
    <2>9. AdminRows' BY <1>0, <2>2, <2>8 DEF AdminRows
    <2>10. ~right'.known BY <1>0, <2>2, <2>4 DEF KnownMeansQuiet
    <2> QED BY <2>8, <2>9, <2>10 DEF AdminInvariant, KnownMeansQuiet, AlonePutsRight
  <1>15. ASSUME NEW n \in RequestNumbers, ImportAccepted(n)
         PROVE  AdminInvariant'
    <2>1. PICK row : row = [Replacing(filter) EXCEPT !.alone = runRequests[n].alone]
      OBVIOUS
    <2>2. /\ runRequests[n] \in RequestRow /\ runRequests[n].step = "posted"
          /\ runRequests' = [runRequests EXCEPT ![n] = row]
          /\ UNCHANGED <<filter, runsHasMore, right>> /\ pollTimer' = TRUE
          /\ runTable' = Append(runTable, TRUE)
          /\ runs' = <<[id |-> Len(runTable'), active |-> TRUE]>> \o runs
          /\ filter \in AdminFilters
      BY <1>0, <1>15, <2>1 DEF ImportAccepted, AdminRows
    <2>3. /\ row \in RequestRow /\ row.kind = "replace" /\ row.step = "runs"
          /\ row.alone = runRequests[n].alone /\ Asks(row)
      <3>1. /\ Replacing(filter) \in RequestRow /\ Asks(Replacing(filter))
            /\ Replacing(filter).kind = "replace" /\ Replacing(filter).step = "runs"
            /\ runRequests[n].alone \in BOOLEAN
        BY <1>p, <2>2 DEF RequestRow
      <3> QED BY <2>1, <3>1 DEF RequestRow, Asks
    <2>4. runRequests[n] # NoRequest BY <1>n, <2>2
    <2>5. RequestsAreApart' /\ runRequests' \in [RequestNumbers -> RequestRow]
      BY <1>0, <2>2, <2>3, <2>4, OneGoesOn DEF AdminRows
    <2>6. runTable' \in Seq(BOOLEAN) /\ IsList(runs')
      <3>1. PICK x : x = [id |-> Len(runTable'), active |-> TRUE] OBVIOUS
      <3>2. <<x>> \in Seq({x}) OBVIOUS
      <3>3. IsList(<<x>>) BY <3>2 DEF IsList
      <3>4. IsList(<<x>> \o runs) BY <1>l, <3>3, ListsJoin
      <3> QED BY <1>l, <2>2, <3>1, <3>4
    <2>7. AdminRows' BY <1>0, <2>2, <2>5, <2>6 DEF AdminRows
    <2>8. ~right'.known BY <1>0, <2>2, <2>4 DEF KnownMeansQuiet
    <2> QED BY <2>5, <2>7, <2>8 DEF AdminInvariant, KnownMeansQuiet, AlonePutsRight
  (* What ends one without an answer.                                      *)
  <1>16. ASSUME NEW n \in RequestNumbers, ImportRefused(n) \/ RequestFails(n)
         PROVE  AdminInvariant'
    <2>1. /\ runRequests[n].step \in {"posted", "summary", "runs", "issues"}
          /\ runRequests' = [runRequests EXCEPT ![n] = NoRequest]
          /\ UNCHANGED <<runTable, filter, runs, runsHasMore, pollTimer>>
          /\ right' = right \/ right' = NotKnown
      BY <1>16 DEF ImportRefused, RequestFails, runList
    <2>2. runRequests[n] # NoRequest BY <1>n, <2>1
    <2>3. RequestsAreApart' /\ runRequests' \in [RequestNumbers -> RequestRow]
      BY <1>0, <1>n, <2>1, <2>2, OneGoesOn DEF AdminRows
    <2>4. ~right'.known BY <1>0, <1>k, <2>1, <2>2 DEF KnownMeansQuiet
    <2>5. /\ IsList(right'.read) /\ right'.atLeast \in Nat
          /\ right' = [known |-> right'.known, read |-> right'.read, atLeast |-> right'.atLeast]
      BY <1>0, <1>e, <1>k, <2>1 DEF AdminRows
    <2>6. AdminRows' BY <1>0, <2>1, <2>3, <2>5 DEF AdminRows
    <2> QED BY <2>3, <2>4, <2>6 DEF AdminInvariant, KnownMeansQuiet, AlonePutsRight
  <1>17. CASE UNCHANGED adminPageVars
    <2>1. /\ UNCHANGED <<filter, runs, runsHasMore, pollTimer, runRequests, right>>
          /\ runTable' = runTable /\ openRun' = openRun
      BY <1>17 DEF adminPageVars, runList
    <2> QED BY <1>l, <1>3, <2>1
  <1> QED BY <1>1, <1>2, <1>4, <1>5, <1>6, <1>7, <1>9, <1>10, <1>11, <1>12, <1>13, <1>14, <1>15,
             <1>16, <1>17 DEF AdminPageNext

LEMMA AdminStartsRight ==
    ASSUME AdminPageInit
    PROVE  AdminInvariant
  <1>1. /\ runTable \in UNION { [1 .. n -> BOOLEAN] : n \in 0 .. MaxAdminRuns }
        /\ filter = "all" /\ runs = <<>> /\ runsHasMore = FALSE /\ pollTimer = FALSE
        /\ runRequests = [n \in RequestNumbers |-> NoRequest] /\ right = NotKnown
    BY DEF AdminPageInit
  <1>2. IsList(<<>>)
    <2>1. <<>> \in Seq({}) OBVIOUS
    <2> QED BY <2>1 DEF IsList
  <1>3. runTable \in Seq(BOOLEAN)
    <2>1. PICK n \in 0 .. MaxAdminRuns : runTable \in [1 .. n -> BOOLEAN] BY <1>1
    <2>2. n \in Nat BY AdminNumbers
    <2> QED BY <2>1, <2>2, FunctionsAreSequences
  <1>4. /\ NoRequest \in RequestRow /\ Asks(NoRequest) /\ ~NoRequest.alone
    BY DEF NoRequest, RequestRow, Asks, AdminFilters
  <1>5. /\ right.known = FALSE /\ right.read = <<>> /\ right.atLeast = 0
        /\ right = [known |-> right.known, read |-> right.read, atLeast |-> right.atLeast]
    BY <1>1 DEF NotKnown
  <1>6. AdminRows
    <2>1. filter \in AdminFilters /\ IsList(runs) /\ IsList(right.read)
      BY <1>1, <1>2, <1>5 DEF AdminFilters
    <2>2. pollTimer \in BOOLEAN /\ runsHasMore \in BOOLEAN BY <1>1
    <2>3. runRequests \in [RequestNumbers -> RequestRow] BY <1>1, <1>4
    <2>4. 0 \in Nat /\ right.atLeast \in Nat BY <1>5
    <2> QED BY <1>3, <1>5, <2>1, <2>2, <2>3, <2>4 DEF AdminRows
  <1>7. RequestsAreApart BY <1>1, <1>4 DEF RequestsAreApart
  <1> QED BY <1>5, <1>6, <1>7 DEF AdminInvariant, KnownMeansQuiet, AlonePutsRight

(* On the admin page, whatever requests and runs race each other, one that *)
(* then has the page to itself leaves it right.                            *)
THEOREM AloneStaysRight == AdminPageSpec => []AdminInvariant
  BY AdminStartsRight, AdminIsKept, PTL DEF AdminPageSpec
-----------------------------------------------------------------------------
(* ReportsAreTrue, of the specification the run checks: a trouble that     *)
(* lasts is told, the status page agrees with what there was and so does   *)
(* the coverage check but for what it read as empty, a list of runs read   *)
(* in peace is right, and no figure is shown for longer than it is         *)
(* remembered.                                                             *)
THEOREM ReportsStayTrue == UpkeepSpec => []ReportsAreTrue
  <1> DEFINE Together ==
        /\ MonitorInvariant /\ CoverageInvariant /\ StatusInvariant /\ AdminInvariant
        /\ FiguresInvariant
  <1>m. UpkeepSpec => []MonitorInvariant BY EachIsAPart, TroubleIsTold, PTL
  <1>c. UpkeepSpec => []CoverageInvariant BY EachIsAPart, ChecksAreTrue, PTL
  <1>s. UpkeepSpec => []StatusInvariant BY EachIsAPart, StatusStaysTrue, PTL
  <1>a. UpkeepSpec => []AdminInvariant BY EachIsAPart, AloneStaysRight, PTL
  <1>f. UpkeepSpec => []FiguresInvariant BY EachIsAPart, FiguresAreDatedAndBounded, PTL
  <1>1. Together => ReportsAreTrue
    BY AlertsFollow, StatusFollows, FiguresFollow
    DEF ReportsAreTrue, CoverageInvariant, AdminInvariant
  <1> QED BY <1>m, <1>c, <1>s, <1>a, <1>f, <1>1, PTL
-----------------------------------------------------------------------------
(* Ops requests (OpsRequests). A row says what its author confirmed: it is *)
(* accepted with the catalog of that time, what was left out is filled in  *)
(* without changing what it is about, and a worker that refuses it does so *)
(* with another catalog.                                                   *)
RowOfJob(row) ==
    row \in [status: {row.status}, body: {row.body}, apply: {row.apply},
             named: {row.named}, accepted: {row.accepted}, done: {row.done},
             error: {row.error}, refusedBy: {row.refusedBy}]

Confirmed(row) ==
    /\ row.apply \in BOOLEAN
    /\ row.apply => row.named = Target(row.body)
    /\ row.done # {} => row.apply
    /\ row.status # "none" =>
          Accepts(row.body, row.apply, Target(row.body), Catalogs[row.accepted])
    /\ row.error = "refused" => row.accepted # row.refusedBy
    /\ row.status = "succeeded" /\ row.apply => Goals(row.body) \subseteq row.done

RequestsInvariant ==
    /\ RowOfJob(job) /\ Confirmed(job)
    /\ tokens \in Int /\ served \in Int /\ tokens = TokenBudget - served

LEMMA NoRowIsConfirmed == RowOfJob(NoRow) /\ Confirmed(NoRow)
  BY DEF RowOfJob, Confirmed, NoRow, NotNamed

LEMMA KeptIsTheSame ==
    ASSUME NEW body \in RequestBodies, NEW catalog, Valid(body, catalog)
    PROVE  /\ Valid(Kept(body), catalog) /\ Target(Kept(body)) = Target(body)
           /\ Kept(body).action = body.action
  <1>1. CASE body.action = "rerun_source"
    <2>1. PICK s \in CatalogSources, m \in {NotNamed, "full", "reindex_only"},
               d \in {NotNamed, "in_order", "reversed"} :
             body = [action |-> "rerun_source", source |-> s, mode |-> m, dates |-> d]
      BY <1>1 DEF RequestBodies
    <2>2. ValidRerun(body, catalog) BY <1>1 DEF Valid
    <2>3. CASE m = NotNamed
      <3>1. Kept(body) = [body EXCEPT !.mode = "full"] BY <1>1, <2>1, <2>3 DEF Kept
      <3>2. Kept(body) = [action |-> "rerun_source", source |-> s, mode |-> "full", dates |-> d]
        BY <2>1, <3>1
      <3>3. /\ Kept(body).action = "rerun_source" /\ Kept(body).source = body.source
            /\ Kept(body).mode = "full" /\ Kept(body).dates = body.dates
            /\ body.mode = "none"
        BY <2>1, <2>3, <3>2 DEF NotNamed
      <3>4. ValidRerun(Kept(body), catalog) BY <2>2, <3>3 DEF ValidRerun
      <3>5. Valid(Kept(body), catalog) BY <3>3, <3>4 DEF Valid
      <3> QED BY <1>1, <3>3, <3>5 DEF Target, HostAction
    <2>4. CASE m # NotNamed
      <3>1. Kept(body) = body BY <1>1, <2>1, <2>4 DEF Kept
      <3> QED BY <3>1
    <2> QED BY <2>3, <2>4
  <1>2. CASE body.action = "reenqueue_failed_windows"
    <2>1. PICK s \in CatalogSources \cup {NotNamed},
               t \in {NotNamed, "empty", "both", "unknown"} :
             body = [action |-> "reenqueue_failed_windows", source |-> s, statuses |-> t]
      BY <1>2 DEF RequestBodies
    <2>2. ValidReenqueue(body, catalog) BY <1>2 DEF Valid
    <2>3. Kept(body) = [body EXCEPT !.statuses = "both"] BY <1>2 DEF Kept
    <2>4. Kept(body) = [action |-> "reenqueue_failed_windows", source |-> s, statuses |-> "both"]
      BY <2>1, <2>3
    <2>5. /\ Kept(body).action = "reenqueue_failed_windows" /\ Kept(body).source = body.source
          /\ Kept(body).statuses = "both"
      BY <2>1, <2>4
    <2>6. ValidReenqueue(Kept(body), catalog) BY <2>2, <2>5 DEF ValidReenqueue
    <2>7. Valid(Kept(body), catalog) BY <2>5, <2>6 DEF Valid
    <2> QED BY <1>2, <2>5, <2>7 DEF Target, HostAction
  <1>3. CASE body.action \notin {"rerun_source", "reenqueue_failed_windows"}
    <2>1. Kept(body) = body BY <1>3 DEF Kept
    <2> QED BY <2>1
  <1> QED BY <1>1, <1>2, <1>3

LEMMA SettledRow ==
    ASSUME RowOfJob(job), NEW status, NEW error
    PROVE  LET next == Settle(status, error)
           IN  /\ RowOfJob(next)
               /\ next.status = status /\ next.error = error /\ next.refusedBy = job.refusedBy
               /\ next.body = job.body /\ next.apply = job.apply /\ next.named = job.named
               /\ next.accepted = job.accepted /\ next.done = job.done
  BY DEF RowOfJob, Settle

(* A row that changes only in how far it is.                               *)
LEMMA StaysConfirmed ==
    ASSUME NEW row, NEW next, Confirmed(row), row.status # "none",
           next.body = row.body, next.apply = row.apply, next.named = row.named,
           next.accepted = row.accepted, next.done # {} => row.apply,
           next.error = "refused" => next.accepted # next.refusedBy,
           next.status = "succeeded" /\ next.apply => Goals(next.body) \subseteq next.done
    PROVE  Confirmed(next)
  BY DEF Confirmed

LEMMA JobStaysConfirmed ==
    ASSUME RowOfJob(job), Confirmed(job), job.status # "none", NEW status, NEW error,
           error = "refused" => job.accepted # job.refusedBy,
           status = "succeeded" /\ job.apply => Goals(job.body) \subseteq job.done
    PROVE  RowOfJob(Settle(status, error)) /\ Confirmed(Settle(status, error))
  <1> DEFINE next == Settle(status, error)
  <1>1. /\ RowOfJob(next)
        /\ next.status = status /\ next.error = error /\ next.refusedBy = job.refusedBy
        /\ next.body = job.body /\ next.apply = job.apply /\ next.named = job.named
        /\ next.accepted = job.accepted /\ next.done = job.done
    BY SettledRow
  <1> HIDE DEF next
  <1>2. next.done # {} => job.apply BY <1>1 DEF Confirmed
  <1> QED BY <1>1, <1>2, StaysConfirmed DEF next

LEMMA PostedIsConfirmed ==
    ASSUME RequestsInvariant, PostRequest
    PROVE  RowOfJob(job') /\ Confirmed(job')
  <1>1. PICK body \in RequestBodies, apply \in BOOLEAN :
           \E name \in IF apply THEN Names ELSE {NotNamed} :
             /\ Accepts(body, apply, name, Catalogs[webAt])
             /\ job' = [NoRow EXCEPT !.status = "queued", !.body = Kept(body),
                                     !.apply = apply, !.named = name, !.accepted = webAt]
    BY DEF PostRequest
  <1>2. PICK name : /\ Accepts(body, apply, name, Catalogs[webAt])
                    /\ job' = [NoRow EXCEPT !.status = "queued", !.body = Kept(body),
                                     !.apply = apply, !.named = name, !.accepted = webAt]
    BY <1>1
  <1> DEFINE row == [NoRow EXCEPT !.status = "queued", !.body = Kept(body),
                                  !.apply = apply, !.named = name, !.accepted = webAt]
  <1>3. /\ RowOfJob(row) /\ row.status = "queued" /\ row.body = Kept(body) /\ row.apply = apply
        /\ row.named = name /\ row.accepted = webAt /\ row.done = {} /\ row.error = "none"
    BY DEF RowOfJob, NoRow, NotNamed
  <1> HIDE DEF row
  <1>4. /\ Valid(Kept(body), Catalogs[webAt]) /\ Target(Kept(body)) = Target(body)
        /\ Kept(body).action = body.action
    BY <1>2, KeptIsTheSame DEF Accepts
  <1>5. apply => name = Target(Kept(body)) BY <1>2, <1>4 DEF Accepts, RightName
  <1>6. Accepts(Kept(body), apply, Target(Kept(body)), Catalogs[webAt])
    BY <1>2, <1>4 DEF Accepts, RightName
  <1>7. Confirmed(row) BY <1>3, <1>5, <1>6 DEF Confirmed
  <1> QED BY <1>2, <1>3, <1>7 DEF row

LEMMA ClaimedIsConfirmed ==
    ASSUME RequestsInvariant, Claim
    PROVE  RowOfJob(job') /\ Confirmed(job')
  <1>0. RowOfJob(job) /\ Confirmed(job) /\ job.status = "queued"
    BY DEF RequestsInvariant, Claim
  <1>1. CASE job' = [job EXCEPT !.status = "running"]
    <2>1. /\ RowOfJob(job') /\ job'.status = "running" /\ job'.body = job.body
          /\ job'.apply = job.apply /\ job'.named = job.named /\ job'.accepted = job.accepted
          /\ job'.done = job.done /\ job'.error = job.error /\ job'.refusedBy = job.refusedBy
      BY <1>0, <1>1 DEF RowOfJob
    <2>2. (job'.done # {} => job.apply) /\ (job'.error = "refused" => job'.accepted # job'.refusedBy)
      BY <1>0, <2>1 DEF Confirmed
    <2> QED BY <1>0, <2>1, <2>2, StaysConfirmed
  <1>2. CASE job' # [job EXCEPT !.status = "running"]
    <2>1. /\ job' = [Settle("failed", "refused") EXCEPT !.refusedBy = workerAt]
          /\ ~Accepts(job.body, job.apply, NameOfRow(job.body), Catalogs[workerAt])
      BY <1>2 DEF Claim
    <2>2. job.accepted # workerAt BY <1>0, <2>1 DEF Confirmed, NameOfRow
    <2>3. /\ RowOfJob(job') /\ job'.status = "failed" /\ job'.body = job.body
          /\ job'.apply = job.apply /\ job'.named = job.named /\ job'.accepted = job.accepted
          /\ job'.done = job.done /\ job'.refusedBy = workerAt
      BY <1>0, <2>1 DEF RowOfJob, Settle
    <2>4. (job'.done # {} => job.apply) /\ (job'.error = "refused" => job'.accepted # job'.refusedBy)
      BY <1>0, <2>2, <2>3 DEF Confirmed
    <2> QED BY <1>0, <2>3, <2>4, StaysConfirmed
  <1> QED BY <1>1, <1>2

LEMMA DoneIsConfirmed ==
    ASSUME RequestsInvariant, RunRerun \/ DoPart \/ FinishParts
                               \/ \E fails \in BOOLEAN : RunOnHost(fails)
    PROVE  RowOfJob(job') /\ Confirmed(job')
  <1>0. RowOfJob(job) /\ Confirmed(job) /\ job.status = "running" /\ job.apply \in BOOLEAN
        /\ (job.error = "refused" => job.accepted # job.refusedBy)
    BY DEF RequestsInvariant, Confirmed, RunRerun, Runs, DoPart, FinishParts, RunOnHost
  <1>1. ASSUME NEW status \in {"succeeded", "failed"}, NEW error \in {"none", "active", "in_part", "host"},
               status = "succeeded" /\ job.apply => Goals(job.body) \subseteq job.done
        PROVE  RowOfJob(Settle(status, error)) /\ Confirmed(Settle(status, error))
    BY <1>0, <1>1, JobStaysConfirmed
  <1>2. ASSUME NEW next, NEW done, NEW status \in {"running", "succeeded", "failed"},
               job.apply, status = "succeeded" => Goals(job.body) \subseteq done,
               RowOfJob(next), next.body = job.body, next.apply = job.apply,
               next.named = job.named, next.accepted = job.accepted, next.done = done,
               next.status = status, next.error = "refused" => next.accepted # next.refusedBy
        PROVE  Confirmed(next)
    BY <1>0, <1>2, StaysConfirmed
  <1>3. CASE RunRerun
    <2>1. Goals(job.body) = {} BY <1>3 DEF RunRerun, Runs, Goals
    <2>2. CASE job' \in {Settle("failed", "active"), Settle("succeeded", NotNamed)}
      BY <1>1, <2>1, <2>2 DEF NotNamed
    <2>3. CASE job' \notin {Settle("failed", "active"), Settle("succeeded", NotNamed)}
      <3>1. job.apply /\ (job' = Done("run") \/ job' = [Done("run") EXCEPT !.status = "succeeded"])
        BY <1>3, <2>3 DEF RunRerun
      <3>2. /\ RowOfJob(job') /\ job'.body = job.body /\ job'.apply = job.apply
            /\ job'.named = job.named /\ job'.accepted = job.accepted
            /\ job'.error = job.error /\ job'.refusedBy = job.refusedBy
            /\ job'.status \in {"running", "succeeded"}
        BY <1>0, <3>1 DEF RowOfJob, Done
      <3> QED BY <1>0, <1>2, <2>1, <3>1, <3>2
    <2> QED BY <2>2, <2>3
  <1>4. CASE DoPart
    <2>1. PICK goal : job' = [job EXCEPT !.done = @ \cup {goal}] BY <1>4 DEF DoPart
    <2>2. job.apply BY <1>4 DEF DoPart
    <2>3. /\ RowOfJob(job') /\ job'.body = job.body /\ job'.apply = job.apply
          /\ job'.named = job.named /\ job'.accepted = job.accepted
          /\ job'.error = job.error /\ job'.refusedBy = job.refusedBy /\ job'.status = "running"
      BY <1>0, <2>1 DEF RowOfJob
    <2> QED BY <1>0, <1>2, <2>2, <2>3
  <1>5. CASE FinishParts BY <1>1, <1>5 DEF FinishParts, NotNamed
  <1>6. ASSUME NEW fails \in BOOLEAN, RunOnHost(fails)
        PROVE  RowOfJob(job') /\ Confirmed(job')
    <2> DEFINE listed == job.body.service \in
                  (IF job.body.action = "restart_service" THEN Restartable ELSE Loggable)
               ends == IF listed /\ ~fails THEN Settle("succeeded", NotNamed)
                       ELSE Settle("failed", "host")
    <2>1. Goals(job.body) = {} BY <1>6 DEF RunOnHost, HostAction, Goals
    <2>2. PICK status \in {"succeeded", "failed"}, error \in {"none", "host"} : ends = Settle(status, error)
      BY DEF NotNamed
    <2>3. job' = IF listed /\ job.apply
                 THEN [ends EXCEPT !.done = {<<Target(job.body), "restart">>}] ELSE ends
      BY <1>6 DEF RunOnHost
    <2> HIDE DEF ends, listed
    <2>4. RowOfJob(ends) /\ Confirmed(ends) BY <1>1, <2>1, <2>2
    <2>5. ends.body = job.body /\ ends.apply = job.apply /\ ends.named = job.named
          /\ ends.accepted = job.accepted /\ ends.error = error /\ ends.status = status
      BY <1>0, <2>2, SettledRow
    <2>6. CASE listed /\ job.apply
      <3>1. /\ RowOfJob(job') /\ job'.body = job.body /\ job'.apply = job.apply
            /\ job'.named = job.named /\ job'.accepted = job.accepted
            /\ job'.error = error /\ job'.status = status
        BY <2>3, <2>4, <2>5, <2>6 DEF RowOfJob
      <3> QED BY <1>0, <1>2, <2>1, <2>2, <2>6, <3>1
    <2>7. CASE ~(listed /\ job.apply) BY <2>3, <2>4, <2>7
    <2> QED BY <2>6, <2>7
  <1> QED BY <1>3, <1>4, <1>5, <1>6

LEMMA RequestsAreKept ==
    ASSUME RequestsInvariant, [OpsRequestsNext]_opsRequestsVars
    PROVE  RequestsInvariant'
  <1>0. RowOfJob(job) /\ Confirmed(job)
        /\ tokens \in Int /\ served \in Int /\ tokens = TokenBudget - served /\ TokenBudget \in Nat
    BY OpsRequestsAssumption DEF RequestsInvariant
  <1>1. tokens' \in Int /\ served' \in Int /\ tokens' = TokenBudget - served'
    <2>1. \/ UNCHANGED <<tokens, served>>
          \/ tokens' = tokens - 1 /\ served' = served + 1
          \/ tokens' = TokenBudget /\ served' = 0
      BY DEF OpsRequestsNext, opsRequestsVars, budgetVars, GuessToken, ChargeGuess, NextMinute, Refuse,
             DeployWeb, RestartWorker, PostRequest, Claim, OtherRun, RunRerun, DoPart,
             FinishParts, RunOnHost
    <2> QED BY <1>0, <2>1
  <1>2. RowOfJob(job') /\ Confirmed(job')
    <2>1. CASE GuessToken \/ NextMinute \/ Refuse \/ DeployWeb \/ UNCHANGED opsRequestsVars
                \/ \E source \in CatalogSources : OtherRun(source)
      <3>1. job' = job
        BY <2>1 DEF GuessToken, NextMinute, Refuse, DeployWeb, OtherRun, opsRequestsVars
      <3> QED BY <1>0, <3>1
    <2>2. CASE RestartWorker
      <3>1. CASE job' = job BY <1>0, <3>1
      <3>2. CASE job' # job
        <4>1. job.status = "running" /\ job' = [job EXCEPT !.status = "queued"]
          BY <2>2, <3>2 DEF RestartWorker
        <4>2. /\ RowOfJob(job') /\ job'.body = job.body /\ job'.apply = job.apply
              /\ job'.named = job.named /\ job'.accepted = job.accepted /\ job'.done = job.done
              /\ job'.error = job.error /\ job'.refusedBy = job.refusedBy /\ job'.status = "queued"
          BY <1>0, <4>1 DEF RowOfJob
        <4>3. (job'.done # {} => job.apply)
              /\ (job'.error = "refused" => job'.accepted # job'.refusedBy)
          BY <1>0, <4>2 DEF Confirmed
        <4> QED BY <1>0, <4>1, <4>2, <4>3, StaysConfirmed
      <3> QED BY <3>1, <3>2
    <2>3. CASE PostRequest BY <2>3, PostedIsConfirmed
    <2>4. CASE Claim BY <2>4, ClaimedIsConfirmed
    <2>5. CASE RunRerun \/ DoPart \/ FinishParts \/ \E fails \in BOOLEAN : RunOnHost(fails)
      BY <2>5, DoneIsConfirmed
    <2> QED BY <2>1, <2>2, <2>3, <2>4, <2>5 DEF OpsRequestsNext
  <1>3. RowOfJob(job)' /\ Confirmed(job)'
    BY <1>2 DEF RowOfJob, Confirmed, Accepts, Valid, Target, Goals
  <1> QED BY <1>1, <1>3 DEF RequestsInvariant

(* Whatever is asked for, refused, requeued and interrupted between two    *)
(* deployments, a row says what its author confirmed and only that is done.*)
THEOREM RequestsAreConfirmed == OpsRequestsSpec => []RequestsInvariant
  <1>1. OpsRequestsInit => RequestsInvariant
    BY NoRowIsConfirmed, OpsRequestsAssumption DEF OpsRequestsInit, RequestsInvariant
  <1> QED BY <1>1, RequestsAreKept, PTL DEF OpsRequestsSpec

LEMMA ConfirmedFollows == RequestsInvariant => OpsDoWhatWasNamed
  BY DEF RequestsInvariant, Confirmed, OpsDoWhatWasNamed
-----------------------------------------------------------------------------
(* The sweep of documents (Revalidation). An answer "gone" is the          *)
(* supplier's word or its outage, and the sources that look down are       *)
(* passed over: what is left of an outage has too few rows to tell one. A  *)
(* document that is in a batch once is recorded once a sweep.              *)
SweepRow ==
    [phase: {"none", "asking", "recording"}, batch: Seq(Swept), answers: Seq(Presence),
     todo: SUBSET Nat, down: SUBSET Keys]

RevalidationTyped ==
    /\ listing \in Seq(Swept) /\ cursorAt \in Nat /\ sweeps \in Nat
    /\ sweep \in SweepRow /\ (sweep.phase # "none" => sweeps >= 1)
    /\ Len(sweep.answers) <= Len(sweep.batch) /\ sweep.todo \subseteq DOMAIN sweep.answers
    /\ sweep.phase = "recording" => Len(sweep.answers) = Len(sweep.batch)
    /\ streak \in [Swept -> Nat] /\ goneIn \in [Swept -> SUBSET (1 .. sweeps)]

AnswersAreHonest ==
    \A i \in DOMAIN sweep.answers :
        /\ sweep.answers[i] = "gone" =>
              sweep.batch[i] \in withdrawn \/ KeyOf[sweep.batch[i]] \in sweep.down
        /\ KeyOf[sweep.batch[i]] \in sweep.down => sweep.answers[i] # "live"

OutagesAreSifted ==
    sweep.phase = "recording" =>
        \A i \in sweep.todo :
            /\ sweep.answers[i] # "unknown"
            /\ sweep.answers[i] = "gone" =>
                  sweep.batch[i] \in withdrawn \/ KeyOf[sweep.batch[i]] \in odd

RecordedOnce ==
    /\ \A i, j \in DOMAIN sweep.batch :
          i # j /\ sweep.batch[i] = sweep.batch[j] => sweep.batch[i] \in odd
    /\ sweep.phase = "asking" => \A d \in Swept : sweeps \notin goneIn[d]
    /\ sweep.phase = "recording" =>
          \A d \in Swept : sweeps \in goneIn[d] /\ d \notin odd =>
              \A i \in sweep.todo : sweep.batch[i] # d

RevalidationInvariant ==
    /\ RevalidationTyped /\ AnswersAreHonest /\ OutagesAreSifted /\ RecordedOnce
    /\ StreaksAreEarned

LEMMA IdleSweep ==
    /\ NoSweep \in SweepRow /\ Len(NoSweep.answers) = 0 /\ Len(NoSweep.batch) = 0
    /\ NoSweep.phase = "none" /\ NoSweep.todo = {}
    /\ DOMAIN NoSweep.answers = {} /\ DOMAIN NoSweep.batch = {}
  BY DEF NoSweep, SweepRow

LEMMA SweepStarts == RevalidationInit => RevalidationInvariant
  <1> SUFFICES ASSUME RevalidationInit PROVE RevalidationInvariant OBVIOUS
  <1>1. RevalidationTyped
    BY IdleSweep, RevalidationAssumption DEF RevalidationInit, RevalidationTyped
  <1>2. AnswersAreHonest /\ OutagesAreSifted /\ RecordedOnce
    BY IdleSweep DEF RevalidationInit, AnswersAreHonest, OutagesAreSifted, RecordedOnce
  <1>3. StreaksAreEarned BY FS_EmptySet DEF RevalidationInit, StreaksAreEarned
  <1> QED BY <1>1, <1>2, <1>3 DEF RevalidationInvariant

LEMMA SweepIsShort ==
    ASSUME RevalidationTyped
    PROVE  /\ DOMAIN sweep.answers = 1 .. Len(sweep.answers) /\ Len(sweep.answers) \in Nat
           /\ DOMAIN sweep.batch = 1 .. Len(sweep.batch) /\ Len(sweep.batch) \in Nat
           /\ DOMAIN sweep.answers \subseteq DOMAIN sweep.batch
           /\ \A i \in DOMAIN sweep.batch : sweep.batch[i] \in Swept
           /\ \A i \in DOMAIN sweep.answers : sweep.answers[i] \in Presence
  BY DEF RevalidationTyped, SweepRow

(* Ending a sweep, well or not.                                            *)
LEMMA NoSweepIsKept ==
    ASSUME RevalidationInvariant, sweep' = NoSweep, cursorAt' \in Nat,
           UNCHANGED <<listing, withdrawn, streak, sweeps, goneIn, odd>>
    PROVE  RevalidationInvariant'
  <1>1. RevalidationTyped' BY IdleSweep DEF RevalidationInvariant, RevalidationTyped
  <1>2. AnswersAreHonest' /\ OutagesAreSifted' /\ RecordedOnce'
    BY IdleSweep DEF AnswersAreHonest, OutagesAreSifted, RecordedOnce
  <1>3. StreaksAreEarned' BY DEF RevalidationInvariant, StreaksAreEarned
  <1> QED BY <1>1, <1>2, <1>3 DEF RevalidationInvariant

LEMMA BeginIsKept ==
    ASSUME RevalidationInvariant, NEW down \in SUBSET Keys, BeginSweep(down)
    PROVE  RevalidationInvariant'
  <1>0. RevalidationTyped /\ sweep = NoSweep /\ sweeps' = sweeps + 1 /\ sweeps \in Nat
        /\ UNCHANGED <<listing, withdrawn, streak, goneIn>>
    BY DEF RevalidationInvariant, RevalidationTyped, BeginSweep
  <1>1. goneIn' \in [Swept -> SUBSET (1 .. sweeps')] /\ \A d \in Swept : sweeps' \notin goneIn'[d]
    <2>1. 1 .. sweeps \subseteq 1 .. sweeps' /\ sweeps' \notin 1 .. sweeps BY <1>0
    <2>2. goneIn \in [Swept -> SUBSET (1 .. sweeps)] BY <1>0 DEF RevalidationTyped
    <2> QED BY <1>0, <2>1, <2>2
  <1>2. CASE NextRows = <<>>
    <2>1. cursorAt' = 0 /\ sweep' = NoSweep /\ odd' = odd BY <1>0, <1>2 DEF BeginSweep
    <2>2. RevalidationTyped' BY <1>0, <1>1, <2>1, IdleSweep DEF RevalidationTyped
    <2>3. AnswersAreHonest' /\ OutagesAreSifted' /\ RecordedOnce'
      BY <2>1, IdleSweep DEF AnswersAreHonest, OutagesAreSifted, RecordedOnce
    <2>4. StreaksAreEarned' BY <1>0, <2>1 DEF RevalidationInvariant, StreaksAreEarned
    <2> QED BY <2>2, <2>3, <2>4 DEF RevalidationInvariant
  <1>3. CASE NextRows # <<>>
    <2>1. /\ sweep' = [NoSweep EXCEPT !.phase = "asking", !.batch = NextRows, !.down = down]
          /\ odd' = odd \cup { NextRows[i] : i \in { j \in DOMAIN NextRows :
                          \E k \in 1 .. j - 1 : NextRows[k] = NextRows[j] } }
          /\ UNCHANGED cursorAt
      BY <1>3 DEF BeginSweep
    <2>2. NextRows \in Seq(Swept)
      <3> DEFINE to == SmallerOf(cursorAt + SweepLimit, Len(listing))
      <3>1. listing \in Seq(Swept) /\ Len(listing) \in Nat /\ cursorAt \in Nat /\ SweepLimit \in Nat
        BY <1>0, RevalidationAssumption DEF RevalidationTyped
      <3>2. to \in Nat /\ to <= Len(listing) /\ cursorAt + 1 \in Nat /\ cursorAt + 1 >= 1
        BY <3>1 DEF SmallerOf
      <3>3. \A i \in cursorAt + 1 .. to : listing[i] \in Swept BY <3>1, <3>2
      <3> HIDE DEF to
      <3>4. SubSeq(listing, cursorAt + 1, to) \in Seq(Swept) BY <3>1, <3>2, <3>3
      <3> QED BY <3>4 DEF NextRows, to
    <2>3. /\ sweep' \in SweepRow /\ sweep'.phase = "asking" /\ sweep'.batch = NextRows
          /\ sweep'.answers = <<>> /\ sweep'.todo = {}
      BY <2>1, <2>2, IdleSweep DEF NoSweep, SweepRow
    <2>4. DOMAIN NextRows = 1 .. Len(NextRows) /\ Len(NextRows) \in Nat BY <2>2
    <2> HIDE DEF NextRows
    <2>5. RevalidationTyped' BY <1>0, <1>1, <2>1, <2>3, <2>4 DEF RevalidationTyped
    <2>6. AnswersAreHonest' /\ OutagesAreSifted'
      BY <2>3 DEF AnswersAreHonest, OutagesAreSifted
    <2>7. ASSUME NEW i \in DOMAIN NextRows, NEW j \in DOMAIN NextRows, i # j,
                 NextRows[i] = NextRows[j]
          PROVE  NextRows[i] \in odd'
      <3>1. CASE i < j
        <4>1. i \in 1 .. j - 1 BY <2>4, <3>1
        <4> QED BY <2>1, <2>7, <4>1
      <3>2. CASE j < i
        <4>1. j \in 1 .. i - 1 BY <2>4, <3>2
        <4> QED BY <2>1, <2>7, <4>1
      <3> QED BY <2>4, <2>7, <3>1, <3>2
    <2>8. RecordedOnce' BY <1>1, <2>3, <2>7 DEF RecordedOnce
    <2>9. StreaksAreEarned' BY <1>0, <2>1 DEF RevalidationInvariant, StreaksAreEarned
    <2> QED BY <2>5, <2>6, <2>8, <2>9 DEF RevalidationInvariant
  <1> QED BY <1>2, <1>3

LEMMA ProbeIsKept ==
    ASSUME RevalidationInvariant, Probe
    PROVE  RevalidationInvariant'
  <1>0. RevalidationTyped /\ sweep.phase = "asking" /\ Len(sweep.answers) < Len(sweep.batch)
        /\ UNCHANGED <<listing, withdrawn, cursorAt, streak, sweeps, goneIn, odd>>
    BY DEF RevalidationInvariant, Probe
  <1> DEFINE n == Len(sweep.answers)
             d == sweep.batch[n + 1]
  <1>1. PICK presence \in {"unknown", IF d \in withdrawn \/ KeyOf[d] \in sweep.down
                                      THEN "gone" ELSE "live"} :
           sweep' = [sweep EXCEPT !.answers = Append(@, presence)]
    BY DEF Probe
  <1>2. presence \in Presence BY DEF Presence
  <1>3. sweep \in SweepRow /\ sweep.answers \in Seq(Presence) /\ n \in Nat
        /\ DOMAIN sweep.answers = 1 .. n /\ DOMAIN sweep.batch = 1 .. Len(sweep.batch)
        /\ Len(sweep.batch) \in Nat /\ sweep.todo \subseteq DOMAIN sweep.answers
    BY <1>0, SweepIsShort DEF RevalidationTyped, SweepRow
  <1>4. /\ Append(sweep.answers, presence) \in Seq(Presence)
        /\ Len(Append(sweep.answers, presence)) = n + 1
        /\ \A i \in 1 .. n : Append(sweep.answers, presence)[i] = sweep.answers[i]
        /\ Append(sweep.answers, presence)[n + 1] = presence
    BY <1>2, <1>3, AppendProperties
  <1>5. /\ sweep' \in SweepRow /\ sweep'.phase = "asking" /\ sweep'.batch = sweep.batch
        /\ sweep'.answers = Append(sweep.answers, presence) /\ sweep'.todo = sweep.todo
        /\ sweep'.down = sweep.down
    BY <1>0, <1>1, <1>3, <1>4 DEF SweepRow
  <1>6. DOMAIN sweep'.answers = 1 .. n + 1 /\ Len(sweep'.answers) = n + 1 BY <1>4, <1>5
  <1>7. RevalidationTyped'
    <2>1. n + 1 <= Len(sweep.batch) BY <1>0, <1>3
    <2>2. sweep'.todo \subseteq DOMAIN sweep'.answers BY <1>3, <1>5, <1>6
    <2> QED BY <1>0, <1>5, <1>6, <2>1, <2>2 DEF RevalidationTyped
  <1>8. AnswersAreHonest'
    <2> SUFFICES ASSUME NEW i \in 1 .. n + 1
                 PROVE  /\ sweep'.answers[i] = "gone" =>
                             sweep.batch[i] \in withdrawn \/ KeyOf[sweep.batch[i]] \in sweep.down
                        /\ KeyOf[sweep.batch[i]] \in sweep.down => sweep'.answers[i] # "live"
      BY <1>0, <1>5, <1>6 DEF AnswersAreHonest
    <2>1. CASE i = n + 1 BY <1>1, <1>4, <1>5, <2>1
    <2>2. CASE i # n + 1
      <3>1. i \in DOMAIN sweep.answers /\ sweep'.answers[i] = sweep.answers[i]
        BY <1>3, <1>4, <1>5, <2>2
      <3> QED BY <3>1 DEF RevalidationInvariant, AnswersAreHonest
    <2> QED BY <2>1, <2>2
  <1>9. OutagesAreSifted' /\ RecordedOnce' /\ StreaksAreEarned'
    BY <1>0, <1>5 DEF RevalidationInvariant, OutagesAreSifted, RecordedOnce, StreaksAreEarned
  <1> QED BY <1>7, <1>8, <1>9 DEF RevalidationInvariant

LEMMA Shares ==
    ASSUME NEW n \in Nat, NEW p \in 0 .. 100
    PROVE  p * n <= n * 100
  <1>1. (100 - p) * n >= 0 OBVIOUS
  <1> QED BY <1>1

LEMMA JudgeIsKept ==
    ASSUME RevalidationInvariant, Judge
    PROVE  RevalidationInvariant'
  <1> DEFINE todo == { i \in DOMAIN sweep.batch :
                 sweep.answers[i] # "unknown" /\ ~LooksDown(KeyOf[sweep.batch[i]]) }
  <1>0. RevalidationTyped /\ sweep.phase = "asking" /\ Len(sweep.answers) = Len(sweep.batch)
        /\ UNCHANGED <<listing, withdrawn, cursorAt, streak, sweeps, goneIn>>
        /\ sweep' = [sweep EXCEPT !.phase = "recording", !.todo = todo]
        /\ odd' = odd \cup { k \in sweep.down : Answered(k, {"live", "gone"}) < DownSample }
    BY DEF RevalidationInvariant, Judge
  <1>1. /\ DOMAIN sweep.answers = 1 .. Len(sweep.answers) /\ Len(sweep.answers) \in Nat
        /\ DOMAIN sweep.batch = DOMAIN sweep.answers
        /\ \A i \in DOMAIN sweep.batch : sweep.batch[i] \in Swept
        /\ \A i \in DOMAIN sweep.answers : sweep.answers[i] \in Presence
    BY <1>0, SweepIsShort
  <1>2. todo \in SUBSET Nat /\ todo \subseteq DOMAIN sweep.answers BY <1>1
  <1>3. ASSUME NEW i \in todo, sweep.answers[i] = "gone", sweep.batch[i] \notin withdrawn
        PROVE  KeyOf[sweep.batch[i]] \in odd'
    <2> DEFINE k == KeyOf[sweep.batch[i]]
               some == { j \in DOMAIN sweep.answers :
                           KeyOf[sweep.batch[j]] = k /\ sweep.answers[j] \in {"live", "gone"} }
    <2>1. i \in DOMAIN sweep.answers /\ ~LooksDown(k) BY <1>1
    <2>2. k \in sweep.down BY <1>3, <2>1 DEF RevalidationInvariant, AnswersAreHonest
    <2>3. some = { j \in DOMAIN sweep.answers :
                     KeyOf[sweep.batch[j]] = k /\ sweep.answers[j] \in {"gone"} }
      BY <2>2 DEF RevalidationInvariant, AnswersAreHonest
    <2>4. Answered(k, {"live", "gone"}) = Cardinality(some)
          /\ Answered(k, {"gone"}) = Cardinality(some)
      BY <2>3 DEF Answered
    <2>5. IsFiniteSet(some)
      <3>1. IsFiniteSet(1 .. Len(sweep.answers)) BY <1>1, FS_Interval
      <3>2. some \subseteq 1 .. Len(sweep.answers) BY <1>1
      <3> QED BY <3>1, <3>2, FS_Subset
    <2> HIDE DEF some, k
    <2>6. Cardinality(some) \in Nat BY <2>5, FS_CardinalityType
    <2>7. DownPercent * Cardinality(some) <= Cardinality(some) * 100
      BY <2>6, Shares, RevalidationAssumption
    <2>8. ~(Cardinality(some) >= DownSample) BY <2>1, <2>4, <2>7 DEF LooksDown
    <2>9. Answered(k, {"live", "gone"}) < DownSample
      BY <2>4, <2>6, <2>8, RevalidationAssumption
    <2> QED BY <1>0, <2>2, <2>9 DEF k
  <1>4. \A i \in todo : sweep.answers[i] # "unknown" OBVIOUS
  <1> HIDE DEF todo
  <1>5. /\ sweep' \in SweepRow /\ sweep'.phase = "recording" /\ sweep'.batch = sweep.batch
        /\ sweep'.answers = sweep.answers /\ sweep'.todo = todo /\ sweep'.down = sweep.down
    BY <1>0, <1>2 DEF RevalidationTyped, SweepRow
  <1>6. RevalidationTyped' BY <1>0, <1>2, <1>5 DEF RevalidationTyped
  <1>7. AnswersAreHonest' BY <1>0, <1>5 DEF RevalidationInvariant, AnswersAreHonest
  <1>8. OutagesAreSifted' BY <1>0, <1>3, <1>4, <1>5 DEF OutagesAreSifted
  <1>9. RecordedOnce' BY <1>0, <1>5 DEF RevalidationInvariant, RecordedOnce
  <1>10. StreaksAreEarned' BY <1>0 DEF RevalidationInvariant, StreaksAreEarned
  <1> QED BY <1>6, <1>7, <1>8, <1>9, <1>10 DEF RevalidationInvariant

LEMMA RecordIsKept ==
    ASSUME RevalidationInvariant, RecordResult
    PROVE  RevalidationInvariant'
  <1>0. RevalidationTyped /\ sweep.phase = "recording"
        /\ UNCHANGED <<listing, withdrawn, cursorAt, sweeps, odd>>
    BY DEF RevalidationInvariant, RecordResult
  <1>1. PICK i \in sweep.todo :
          /\ IF sweep.answers[i] = "live"
             THEN /\ streak' = [streak EXCEPT ![sweep.batch[i]] = 0]
                  /\ goneIn' = [goneIn EXCEPT ![sweep.batch[i]] = {}]
             ELSE /\ streak' = [streak EXCEPT ![sweep.batch[i]] = @ + 1]
                  /\ goneIn' = [goneIn EXCEPT ![sweep.batch[i]] = @ \cup {sweeps}]
          /\ sweep' = [sweep EXCEPT !.todo = @ \ {i}]
    BY DEF RecordResult
  <1> DEFINE d == sweep.batch[i]
  <1>2. i \in DOMAIN sweep.answers /\ i \in DOMAIN sweep.batch /\ d \in Swept
        /\ sweep.answers[i] \in Presence /\ sweep.answers[i] # "unknown"
        /\ DOMAIN sweep.answers \subseteq DOMAIN sweep.batch
    BY <1>0, SweepIsShort DEF RevalidationTyped, RevalidationInvariant, OutagesAreSifted
  <1>3. /\ sweep' \in SweepRow /\ sweep'.phase = "recording" /\ sweep'.batch = sweep.batch
        /\ sweep'.answers = sweep.answers /\ sweep'.todo = sweep.todo \ {i}
        /\ sweep'.down = sweep.down
    BY <1>0, <1>1 DEF RevalidationTyped, SweepRow
  <1>4. sweeps \in Nat /\ streak \in [Swept -> Nat] /\ goneIn \in [Swept -> SUBSET (1 .. sweeps)]
    BY <1>0 DEF RevalidationTyped
  <1>5. \A c \in Swept : c # d => streak'[c] = streak[c] /\ goneIn'[c] = goneIn[c]
    BY <1>1, <1>4
  <1>6. CASE sweep.answers[i] = "live"
    <2>1. streak'[d] = 0 /\ goneIn'[d] = {} /\ streak' \in [Swept -> Nat]
          /\ goneIn' \in [Swept -> SUBSET (1 .. sweeps)]
      BY <1>1, <1>2, <1>4, <1>6
    <2>2. RevalidationTyped' BY <1>0, <1>3, <2>1 DEF RevalidationTyped
    <2>3. AnswersAreHonest' /\ OutagesAreSifted'
      BY <1>0, <1>3 DEF RevalidationInvariant, AnswersAreHonest, OutagesAreSifted
    <2>4. RecordedOnce'
      BY <1>0, <1>3, <1>5, <2>1 DEF RevalidationInvariant, RecordedOnce
    <2>5. StreaksAreEarned'
      <3>1. 0 <= Cardinality({}) /\ ~(0 > 0) BY FS_EmptySet
      <3> QED BY <1>0, <1>5, <2>1, <3>1 DEF RevalidationInvariant, StreaksAreEarned
    <2> QED BY <2>2, <2>3, <2>4, <2>5 DEF RevalidationInvariant
  <1>7. CASE sweep.answers[i] # "live"
    <2>0. sweep.answers[i] = "gone" BY <1>2, <1>7 DEF Presence
    <2>1. /\ streak'[d] = streak[d] + 1 /\ goneIn'[d] = goneIn[d] \cup {sweeps}
          /\ streak' = [streak EXCEPT ![d] = @ + 1]
          /\ goneIn' = [goneIn EXCEPT ![d] = @ \cup {sweeps}]
      BY <1>1, <1>2, <1>4, <1>7
    <2>2. streak' \in [Swept -> Nat] BY <1>2, <1>4, <2>1
    <2>3. sweeps \in 1 .. sweeps BY <1>0, <1>4 DEF RevalidationTyped
    <2>4. goneIn' \in [Swept -> SUBSET (1 .. sweeps)] BY <1>2, <1>4, <2>1, <2>3
    <2>5. RevalidationTyped' BY <1>0, <1>3, <2>2, <2>4 DEF RevalidationTyped
    <2>6. AnswersAreHonest' /\ OutagesAreSifted'
      BY <1>0, <1>3 DEF RevalidationInvariant, AnswersAreHonest, OutagesAreSifted
    <2>7. RecordedOnce'
      <3>1. ASSUME NEW c \in Swept, sweeps \in goneIn'[c], c \notin odd,
                   NEW j \in sweep.todo \ {i}
            PROVE  sweep.batch[j] # c
        <4>1. j \in DOMAIN sweep.batch BY <1>0, <1>2, <3>1 DEF RevalidationTyped
        <4>2. CASE c = d
          BY <1>2, <3>1, <4>1, <4>2 DEF RevalidationInvariant, RecordedOnce
        <4>3. CASE c # d
          BY <1>0, <1>5, <3>1, <4>3 DEF RevalidationInvariant, RecordedOnce
        <4> QED BY <4>2, <4>3
      <3> QED BY <1>0, <1>3, <3>1 DEF RevalidationInvariant, RecordedOnce
    <2>8. StreaksAreEarned'
      <3>1. d \in withdrawn \/ KeyOf[d] \in odd
        BY <1>0, <2>0 DEF RevalidationInvariant, OutagesAreSifted
      <3>2. d \in odd \/ streak'[d] <= Cardinality(goneIn'[d])
        <4> SUFFICES ASSUME d \notin odd PROVE streak[d] + 1 <= Cardinality(goneIn[d] \cup {sweeps})
          BY <2>1
        <4>1. sweeps \notin goneIn[d]
          BY <1>0, <1>2 DEF RevalidationInvariant, RecordedOnce
        <4>2. IsFiniteSet(goneIn[d])
          <5>1. IsFiniteSet(1 .. sweeps) /\ goneIn[d] \subseteq 1 .. sweeps
            BY <1>2, <1>4, FS_Interval
          <5> QED BY <5>1, FS_Subset
        <4>3. /\ Cardinality(goneIn[d]) \in Nat
              /\ Cardinality(goneIn[d] \cup {sweeps}) = Cardinality(goneIn[d]) + 1
          BY <4>1, <4>2, FS_CardinalityType, FS_AddElement
        <4>4. streak[d] <= Cardinality(goneIn[d]) /\ streak[d] \in Nat
          BY <1>2, <1>4 DEF RevalidationInvariant, StreaksAreEarned
        <4> QED BY <4>3, <4>4
      <3> QED BY <1>0, <1>5, <3>1, <3>2 DEF RevalidationInvariant, StreaksAreEarned
    <2> QED BY <2>5, <2>6, <2>7, <2>8 DEF RevalidationInvariant
  <1> QED BY <1>6, <1>7

LEMMA ListingIsKept ==
    ASSUME RevalidationInvariant, ListingChanges
    PROVE  RevalidationInvariant'
  <1>1. UNCHANGED <<withdrawn, sweep, cursorAt, streak, sweeps, goneIn, odd>>
        /\ listing' \in Seq(Swept)
    BY RevalidationAssumption DEF ListingChanges
  <1>2. RevalidationTyped' BY <1>1 DEF RevalidationInvariant, RevalidationTyped
  <1>3. AnswersAreHonest' /\ OutagesAreSifted' /\ RecordedOnce' /\ StreaksAreEarned'
    BY <1>1 DEF RevalidationInvariant, AnswersAreHonest, OutagesAreSifted, RecordedOnce,
                StreaksAreEarned
  <1> QED BY <1>2, <1>3 DEF RevalidationInvariant

LEMMA WithdrawIsKept ==
    ASSUME RevalidationInvariant, NEW w \in Swept, Withdraw(w)
    PROVE  RevalidationInvariant'
  <1>1. UNCHANGED <<listing, sweep, cursorAt, streak, sweeps, goneIn, odd>>
        /\ withdrawn \subseteq withdrawn'
    BY DEF Withdraw
  <1>2. RevalidationTyped' BY <1>1 DEF RevalidationInvariant, RevalidationTyped
  <1>3. AnswersAreHonest' /\ OutagesAreSifted' /\ RecordedOnce' /\ StreaksAreEarned'
    BY <1>1 DEF RevalidationInvariant, AnswersAreHonest, OutagesAreSifted, RecordedOnce,
                StreaksAreEarned
  <1> QED BY <1>2, <1>3 DEF RevalidationInvariant

LEMMA SweepRests ==
    ASSUME RevalidationInvariant, UNCHANGED revalidationVars
    PROVE  RevalidationInvariant'
  <1>1. UNCHANGED <<listing, withdrawn, sweep, cursorAt, streak, sweeps, goneIn, odd>>
    BY DEF revalidationVars
  <1>2. RevalidationTyped' BY <1>1 DEF RevalidationInvariant, RevalidationTyped
  <1>3. AnswersAreHonest' /\ OutagesAreSifted' /\ RecordedOnce' /\ StreaksAreEarned'
    BY <1>1 DEF RevalidationInvariant, AnswersAreHonest, OutagesAreSifted, RecordedOnce,
                StreaksAreEarned
  <1> QED BY <1>2, <1>3 DEF RevalidationInvariant

LEMMA SweepSteps ==
    ASSUME RevalidationInvariant, RevalidationNext
    PROVE  RevalidationInvariant'
  <1>1. CASE ListingChanges BY <1>1, ListingIsKept
  <1>2. CASE Probe BY <1>2, ProbeIsKept
  <1>3. CASE Judge BY <1>3, JudgeIsKept
  <1>4. CASE RecordResult BY <1>4, RecordIsKept
  <1>5. CASE EndSweep
    <2>1. Len(sweep.batch) \in Nat /\ cursorAt \in Nat
      BY SweepIsShort DEF RevalidationInvariant, RevalidationTyped
    <2>2. cursorAt' \in Nat BY <1>5, <2>1 DEF EndSweep
    <2> QED BY <1>5, <2>2, NoSweepIsKept DEF EndSweep
  <1>6. CASE SweepDies
    <2>1. cursorAt' \in Nat
      BY <1>6 DEF SweepDies, RevalidationInvariant, RevalidationTyped
    <2> QED BY <1>6, <2>1, NoSweepIsKept DEF SweepDies
  <1>7. CASE \E w \in Swept : Withdraw(w) BY <1>7, WithdrawIsKept
  <1>8. CASE \E down \in SUBSET Keys : BeginSweep(down) BY <1>8, BeginIsKept
  <1> QED BY <1>1, <1>2, <1>3, <1>4, <1>5, <1>6, <1>7, <1>8 DEF RevalidationNext

(* revalidate_documents.ts: however often the sweep is killed, whatever    *)
(* the index lists by then and whichever suppliers are down, no document   *)
(* is on its way to a takedown for an outage a batch could tell, and no    *)
(* sweep counts twice.                                                     *)
THEOREM StreaksStayEarned == RevalidationSpec => []RevalidationInvariant
  <1>1. RevalidationInvariant /\ [RevalidationNext]_revalidationVars => RevalidationInvariant'
    BY SweepSteps, SweepRests
  <1> QED BY SweepStarts, <1>1, PTL DEF RevalidationSpec

LEMMA EarnedFollows == RevalidationInvariant => StreaksAreEarned
  BY DEF RevalidationInvariant

-----------------------------------------------------------------------------
(* The index client (IndexClient). The bodies still to be sent cut what is *)
(* left of the rows into pieces, one after the other: the ends of the      *)
(* pieces begin with what has been sent and rise to the last row.          *)
Cut(bodies, ends, n) ==
    /\ bodies \in Seq(Seq(Nat))
    /\ ends \in [0 .. Len(bodies) -> 0 .. n] /\ ends[Len(bodies)] = n
    /\ \A j \in 1 .. Len(bodies) :
          /\ ends[j - 1] < ends[j] /\ Len(bodies[j]) = ends[j] - ends[j - 1]
          /\ \A i \in 1 .. Len(bodies[j]) : bodies[j][i] = ends[j - 1] + i

CutFrom(bodies, k, n) ==
    \E ends \in [0 .. Len(bodies) -> 0 .. n] : ends[0] = k /\ Cut(bodies, ends, n)

LEMMA NoBodies ==
    ASSUME NEW n \in Nat
    PROVE  CutFrom(<<>>, n, n)
  <1> DEFINE ends == [j \in 0 .. 0 |-> n]
  <1>1. <<>> \in Seq(Seq(Nat)) /\ Len(<<>>) = 0 OBVIOUS
  <1>2. ends \in [0 .. 0 -> 0 .. n] /\ ends[0] = n OBVIOUS
  <1> HIDE DEF ends
  <1> QED BY <1>1, <1>2 DEF CutFrom, Cut

LEMMA BodyJoins ==
    ASSUME NEW n \in Nat, NEW bodies, CutFrom(bodies, 0, n)
    PROVE  CutFrom(Append(bodies, <<n + 1>>), 0, n + 1)
  <1>1. PICK ends \in [0 .. Len(bodies) -> 0 .. n] : ends[0] = 0 /\ Cut(bodies, ends, n)
    BY DEF CutFrom
  <1> DEFINE more == Append(bodies, <<n + 1>>)
             last == Len(bodies)
             new == [j \in 0 .. last + 1 |-> IF j = last + 1 THEN n + 1 ELSE ends[j]]
  <1>2. bodies \in Seq(Seq(Nat)) /\ last \in Nat /\ <<n + 1>> \in Seq(Nat)
        /\ Len(<<n + 1>>) = 1 /\ <<n + 1>>[1] = n + 1
    BY <1>1 DEF Cut
  <1>3. /\ more \in Seq(Seq(Nat)) /\ Len(more) = last + 1 /\ more[last + 1] = <<n + 1>>
        /\ \A j \in 1 .. last : more[j] = bodies[j]
    BY <1>2, AppendProperties
  <1>4. new \in [0 .. last + 1 -> 0 .. n + 1] /\ new[0] = 0 /\ new[last + 1] = n + 1
        /\ \A j \in 0 .. last : new[j] = ends[j]
    BY <1>1, <1>2
  <1> HIDE DEF more, new
  <1>5. ASSUME NEW j \in 1 .. last + 1
        PROVE  /\ new[j - 1] < new[j] /\ Len(more[j]) = new[j] - new[j - 1]
               /\ \A i \in 1 .. Len(more[j]) : more[j][i] = new[j - 1] + i
    <2>1. CASE j = last + 1
      <3>1. new[j - 1] = n BY <1>1, <1>2, <1>4, <2>1 DEF Cut
      <3>2. more[j] = <<n + 1>> /\ new[j] = n + 1 BY <1>3, <1>4, <2>1
      <3> QED BY <1>2, <3>1, <3>2
    <2>2. CASE j # last + 1
      <3>0. j \in 1 .. last /\ j - 1 \in 0 .. last /\ j \in 0 .. last
        <4>1. last \in Nat BY <1>2
        <4> HIDE DEF last
        <4> QED BY <2>2, <4>1
      <3>1. new[j - 1] = ends[j - 1] /\ new[j] = ends[j] /\ more[j] = bodies[j]
        BY <1>3, <1>4, <3>0
      <3> QED BY <1>1, <3>0, <3>1 DEF Cut
    <2> QED BY <2>1, <2>2
  <1>6. Cut(more, new, n + 1) BY <1>3, <1>4, <1>5 DEF Cut
  <1> QED BY <1>3, <1>4, <1>6 DEF CutFrom, more

LEMMA LastBodyGrows ==
    ASSUME NEW n \in Nat, NEW bodies, CutFrom(bodies, 0, n), Len(bodies) > 0
    PROVE  CutFrom([bodies EXCEPT ![Len(bodies)] = Append(@, n + 1)], 0, n + 1)
  <1>1. PICK ends \in [0 .. Len(bodies) -> 0 .. n] : ends[0] = 0 /\ Cut(bodies, ends, n)
    BY DEF CutFrom
  <1> DEFINE last == Len(bodies)
             more == [bodies EXCEPT ![last] = Append(@, n + 1)]
             new == [ends EXCEPT ![last] = n + 1]
  <1>2. bodies \in Seq(Seq(Nat)) /\ last \in Nat /\ last > 0 /\ bodies[last] \in Seq(Nat)
        /\ Len(bodies[last]) \in Nat /\ ends[last] = n /\ ends[last - 1] \in 0 .. n
    <2>1. bodies \in Seq(Seq(Nat)) /\ ends[last] = n BY <1>1 DEF Cut
    <2>2. last \in Nat /\ last > 0 /\ bodies[last] \in Seq(Nat) BY <2>1
    <2>3. last - 1 \in 0 .. last BY <2>2
    <2>4. ends[last - 1] \in 0 .. n BY <1>1, <2>3
    <2>5. Len(bodies[last]) \in Nat BY <2>2
    <2> QED BY <2>1, <2>2, <2>4, <2>5
  <1>3. /\ Append(bodies[last], n + 1) \in Seq(Nat)
        /\ Len(Append(bodies[last], n + 1)) = Len(bodies[last]) + 1
        /\ Append(bodies[last], n + 1)[Len(bodies[last]) + 1] = n + 1
        /\ \A i \in 1 .. Len(bodies[last]) : Append(bodies[last], n + 1)[i] = bodies[last][i]
    BY <1>2, AppendProperties
  <1>4. /\ more \in Seq(Seq(Nat)) /\ Len(more) = last /\ more[last] = Append(bodies[last], n + 1)
        /\ \A j \in 1 .. last : j # last => more[j] = bodies[j]
    BY <1>2, <1>3
  <1>5. new \in [0 .. last -> 0 .. n + 1] /\ new[0] = 0 /\ new[last] = n + 1
        /\ \A j \in 0 .. last : j # last => new[j] = ends[j]
    BY <1>1, <1>2
  <1> HIDE DEF more, new
  <1>6. ASSUME NEW j \in 1 .. last
        PROVE  /\ new[j - 1] < new[j] /\ Len(more[j]) = new[j] - new[j - 1]
               /\ \A i \in 1 .. Len(more[j]) : more[j][i] = new[j - 1] + i
    <2>0. new[j - 1] = ends[j - 1] BY <1>2, <1>5
    <2>1. CASE j = last
      <3>1. ends[j - 1] < n /\ Len(bodies[j]) = n - ends[j - 1]
            /\ \A i \in 1 .. Len(bodies[j]) : bodies[j][i] = ends[j - 1] + i
        BY <1>1, <1>2, <2>1 DEF Cut
      <3>2. more[j] = Append(bodies[last], n + 1) /\ new[j] = n + 1 BY <1>4, <1>5, <2>1
      <3>3. Len(more[j]) = new[j] - new[j - 1] BY <1>2, <1>3, <2>0, <2>1, <3>1, <3>2
      <3>4. ASSUME NEW i \in 1 .. Len(more[j])
            PROVE  more[j][i] = ends[j - 1] + i
        <4>1. CASE i = Len(bodies[last]) + 1 BY <1>2, <1>3, <2>1, <3>1, <3>2, <4>1
        <4>2. CASE i # Len(bodies[last]) + 1
          <5>1. i \in 1 .. Len(bodies[last]) BY <1>2, <1>3, <3>2, <4>2
          <5> QED BY <1>3, <2>1, <3>1, <3>2, <5>1
        <4> QED BY <4>1, <4>2
      <3> QED BY <1>2, <2>0, <2>1, <3>1, <3>2, <3>3, <3>4
    <2>2. CASE j # last
      <3>1. new[j] = ends[j] /\ more[j] = bodies[j] BY <1>2, <1>4, <1>5, <2>2
      <3> QED BY <1>1, <2>0, <3>1 DEF Cut
    <2> QED BY <2>1, <2>2
  <1>7. Cut(more, new, n + 1) BY <1>4, <1>5, <1>6 DEF Cut
  <1> QED BY <1>4, <1>5, <1>7 DEF CutFrom, more

(* The next body holds the next rows, and the rest is cut after them.      *)
LEMMA FirstBody ==
    ASSUME NEW n \in Nat, NEW k, NEW bodies, CutFrom(bodies, k, n), bodies # <<>>
    PROVE  /\ k \in Nat /\ Head(bodies) \in Seq(Nat)
           /\ Len(Head(bodies)) \in Nat \ {0} /\ k + Len(Head(bodies)) <= n
           /\ \A i \in 1 .. Len(Head(bodies)) : Head(bodies)[i] = k + i
           /\ RangeOf(Head(bodies)) = k + 1 .. k + Len(Head(bodies))
           /\ CutFrom(Tail(bodies), k + Len(Head(bodies)), n)
  <1>1. PICK ends \in [0 .. Len(bodies) -> 0 .. n] : ends[0] = k /\ Cut(bodies, ends, n)
    BY DEF CutFrom
  <1> DEFINE len == Len(Head(bodies))
             rest == Tail(bodies)
             new == [j \in 0 .. Len(bodies) - 1 |-> ends[j + 1]]
  <1>2. bodies \in Seq(Seq(Nat)) /\ Len(bodies) \in Nat /\ Len(bodies) > 0
        /\ Head(bodies) = bodies[1] /\ Head(bodies) \in Seq(Nat) /\ len \in Nat
        /\ rest \in Seq(Seq(Nat)) /\ Len(rest) = Len(bodies) - 1
        /\ \A j \in 1 .. Len(rest) : rest[j] = bodies[j + 1]
    <2>1. bodies \in Seq(Seq(Nat)) BY <1>1 DEF Cut
    <2> QED BY <2>1
  <1>3. k \in 0 .. n /\ ends[1] \in 0 .. n /\ k < ends[1] /\ len = ends[1] - k
        /\ \A i \in 1 .. len : Head(bodies)[i] = k + i
    <2>1. 1 \in 1 .. Len(bodies) /\ 0 \in 0 .. Len(bodies) /\ 1 \in 0 .. Len(bodies) /\ 1 - 1 = 0
      BY <1>2
    <2>2. ends[1 - 1] < ends[1] /\ Len(bodies[1]) = ends[1] - ends[1 - 1]
          /\ \A i \in 1 .. Len(bodies[1]) : bodies[1][i] = ends[1 - 1] + i
      BY <1>1, <2>1 DEF Cut
    <2> QED BY <1>1, <1>2, <2>1, <2>2
  <1> HIDE DEF len
  <1>4. len \in Nat \ {0} /\ k + len = ends[1] /\ k + len <= n
    <2>1. ASSUME NEW e \in 0 .. n, k \in 0 .. n, k < e, len = e - k
          PROVE  len \in Nat \ {0} /\ k + len = e /\ k + len <= n
      BY <2>1
    <2> QED BY <1>3, <2>1
  <1>5. RangeOf(Head(bodies)) = k + 1 .. k + len
    <2>1. DOMAIN Head(bodies) = 1 .. len BY <1>2 DEF len
    <2>2. ASSUME NEW x \in k + 1 .. k + len
          PROVE  x - k \in 1 .. len /\ Head(bodies)[x - k] = x
      BY <1>3, <1>4
    <2>3. \A i \in 1 .. len : Head(bodies)[i] \in k + 1 .. k + len BY <1>3, <1>4
    <2> QED BY <2>1, <2>2, <2>3 DEF RangeOf
  <1>6. new \in [0 .. Len(rest) -> 0 .. n] /\ new[0] = k + len
        /\ \A j \in 0 .. Len(rest) : new[j] = ends[j + 1]
    BY <1>1, <1>2, <1>4
  <1> HIDE DEF new, rest
  <1>7. new[Len(rest)] = n BY <1>1, <1>2, <1>6 DEF Cut
  <1>8. ASSUME NEW j \in 1 .. Len(rest)
        PROVE  /\ new[j - 1] < new[j] /\ Len(rest[j]) = new[j] - new[j - 1]
               /\ \A i \in 1 .. Len(rest[j]) : rest[j][i] = new[j - 1] + i
    <2>1. /\ j + 1 \in 1 .. Len(bodies) /\ rest[j] = bodies[j + 1]
          /\ new[j] = ends[j + 1] /\ new[j - 1] = ends[j] /\ (j + 1) - 1 = j
      BY <1>2, <1>6
    <2> QED BY <1>1, <2>1 DEF Cut
  <1>9. Cut(rest, new, n) BY <1>2, <1>6, <1>7, <1>8 DEF Cut
  <1>10. CutFrom(rest, k + len, n) BY <1>6, <1>9 DEF CutFrom
  <1>11. k \in Nat BY <1>3
  <1> QED BY <1>2, <1>3, <1>4, <1>5, <1>10, <1>11 DEF len, rest

(* A body put before what was cut.                                         *)
LEMMA BodyBefore ==
    ASSUME NEW n \in Nat, NEW k \in Nat, NEW body \in Seq(Nat), Len(body) > 0,
           \A i \in 1 .. Len(body) : body[i] = k + i,
           NEW bodies, CutFrom(bodies, k + Len(body), n)
    PROVE  CutFrom(<<body>> \o bodies, k, n)
  <1>1. PICK ends \in [0 .. Len(bodies) -> 0 .. n] :
           ends[0] = k + Len(body) /\ Cut(bodies, ends, n)
    BY DEF CutFrom
  <1> DEFINE more == <<body>> \o bodies
             new == [j \in 0 .. Len(bodies) + 1 |-> IF j = 0 THEN k ELSE ends[j - 1]]
  <1>2. bodies \in Seq(Seq(Nat)) /\ Len(bodies) \in Nat /\ Len(body) \in Nat
        /\ <<body>> \in Seq(Seq(Nat)) /\ Len(<<body>>) = 1 /\ <<body>>[1] = body
    BY <1>1 DEF Cut
  <1>3. /\ more \in Seq(Seq(Nat)) /\ Len(more) = Len(bodies) + 1 /\ more[1] = body
        /\ \A j \in 2 .. Len(bodies) + 1 : more[j] = bodies[j - 1]
    BY <1>2
  <1>4. ends[0] \in 0 .. n /\ k \in 0 .. n
    <2>0. 0 \in 0 .. Len(bodies) BY <1>2
    <2>1. ends[0] \in 0 .. n BY <1>1, <2>0
    <2> QED BY <1>1, <1>2, <2>1
  <1>5. new \in [0 .. Len(more) -> 0 .. n] /\ new[0] = k
        /\ \A j \in 1 .. Len(more) : new[j] = ends[j - 1]
    BY <1>1, <1>2, <1>3, <1>4
  <1> HIDE DEF more, new
  <1>6. new[Len(more)] = n
    <2>1. Len(more) \in 1 .. Len(more) /\ Len(more) - 1 = Len(bodies) BY <1>2, <1>3
    <2>2. new[Len(more)] = ends[Len(bodies)] BY <1>5, <2>1
    <2> QED BY <1>1, <2>2 DEF Cut
  <1>7. ASSUME NEW j \in 1 .. Len(more)
        PROVE  /\ new[j - 1] < new[j] /\ Len(more[j]) = new[j] - new[j - 1]
               /\ \A i \in 1 .. Len(more[j]) : more[j][i] = new[j - 1] + i
    <2>1. CASE j = 1
      <3>1. new[j - 1] = k /\ new[j] = k + Len(body) /\ more[j] = body
        BY <1>1, <1>3, <1>5, <2>1
      <3> QED BY <1>2, <3>1
    <2>2. CASE j # 1
      <3>0. j - 1 \in 1 .. Len(bodies) /\ j - 1 \in 1 .. Len(more)
            /\ j \in 2 .. Len(bodies) + 1
        BY <1>2, <1>3, <2>2
      <3>1. more[j] = bodies[j - 1] /\ new[j] = ends[j - 1] /\ new[j - 1] = ends[(j - 1) - 1]
        BY <1>3, <1>5, <3>0
      <3> QED BY <1>1, <3>0, <3>1 DEF Cut
    <2> QED BY <2>1, <2>2
  <1>8. Cut(more, new, n) BY <1>3, <1>5, <1>6, <1>7 DEF Cut
  <1> QED BY <1>5, <1>8 DEF CutFrom, more

LEMMA Middles == \A n \in Nat : n > 1 => n \div 2 \in 1 .. n - 1
  OBVIOUS

LEMMA TwoBodies ==
    ASSUME NEW S, NEW a \in S, NEW b \in S
    PROVE  <<a>> \o <<b>> = <<a, b>>
  <1>1. <<a>> \in Seq(S) /\ <<b>> \in Seq(S) /\ Len(<<a>>) = 1 /\ Len(<<b>>) = 1
        /\ <<a>>[1] = a /\ <<b>>[1] = b
    OBVIOUS
  <1>2. /\ <<a>> \o <<b>> \in Seq(S) /\ Len(<<a>> \o <<b>>) = 2
        /\ (<<a>> \o <<b>>)[1] = a /\ (<<a>> \o <<b>>)[2] = b
    BY <1>1, ConcatProperties
  <1>3. <<a, b>> \in Seq(S) /\ Len(<<a, b>>) = 2 /\ <<a, b>>[1] = a /\ <<a, b>>[2] = b
    OBVIOUS
  <1>4. \A i \in 1 .. 2 : (<<a>> \o <<b>>)[i] = <<a, b>>[i]
    <2>1. 1 .. 2 = {1, 2} OBVIOUS
    <2> QED BY <1>2, <1>3, <2>1
  <1> QED BY <1>2, <1>3, <1>4, SeqEqual

LEMMA HalvesFollow ==
    ASSUME NEW n \in Nat, NEW k, NEW bodies, CutFrom(bodies, k, n), bodies # <<>>,
           Len(Head(bodies)) > 1
    PROVE  CutFrom(HalfBodies(Head(bodies)) \o Tail(bodies), k, n)
  <1> DEFINE body == Head(bodies)
             middle == Len(body) \div 2
             first == SubSeq(body, 1, middle)
             second == SubSeq(body, middle + 1, Len(body))
             rest == Tail(bodies)
  <1>1. k \in Nat /\ body \in Seq(Nat) /\ Len(body) \in Nat /\ k + Len(body) <= n
        /\ CutFrom(rest, k + Len(body), n)
        /\ \A i \in 1 .. Len(body) : body[i] = k + i
    BY FirstBody
  <1>2. rest \in Seq(Seq(Nat)) BY <1>1 DEF CutFrom, Cut
  <1>3. middle \in 1 .. Len(body) - 1 BY <1>1, Middles
  <1> HIDE DEF body, rest, middle
  <1>4. first \in Seq(Nat) /\ Len(first) = middle /\ \A i \in 1 .. middle : first[i] = body[i]
    BY <1>1, <1>3
  <1>5. second \in Seq(Nat) /\ Len(second) = Len(body) - middle
        /\ \A i \in 1 .. Len(body) - middle : second[i] = body[middle + i]
    BY <1>1, <1>3
  <1> HIDE DEF first, second
  <1>6. CutFrom(<<second>> \o rest, k + middle, n)
    <2>1. \A i \in 1 .. Len(second) : second[i] = (k + middle) + i BY <1>1, <1>3, <1>5
    <2>2. (k + middle) + Len(second) = k + Len(body) /\ k + middle \in Nat /\ Len(second) > 0
      BY <1>1, <1>3, <1>5
    <2>3. CutFrom(rest, (k + middle) + Len(second), n) BY <1>1, <2>2
    <2> QED BY <1>5, <2>1, <2>2, <2>3, BodyBefore
  <1>7. CutFrom(<<first>> \o (<<second>> \o rest), k, n)
    <2>0. 1 .. middle \subseteq 1 .. Len(body) BY <1>1, <1>3
    <2>1. \A i \in 1 .. Len(first) : first[i] = k + i BY <1>1, <1>4, <2>0
    <2>2. k + Len(first) = k + middle /\ Len(first) > 0 BY <1>3, <1>4
    <2> QED BY <1>1, <1>4, <1>6, <2>1, <2>2, BodyBefore
  <1>8. <<first>> \o (<<second>> \o rest) = <<first, second>> \o rest
    <2>1. <<first>> \in Seq(Seq(Nat)) /\ <<second>> \in Seq(Seq(Nat)) BY <1>4, <1>5
    <2>2. <<first>> \o <<second>> = <<first, second>> BY <1>4, <1>5, TwoBodies
    <2>3. (<<first>> \o <<second>>) \o rest = <<first>> \o (<<second>> \o rest)
      BY <1>2, <2>1, ConcatAssociative
    <2> QED BY <2>2, <2>3
  <1> QED BY <1>7, <1>8 DEF HalfBodies, body, rest, first, second, middle

(* Packing. The recursive function is defined: from the bodies of the      *)
(* first rows come those of one row more.                                  *)
PackNext(done, i) ==
    IF Len(done) > 0 /\ SizeOf(done[Len(done)]) + size[i] <= MaxBody
    THEN [done EXCEPT ![Len(done)] = Append(@, i)]
    ELSE Append(done, <<i>>)

Packing(f, n) == f = [i \in 0 .. n |-> IF i = 0 THEN <<>> ELSE PackNext(f[i - 1], i)]

LEMMA PackIsNext == \A n : Pack(n) = (CHOOSE f : Packing(f, n))[n]
  BY DEF Pack, Packing, PackNext

LEMMA PackNextIsCut ==
    ASSUME NEW n \in Nat, NEW done, CutFrom(done, 0, n)
    PROVE  CutFrom(PackNext(done, n + 1), 0, n + 1)
  <1>1. CASE Len(done) > 0 /\ SizeOf(done[Len(done)]) + size[n + 1] <= MaxBody
    BY <1>1, LastBodyGrows DEF PackNext
  <1>2. CASE ~(Len(done) > 0 /\ SizeOf(done[Len(done)]) + size[n + 1] <= MaxBody)
    BY <1>2, BodyJoins DEF PackNext
  <1> QED BY <1>1, <1>2

LEMMA PackingExists ==
    ASSUME NEW n \in Nat
    PROVE  \E f : Packing(f, n)
  <1> DEFINE All == Seq(Seq(Nat))
             Packs(f, m) == \A i \in 0 .. n : i <= m =>
                               /\ f[i] = IF i = 0 THEN <<>> ELSE PackNext(f[i - 1], i)
                               /\ CutFrom(f[i], 0, i)
             UpTo(m) == \E f \in [0 .. n -> All] : Packs(f, m)
             Bad == { m \in 0 .. n : ~UpTo(m) }
  <1>1. UpTo(0)
    <2> DEFINE f == [i \in 0 .. n |-> <<>>]
    <2>1. f \in [0 .. n -> All] OBVIOUS
    <2>2. ASSUME NEW i \in 0 .. n, i <= 0
          PROVE  f[i] = (IF i = 0 THEN <<>> ELSE PackNext(f[i - 1], i)) /\ CutFrom(f[i], 0, i)
      <3>1. i = 0 /\ f[i] = <<>> BY <2>2
      <3>2. CutFrom(<<>>, 0, 0) BY NoBodies
      <3> QED BY <3>1, <3>2
    <2> HIDE DEF f
    <2> QED BY <2>1, <2>2
  <1>2. ASSUME NEW m \in 0 .. n, m # n, UpTo(m)
        PROVE  UpTo(m + 1)
    <2>1. PICK f \in [0 .. n -> All] : Packs(f, m) BY <1>2
    <2>2. CutFrom(f[m], 0, m) /\ m + 1 \in 0 .. n /\ m \in Nat BY <1>2, <2>1
    <2> DEFINE next == PackNext(f[m], m + 1)
               g == [f EXCEPT ![m + 1] = next]
    <2>3. CutFrom(next, 0, m + 1) /\ next \in All
      <3>1. CutFrom(next, 0, m + 1) BY <2>2, PackNextIsCut
      <3> HIDE DEF next
      <3>2. next \in All BY <3>1 DEF CutFrom, Cut
      <3> QED BY <3>1, <3>2
    <2>4. g \in [0 .. n -> All] /\ g[m + 1] = next
          /\ \A i \in 0 .. n : i # m + 1 => g[i] = f[i]
      BY <2>2, <2>3
    <2>5. ASSUME NEW i \in 0 .. n, i <= m + 1
          PROVE  g[i] = (IF i = 0 THEN <<>> ELSE PackNext(g[i - 1], i)) /\ CutFrom(g[i], 0, i)
      <3>1. CASE i = m + 1
        <4>1. i - 1 = m /\ g[m] = f[m] /\ i # 0 BY <2>2, <2>4, <3>1
        <4>2. g[i] = PackNext(g[i - 1], i) BY <2>4, <3>1, <4>1
        <4> QED BY <2>3, <2>4, <3>1, <4>1, <4>2
      <3>2. CASE i # m + 1
        <4>1. i <= m /\ g[i] = f[i] BY <2>2, <2>4, <2>5, <3>2
        <4>2. i # 0 => i - 1 \in 0 .. n /\ i - 1 # m + 1 BY <2>2, <4>1
        <4>3. i # 0 => g[i - 1] = f[i - 1] BY <2>4, <4>2
        <4>4. f[i] = (IF i = 0 THEN <<>> ELSE PackNext(f[i - 1], i)) /\ CutFrom(f[i], 0, i)
          BY <2>1, <4>1
        <4> QED BY <4>1, <4>3, <4>4
      <3> QED BY <3>1, <3>2
    <2> HIDE DEF g, next
    <2> QED BY <2>4, <2>5
  <1>3. UpTo(n)
    <2> SUFFICES ASSUME ~UpTo(n) PROVE FALSE OBVIOUS
    <2> HIDE DEF UpTo
    <2>1. n \in Bad /\ Bad \in SUBSET Nat OBVIOUS
    <2>2. PICK m \in Bad : \A k \in Bad : m <= k
      <3> HIDE DEF Bad
      <3> QED BY <2>1, LeastNumber
    <2>3. m # 0 BY <1>1, <2>2
    <2>4. m - 1 \in 0 .. n /\ m - 1 # n /\ m - 1 \notin Bad /\ (m - 1) + 1 = m
      BY <2>2, <2>3
    <2>5. UpTo(m - 1) BY <2>4
    <2>6. UpTo((m - 1) + 1) BY <1>2, <2>4, <2>5
    <2> QED BY <2>2, <2>4, <2>6
  <1>4. PICK f \in [0 .. n -> All] : Packs(f, n) BY <1>3
  <1>5. f = [i \in 0 .. n |-> f[i]] BY <1>4
  <1>6. \A i \in 0 .. n : f[i] = IF i = 0 THEN <<>> ELSE PackNext(f[i - 1], i) BY <1>4
  <1>7. f = [i \in 0 .. n |-> IF i = 0 THEN <<>> ELSE PackNext(f[i - 1], i)]
    BY <1>5, <1>6
  <1> QED BY <1>7 DEF Packing

LEMMA PackIsCut ==
    ASSUME NEW n \in Nat
    PROVE  CutFrom(Pack(n), 0, n)
  <1> DEFINE f == CHOOSE f : Packing(f, n)
             Bad == { m \in 0 .. n : ~CutFrom(f[m], 0, m) }
  <1>1. Packing(f, n) BY PackingExists
  <1> HIDE DEF f
  <1>2. \A i \in 0 .. n : f[i] = IF i = 0 THEN <<>> ELSE PackNext(f[i - 1], i)
    BY <1>1 DEF Packing
  <1>3. CutFrom(f[n], 0, n)
    <2> SUFFICES ASSUME ~CutFrom(f[n], 0, n) PROVE FALSE OBVIOUS
    <2>1. n \in Bad /\ Bad \in SUBSET Nat OBVIOUS
    <2>2. PICK m \in Bad : \A k \in Bad : m <= k
      <3> HIDE DEF Bad
      <3> QED BY <2>1, LeastNumber
    <2>3. m \in 0 .. n /\ ~CutFrom(f[m], 0, m) BY <2>2
    <2>4. m # 0 BY <1>2, <2>3, NoBodies
    <2>5. m - 1 \in 0 .. n /\ m - 1 \in Nat /\ m - 1 \notin Bad /\ (m - 1) + 1 = m
      BY <2>2, <2>3, <2>4
    <2>6. CutFrom(f[m - 1], 0, m - 1) BY <2>5
    <2>7. CutFrom(PackNext(f[m - 1], m), 0, m) BY <2>5, <2>6, PackNextIsCut
    <2> QED BY <1>2, <2>3, <2>4, <2>7
  <1> QED BY <1>3, PackIsNext DEF f

CallTyped ==
    /\ call \in [from: {"import", "reindex"}, bodies: Seq(Seq(Nat)), attempt: Nat,
                 state: {"packing", "sending", "returned", "threw",
                         "succeeded", "partial", "failed"}]
    /\ inIndex \subseteq BatchRows /\ refused \subseteq BatchRows
    /\ call.from = "reindex" => oversized = refused

RowsAreCut ==
    /\ call.state = "packing" => call.bodies = <<>>
    /\ call.state \in {"sending", "threw"} =>
          \E k \in 0 .. RowCount :
              CutFrom(call.bodies, k, RowCount) /\ 1 .. k \subseteq inIndex \cup refused
    /\ call.state = "returned" => inIndex \cup refused = BatchRows
    /\ call.state = "succeeded" => inIndex = BatchRows

ClientInvariant == CallTyped /\ RowsAreCut

(* No row before the body that is being sent is missing.                   *)
LEMMA CutIsBefore ==
    ASSUME IndexClientAssumption, NEW k, NEW bodies, CutFrom(bodies, k, RowCount)
    PROVE  k = (IF bodies = <<>> THEN RowCount ELSE Head(bodies)[1] - 1)
  <1>0. RowCount \in Nat BY DEF IndexClientAssumption
  <1>1. CASE bodies = <<>>
    <2>1. Len(bodies) = 0 BY <1>1
    <2> QED BY <1>1, <2>1 DEF CutFrom, Cut
  <1>2. CASE bodies # <<>>
    <2>1. k \in Nat /\ 1 \in 1 .. Len(Head(bodies))
          /\ \A i \in 1 .. Len(Head(bodies)) : Head(bodies)[i] = k + i
      BY <1>0, <1>2, FirstBody
    <2>2. Head(bodies)[1] = k + 1 BY <2>1
    <2> QED BY <1>2, <2>1, <2>2
  <1> QED BY <1>1, <1>2

LEMMA RestFollows ==
    ClientInvariant => IndexTakesTheRest
  <1> SUFFICES ASSUME ClientInvariant PROVE IndexTakesTheRest OBVIOUS
  <1>1. ASSUME call.state \in {"sending", "threw"}
        PROVE  1 .. (IF call.bodies = <<>> THEN RowCount ELSE Body[1] - 1)
                  \subseteq inIndex \cup refused
    <2>1. PICK k \in 0 .. RowCount :
             CutFrom(call.bodies, k, RowCount) /\ 1 .. k \subseteq inIndex \cup refused
      BY <1>1 DEF ClientInvariant, RowsAreCut
    <2>2. k = (IF call.bodies = <<>> THEN RowCount ELSE Body[1] - 1)
      BY <2>1, CutIsBefore, IndexClientAssumption DEF Body
    <2> QED BY <2>1, <2>2
  <1> QED BY <1>1 DEF ClientInvariant, RowsAreCut, IndexTakesTheRest

LEMMA ClientStarts == IndexClientInit => ClientInvariant
  <1> SUFFICES ASSUME IndexClientInit PROVE ClientInvariant OBVIOUS
  <1>1. call.bodies = <<>> /\ call.state = "packing"
        /\ inIndex = {} /\ refused = {} /\ oversized = {}
    BY DEF IndexClientInit
  <1>2. {<<>>} \subseteq Seq(Seq(Nat)) /\ {1} \subseteq Nat OBVIOUS
  <1>3. CallTyped BY <1>1, <1>2 DEF IndexClientInit, CallTyped
  <1>4. RowsAreCut BY <1>1 DEF RowsAreCut
  <1> QED BY <1>3, <1>4 DEF ClientInvariant

LEMMA PackingIsKept ==
    ASSUME ClientInvariant, PackRows
    PROVE  ClientInvariant'
  <1> DEFINE bodies == Pack(RowCount)
  <1>0. RowCount \in Nat BY IndexClientAssumption DEF IndexClientAssumption
  <1>1. CutFrom(bodies, 0, RowCount) BY <1>0, PackIsCut
  <1> HIDE DEF bodies
  <1>2. bodies \in Seq(Seq(Nat)) BY <1>1 DEF CutFrom, Cut
  <1>3. /\ call' = [call EXCEPT !.bodies = bodies, !.state = "sending"]
        /\ inIndex' = inIndex /\ refused' = refused /\ oversized' = oversized
    BY DEF PackRows, bodies
  <1>4. CallTyped' BY <1>2, <1>3 DEF ClientInvariant, CallTyped
  <1>5. call'.state = "sending" /\ call'.bodies = bodies
    BY <1>3 DEF ClientInvariant, CallTyped
  <1>6. 0 \in 0 .. RowCount /\ 1 .. 0 \subseteq inIndex' \cup refused' BY <1>0
  <1>7. RowsAreCut' BY <1>1, <1>5, <1>6 DEF RowsAreCut
  <1> QED BY <1>4, <1>7 DEF ClientInvariant

(* The body has been dealt with: its rows are in the index or refused.     *)
LEMMA NextBodyIsKept ==
    ASSUME ClientInvariant, Posting, call' = NextBody(call),
           inIndex' \in SUBSET BatchRows, refused' \in SUBSET BatchRows,
           inIndex \subseteq inIndex', refused \subseteq refused',
           RangeOf(Body) \subseteq inIndex' \cup refused',
           call.from = "reindex" => oversized' = refused'
    PROVE  ClientInvariant'
  <1>0. RowCount \in Nat /\ call.state = "sending" /\ call.bodies # <<>>
    BY IndexClientAssumption DEF IndexClientAssumption, Posting
  <1>1. PICK k \in 0 .. RowCount :
           CutFrom(call.bodies, k, RowCount) /\ 1 .. k \subseteq inIndex \cup refused
    BY <1>0 DEF ClientInvariant, RowsAreCut
  <1> DEFINE len == Len(Body)
             rest == Tail(call.bodies)
  <1>2. k \in Nat /\ len \in Nat \ {0} /\ k + len <= RowCount
        /\ RangeOf(Body) = k + 1 .. k + len /\ CutFrom(rest, k + len, RowCount)
    <2>1. Body = Head(call.bodies) BY DEF Body
    <2> DEFINE bodies == call.bodies
    <2>2. CutFrom(bodies, k, RowCount) /\ bodies # <<>> BY <1>0, <1>1
    <2> HIDE DEF bodies
    <2>3. /\ k \in Nat /\ Len(Head(bodies)) \in Nat \ {0} /\ k + Len(Head(bodies)) <= RowCount
          /\ RangeOf(Head(bodies)) = k + 1 .. k + Len(Head(bodies))
          /\ CutFrom(Tail(bodies), k + Len(Head(bodies)), RowCount)
      BY <1>0, <2>2, FirstBody
    <2> QED BY <2>1, <2>3 DEF bodies
  <1> HIDE DEF len, rest
  <1>3. rest \in Seq(Seq(Nat)) BY <1>2 DEF CutFrom, Cut
  <1>4. call' = [call EXCEPT !.bodies = rest, !.attempt = 1] BY DEF NextBody, rest
  <1>5. CallTyped'
    <2>1. call' \in [from: {"import", "reindex"}, bodies: Seq(Seq(Nat)), attempt: Nat,
                     state: {"packing", "sending", "returned", "threw",
                             "succeeded", "partial", "failed"}]
          /\ call'.from = call.from
      <3>1. call \in [from: {"import", "reindex"}, bodies: Seq(Seq(Nat)), attempt: Nat,
                      state: {"packing", "sending", "returned", "threw",
                              "succeeded", "partial", "failed"}]
        BY DEF ClientInvariant, CallTyped
      <3>2. PICK first \in Nat : call' = [call EXCEPT !.bodies = rest, !.attempt = first]
        BY <1>4
      <3> QED BY <1>3, <3>1, <3>2
    <2> QED BY <2>1 DEF CallTyped
  <1>6. call'.state = "sending" /\ call'.bodies = rest
    BY <1>0, <1>4 DEF ClientInvariant, CallTyped
  <1>7. k + len \in 0 .. RowCount /\ 1 .. k + len \subseteq inIndex' \cup refused'
    <2>1. 1 .. k + len = (1 .. k) \cup (k + 1 .. k + len) BY <1>2
    <2> QED BY <1>1, <1>2, <2>1
  <1>8. RowsAreCut' BY <1>2, <1>6, <1>7 DEF RowsAreCut
  <1> QED BY <1>5, <1>8 DEF ClientInvariant

LEMMA BodyIsOfTheBatch ==
    ASSUME ClientInvariant, Posting
    PROVE  RangeOf(Body) \subseteq BatchRows
  <1>0. RowCount \in Nat /\ call.state = "sending" /\ call.bodies # <<>>
    BY IndexClientAssumption DEF IndexClientAssumption, Posting
  <1>1. PICK k \in 0 .. RowCount : CutFrom(call.bodies, k, RowCount)
    BY <1>0 DEF ClientInvariant, RowsAreCut
  <1>2. k \in Nat /\ Len(Body) \in Nat \ {0} /\ k + Len(Body) <= RowCount
        /\ RangeOf(Body) = k + 1 .. k + Len(Body)
    <2>1. Body = Head(call.bodies) BY DEF Body
    <2> DEFINE bodies == call.bodies
    <2>2. CutFrom(bodies, k, RowCount) /\ bodies # <<>> BY <1>0, <1>1
    <2> HIDE DEF bodies
    <2>3. /\ k \in Nat /\ Len(Head(bodies)) \in Nat \ {0} /\ k + Len(Head(bodies)) <= RowCount
          /\ RangeOf(Head(bodies)) = k + 1 .. k + Len(Head(bodies))
          /\ CutFrom(Tail(bodies), k + Len(Head(bodies)), RowCount)
      BY <1>0, <2>2, FirstBody
    <2> QED BY <2>1, <2>3 DEF bodies
  <1> QED BY <1>0, <1>2 DEF BatchRows

(* The bodies are as they were, and rows may have reached the index.       *)
LEMMA RetryIsKept ==
    ASSUME ClientInvariant, Posting, MayHaveTaken, refused' = refused, oversized' = oversized,
           call' \in [from: {call.from}, bodies: {call.bodies}, attempt: Nat,
                      state: {"sending", "threw"}]
    PROVE  ClientInvariant'
  <1>0. RowCount \in Nat /\ call.state = "sending"
    BY IndexClientAssumption DEF IndexClientAssumption, Posting
  <1>1. inIndex \subseteq inIndex' /\ inIndex' \subseteq BatchRows
    BY BodyIsOfTheBatch DEF MayHaveTaken, ClientInvariant, CallTyped
  <1>2. CallTyped' BY <1>1 DEF ClientInvariant, CallTyped
  <1>3. PICK k \in 0 .. RowCount :
           CutFrom(call.bodies, k, RowCount) /\ 1 .. k \subseteq inIndex \cup refused
    BY <1>0 DEF ClientInvariant, RowsAreCut
  <1>4. CutFrom(call'.bodies, k, RowCount) /\ 1 .. k \subseteq inIndex' \cup refused'
    <2>1. call'.bodies = call.bodies OBVIOUS
    <2> QED BY <1>1, <1>3, <2>1
  <1>5. call'.state \in {"sending", "threw"} OBVIOUS
  <1>6. RowsAreCut' BY <1>4, <1>5 DEF RowsAreCut
  <1> QED BY <1>2, <1>6 DEF ClientInvariant

LEMMA HalvingIsKept ==
    ASSUME ClientInvariant, Halve
    PROVE  ClientInvariant'
  <1>0. RowCount \in Nat /\ call.state = "sending" /\ call.bodies # <<>>
        /\ Len(Head(call.bodies)) > 1
    BY IndexClientAssumption DEF IndexClientAssumption, Posting, Halve, Body
  <1>1. PICK k \in 0 .. RowCount :
           CutFrom(call.bodies, k, RowCount) /\ 1 .. k \subseteq inIndex \cup refused
    BY <1>0 DEF ClientInvariant, RowsAreCut
  <1> DEFINE bodies == HalfBodies(Head(call.bodies)) \o Tail(call.bodies)
  <1>2. CutFrom(bodies, k, RowCount) BY <1>0, <1>1, HalvesFollow
  <1>3. call' = [call EXCEPT !.bodies = bodies, !.attempt = 1]
        /\ inIndex' = inIndex /\ refused' = refused /\ oversized' = oversized
    BY DEF Halve, Body
  <1> HIDE DEF bodies
  <1>4. bodies \in Seq(Seq(Nat)) BY <1>2 DEF CutFrom, Cut
  <1>5. CallTyped' BY <1>3, <1>4 DEF ClientInvariant, CallTyped
  <1>6. call'.state = "sending" /\ call'.bodies = bodies
    BY <1>0, <1>3 DEF ClientInvariant, CallTyped
  <1>7. RowsAreCut' BY <1>1, <1>2, <1>3, <1>6 DEF RowsAreCut
  <1> QED BY <1>5, <1>7 DEF ClientInvariant

LEMMA ReturnIsKept ==
    ASSUME ClientInvariant, ReturnToCaller
    PROVE  ClientInvariant'
  <1>0. RowCount \in Nat /\ call.state = "sending" /\ call.bodies = <<>>
        /\ UNCHANGED <<inIndex, refused, oversized>>
        /\ call' = [call EXCEPT !.state = "returned"]
    BY IndexClientAssumption DEF IndexClientAssumption, ReturnToCaller
  <1>1. PICK k \in 0 .. RowCount :
           CutFrom(call.bodies, k, RowCount) /\ 1 .. k \subseteq inIndex \cup refused
    BY <1>0 DEF ClientInvariant, RowsAreCut
  <1>2. k = RowCount BY <1>0, <1>1, CutIsBefore, IndexClientAssumption
  <1>3. inIndex \cup refused = BatchRows
    BY <1>1, <1>2 DEF ClientInvariant, CallTyped, BatchRows
  <1>4. CallTyped' BY <1>0 DEF ClientInvariant, CallTyped
  <1>5. call'.state = "returned" BY <1>0 DEF ClientInvariant, CallTyped
  <1>6. RowsAreCut' BY <1>0, <1>3, <1>5 DEF RowsAreCut
  <1> QED BY <1>4, <1>6 DEF ClientInvariant

LEMMA EndIsKept ==
    ASSUME ClientInvariant, EndReindex
    PROVE  ClientInvariant'
  <1> DEFINE end == IF call.state = "threw" THEN "failed"
                    ELSE IF oversized = {} THEN "succeeded" ELSE "partial"
  <1>0. UNCHANGED <<inIndex, refused, oversized>> /\ call.from = "reindex"
        /\ call.state \in {"returned", "threw"} /\ call' = [call EXCEPT !.state = end]
    BY DEF EndReindex
  <1>1. CallTyped' /\ call'.state = end BY <1>0 DEF ClientInvariant, CallTyped
  <1>2. ASSUME end = "succeeded" PROVE inIndex = BatchRows
    <2>1. call.state = "returned" /\ refused = {}
      BY <1>0, <1>2 DEF ClientInvariant, CallTyped
    <2> QED BY <2>1 DEF ClientInvariant, RowsAreCut
  <1>3. RowsAreCut' BY <1>0, <1>1, <1>2 DEF RowsAreCut
  <1> QED BY <1>1, <1>3 DEF ClientInvariant

LEMMA ClientRests ==
    ASSUME ClientInvariant, UNCHANGED indexClientVars
    PROVE  ClientInvariant'
  BY DEF indexClientVars, ClientInvariant, CallTyped, RowsAreCut

LEMMA ClientSteps ==
    ASSUME ClientInvariant, IndexClientNext
    PROVE  ClientInvariant'
  <1>0. call.from = "reindex" => oversized = refused BY DEF ClientInvariant, CallTyped
  <1>1. CASE PackRows BY <1>1, PackingIsKept
  <1>2. CASE IndexTakes
    <2>1. Posting /\ call' = NextBody(call) /\ inIndex' = inIndex \cup RangeOf(Body)
          /\ refused' = refused /\ oversized' = oversized
      BY <1>2 DEF IndexTakes
    <2>2. inIndex' \in SUBSET BatchRows /\ refused' \in SUBSET BatchRows
      BY <2>1, BodyIsOfTheBatch DEF ClientInvariant, CallTyped
    <2> QED BY <1>0, <2>1, <2>2, NextBodyIsKept
  <1>3. CASE Halve BY <1>3, HalvingIsKept
  <1>4. CASE PassOver
    <2>1. Posting /\ call' = NextBody(call) /\ inIndex' = inIndex
          /\ refused' = refused \cup RangeOf(Body)
          /\ oversized' = IF call.from = "reindex" THEN oversized \cup RangeOf(Body)
                          ELSE oversized
      BY <1>4 DEF PassOver
    <2>2. inIndex' \in SUBSET BatchRows /\ refused' \in SUBSET BatchRows
      BY <2>1, BodyIsOfTheBatch DEF ClientInvariant, CallTyped
    <2> QED BY <1>0, <2>1, <2>2, NextBodyIsKept
  <1>5. CASE Retry
    <2>1. Posting /\ MayHaveTaken /\ refused' = refused /\ oversized' = oversized
          /\ call' = [call EXCEPT !.attempt = @ + 1]
      BY <1>5 DEF Retry
    <2>2. call' \in [from: {call.from}, bodies: {call.bodies}, attempt: Nat,
                     state: {"sending", "threw"}]
      <3>1. call.attempt + 1 \in Nat /\ call.state = "sending"
        BY <2>1 DEF Posting, ClientInvariant, CallTyped
      <3> DEFINE next == call.attempt + 1
      <3>2. call' = [call EXCEPT !.attempt = next] BY <2>1
      <3> HIDE DEF next
      <3> QED BY <3>1, <3>2 DEF next, ClientInvariant, CallTyped
    <2> QED BY <2>1, <2>2, RetryIsKept
  <1>6. CASE Throw
    <2>1. Posting /\ MayHaveTaken /\ refused' = refused /\ oversized' = oversized
          /\ call' = [call EXCEPT !.state = "threw"]
      BY <1>6 DEF Throw
    <2>2. call' \in [from: {call.from}, bodies: {call.bodies}, attempt: Nat,
                     state: {"sending", "threw"}]
      BY <2>1 DEF Posting, ClientInvariant, CallTyped
    <2> QED BY <2>1, <2>2, RetryIsKept
  <1>7. CASE ReturnToCaller BY <1>7, ReturnIsKept
  <1>8. CASE EndReindex BY <1>8, EndIsKept
  <1> QED BY <1>1, <1>2, <1>3, <1>4, <1>5, <1>6, <1>7, <1>8 DEF IndexClientNext

(* QuickwitClient.ingestDocuments(): whatever the sizes of the rows and of *)
(* the bodies, a row the index cannot take costs only itself, and a        *)
(* reindex that succeeds has every row in it.                              *)
THEOREM RestIsTaken == IndexClientSpec => []IndexTakesTheRest
  <1>1. ClientInvariant /\ [IndexClientNext]_indexClientVars => ClientInvariant'
    BY ClientSteps, ClientRests
  <1> QED BY ClientStarts, <1>1, RestFollows, PTL DEF IndexClientSpec

-----------------------------------------------------------------------------
(* Clock times (TimeRepair). The offset is one hour or two and changes     *)
(* once, so that the second look finds the instant if there is one.        *)
LEMMA ReadingsStay ==
    ASSUME clocks \in {"still", "back", "forward"}
    PROVE  ReadingsAreKept
  <1> SUFFICES ASSUME NEW w \in Readings, w % 24 # 0
               PROVE  LET t == WallClockToUtc(w)
                          shows == { u \in w - 2 .. w : u + OffsetAt(u) = w }
                      IN  IF shows # {} THEN t \in shows ELSE t + OffsetAt(t) - w \in {-1, 1}
    BY DEF ReadingsAreKept
  <1> DEFINE t == WallClockToUtc(w)
             shows == { u \in w - 2 .. w : u + OffsetAt(u) = w }
  <1>1. w \in Int BY TimeRepairAssumption DEF TimeRepairAssumption
  <1>2. t = w - OffsetAt(w - OffsetAt(w)) BY DEF WallClockToUtc
  <1>3. \A u \in Int : OffsetAt(u) \in {1, 2} BY DEF OffsetAt
  <1>4. t \in Int /\ t \in w - 2 .. w BY <1>1, <1>2, <1>3
  <1>5. ASSUME NEW u \in w - 2 .. w, u + OffsetAt(u) = w
        PROVE  t + OffsetAt(t) = w
    BY <1>1, <1>2, <1>5 DEF OffsetAt, Switch
  <1>6. t + OffsetAt(t) - w \in {-1, 0, 1} BY <1>1, <1>2 DEF OffsetAt, Switch
  <1>7. CASE shows # {}
    <2>1. t + OffsetAt(t) = w BY <1>5, <1>7
    <2> QED BY <1>4, <1>7, <2>1
  <1>8. CASE shows = {}
    <2>1. t + OffsetAt(t) # w BY <1>4, <1>8
    <2>2. OffsetAt(t) \in Int BY <1>3, <1>4
    <2>3. \A x, y \in Int : x + y - w \in {-1, 0, 1} /\ x + y # w => x + y - w \in {-1, 1}
      BY <1>1
    <2>4. t + OffsetAt(t) - w \in {-1, 1} BY <1>4, <1>6, <2>1, <2>2, <2>3
    <2> HIDE DEF t, shows
    <2> QED BY <1>8, <2>4 DEF t, shows
  <1> QED BY <1>7, <1>8

LEMMA InOrderTakesAll ==
    ASSUME NEW S \in SUBSET Nat, IsFiniteSet(S)
    PROVE  /\ InOrder(S) \in Seq(S) /\ DOMAIN InOrder(S) = 1 .. Len(InOrder(S))
           /\ Len(InOrder(S)) \in Nat
  <1>1. Cardinality(S) \in Nat BY FS_CardinalityType
  <1>2. \A i \in 1 .. Cardinality(S) : InOrder(S)[i] \in S
    BY EveryRankIsTaken DEF InOrder
  <1>3. InOrder(S) \in [1 .. Cardinality(S) -> S] BY <1>2 DEF InOrder
  <1> QED BY <1>1, <1>3

(* Copies of a record are behind the log; what a page was read for was     *)
(* live, and an early copy holds a clock time an import read.              *)
RepairVersion == [op: {"upsert", "delete"}, at: Int, early: BOOLEAN, n: Nat]
RepairCopy == [record: Records, copy: RepairVersion]
RecordReading == [latest: Readings, all: SUBSET Readings, down: BOOLEAN]

TimesTyped ==
    /\ clocks \in {"still", "back", "forward"}
    /\ logged \in [Records -> RepairVersion] /\ searchable \in [Records -> RepairVersion]
    /\ reading \in [Records -> RecordReading]
    /\ \A e \in Records : reading[e].latest \in reading[e].all
    /\ repair \in [phase: {"none", "reading", "repairing", "projecting"},
                   page: Seq(RepairCopy), done: Seq(RepairCopy), upTo: Nat, more: BOOLEAN]

Behind(copy, version) == copy.n <= version.n /\ (copy.n = version.n => version = copy)

PageIsBehind ==
    \A i \in 1 .. Len(repair.page) :
        LET e == repair.page[i].record
            copy == repair.page[i].copy
        IN  /\ Behind(copy, logged[e]) /\ copy.op = "upsert"
            /\ copy.early => copy.at \in reading[e].all
DoneIsBehind ==
    \A i \in 1 .. Len(repair.done) : Behind(repair.done[i].copy, logged[repair.done[i].record])
IndexIsBehind == \A e \in Records : Behind(searchable[e], logged[e])

DateIsKept(e) ==
    /\ logged[e].early => logged[e].at \in reading[e].all
    /\ logged[e].op = "upsert" =>
          logged[e].at \in { WallClockToUtc(w) : w \in reading[e].all }
                            \cup IF logged[e].early THEN reading[e].all ELSE {}
    /\ e \notin overtaken =>
          /\ reading[e].down <=> logged[e].op = "delete"
          /\ logged[e].op = "upsert" =>
                logged[e].at = IF logged[e].early THEN reading[e].latest
                               ELSE WallClockToUtc(reading[e].latest)
DatesAreKept == \A e \in Records : DateIsKept(e)

TimesInvariant ==
    TimesTyped /\ PageIsBehind /\ DoneIsBehind /\ IndexIsBehind /\ DatesAreKept

LEMMA TimesFollow == TimesInvariant => TimesAreShiftedOnce
  <1> SUFFICES ASSUME TimesInvariant PROVE TimesAreShiftedOnce OBVIOUS
  <1>1. ReadingsAreKept BY ReadingsStay DEF TimesInvariant, TimesTyped
  <1>2. ASSUME NEW e \in Records
        PROVE  LET version == logged[e] IN
         /\ version.op = "upsert" =>
              version.at \in { WallClockToUtc(w) : w \in reading[e].all }
                             \cup IF version.early THEN reading[e].all ELSE {}
         /\ e \notin overtaken =>
              /\ reading[e].down <=> version.op = "delete"
              /\ version.op = "upsert" =>
                   version.at = IF version.early THEN reading[e].latest
                                ELSE WallClockToUtc(reading[e].latest)
         /\ searchable[e].n <= version.n
         /\ searchable[e].n = version.n => searchable[e] = version
    <2>1. DateIsKept(e) /\ Behind(searchable[e], logged[e])
      BY DEF TimesInvariant, DatesAreKept, IndexIsBehind
    <2> QED BY <2>1 DEF DateIsKept, Behind
  <1> QED BY <1>1, <1>2 DEF TimesAreShiftedOnce

LEMMA ClocksTellHours ==
    ASSUME clocks \in {"still", "back", "forward"}, NEW w \in Int
    PROVE  WallClockToUtc(w) \in Int
  <1>1. \A u \in Int : OffsetAt(u) \in {1, 2} BY DEF OffsetAt
  <1>2. w - OffsetAt(w - OffsetAt(w)) \in Int BY <1>1
  <1> QED BY <1>2 DEF WallClockToUtc

LEMMA HoursAreNumbers == Readings \subseteq Int
  BY TimeRepairAssumption DEF TimeRepairAssumption

LEMMA TimesStart == TimeRepairInit => TimesInvariant
  <1> SUFFICES ASSUME TimeRepairInit PROVE TimesInvariant OBVIOUS
  <1>1. PICK w \in [Records -> Readings], early \in [Records -> BOOLEAN] :
         /\ logged = [e \in Records |->
              [op |-> "upsert", at |-> IF early[e] THEN w[e] ELSE WallClockToUtc(w[e]),
               early |-> early[e], n |-> 0]]
         /\ reading = [e \in Records |-> [latest |-> w[e], all |-> {w[e]}, down |-> FALSE]]
    BY DEF TimeRepairInit
  <1>2. /\ clocks \in {"still", "back", "forward"} /\ searchable = logged
        /\ repair = NoRepair /\ overtaken = {}
    BY DEF TimeRepairInit
  <1>3. ASSUME NEW e \in Records
        PROVE  /\ logged[e] \in RepairVersion /\ reading[e] \in RecordReading
               /\ logged[e].op = "upsert" /\ logged[e].early = early[e]
               /\ logged[e].at = IF early[e] THEN w[e] ELSE WallClockToUtc(w[e])
               /\ reading[e].latest = w[e] /\ reading[e].all = {w[e]} /\ reading[e].down = FALSE
    <2>1. w[e] \in Readings /\ early[e] \in BOOLEAN /\ w[e] \in Int
      <3>1. early[e] \in BOOLEAN BY <1>1
      <3>2. w[e] \in Readings BY <1>1
      <3>3. w[e] \in Int BY <3>2, HoursAreNumbers
      <3> QED BY <3>1, <3>2, <3>3
    <2> DEFINE at == IF early[e] THEN w[e] ELSE WallClockToUtc(w[e])
    <2>2. at \in Int BY <1>2, <2>1, ClocksTellHours
    <2>3. logged[e] = [op |-> "upsert", at |-> at, early |-> early[e], n |-> 0]
          /\ reading[e] = [latest |-> w[e], all |-> {w[e]}, down |-> FALSE]
      BY <1>1
    <2> HIDE DEF at
    <2>4. logged[e] \in RepairVersion /\ reading[e] \in RecordReading
      BY <2>1, <2>2, <2>3 DEF RepairVersion, RecordReading
    <2> QED BY <2>3, <2>4 DEF at
  <1>4. TimesTyped
    <2>1. repair \in [phase: {"none", "reading", "repairing", "projecting"},
                      page: Seq(RepairCopy), done: Seq(RepairCopy), upTo: Nat, more: BOOLEAN]
      BY <1>2 DEF NoRepair
    <2>2. logged \in [Records -> RepairVersion] /\ reading \in [Records -> RecordReading]
      BY <1>1, <1>3
    <2> QED BY <1>2, <1>3, <2>1, <2>2 DEF TimesTyped
  <1>5. Len(repair.page) = 0 /\ Len(repair.done) = 0 BY <1>2 DEF NoRepair
  <1>6. PageIsBehind /\ DoneIsBehind BY <1>5 DEF PageIsBehind, DoneIsBehind
  <1>7. IndexIsBehind
    <2>1. \A e \in Records : logged[e].n \in Nat BY <1>3 DEF RepairVersion
    <2> QED BY <1>2, <2>1 DEF IndexIsBehind, Behind
  <1>8. DatesAreKept BY <1>3 DEF DatesAreKept, DateIsKept
  <1> QED BY <1>4, <1>6, <1>7, <1>8 DEF TimesInvariant

(* A version written is one more, and what was behind stays so.            *)
LEMMA WriteIsAhead ==
    ASSUME TimesTyped, NEW e \in Records, NEW version \in RepairVersion, Write(e, version)
    PROVE  /\ logged' \in [Records -> RepairVersion]
           /\ logged'[e].op = version.op /\ logged'[e].at = version.at
           /\ logged'[e].early = version.early /\ logged'[e].n = logged[e].n + 1
           /\ \A c \in Records : c # e => logged'[c] = logged[c]
           /\ \A copy : \A c \in Records :
                 copy.n \in Nat /\ Behind(copy, logged[c]) => Behind(copy, logged'[c])
  <1>1. logged[e].n \in Nat /\ logged[e].n + 1 \in Nat BY DEF TimesTyped, RepairVersion
  <1> DEFINE more == logged[e].n + 1
             new == [version EXCEPT !.n = more]
  <1>2. logged' = [logged EXCEPT ![e] = new] BY DEF Write
  <1> HIDE DEF more
  <1>3. more \in Nat BY <1>1 DEF more
  <1>4. new \in RepairVersion /\ new.op = version.op /\ new.at = version.at
        /\ new.early = version.early /\ new.n = more
    BY <1>3 DEF RepairVersion
  <1> HIDE DEF new
  <1>5. logged' \in [Records -> RepairVersion] /\ logged'[e] = new
        /\ \A c \in Records : c # e => logged'[c] = logged[c]
    BY <1>2, <1>4 DEF TimesTyped
  <1>6. ASSUME NEW copy, NEW c \in Records, copy.n \in Nat, Behind(copy, logged[c])
        PROVE  Behind(copy, logged'[c])
    <2>1. CASE c = e
      <3>1. copy.n <= logged[e].n BY <1>6, <2>1 DEF Behind
      <3>2. copy.n <= more /\ copy.n # more BY <1>1, <1>6, <3>1 DEF more
      <3> QED BY <1>4, <1>5, <2>1, <3>2 DEF Behind
    <2>2. CASE c # e BY <1>5, <1>6, <2>2
    <2> QED BY <2>1, <2>2
  <1> QED BY <1>4, <1>5, <1>6 DEF more

LEMMA CopiesAreVersions ==
    ASSUME TimesTyped
    PROVE  /\ \A i \in 1 .. Len(repair.page) :
                 repair.page[i].record \in Records /\ repair.page[i].copy \in RepairVersion
           /\ \A i \in 1 .. Len(repair.done) :
                 repair.done[i].record \in Records /\ repair.done[i].copy \in RepairVersion
           /\ Len(repair.page) \in Nat /\ Len(repair.done) \in Nat
  <1>1. repair.page \in Seq(RepairCopy) /\ repair.done \in Seq(RepairCopy)
    BY DEF TimesTyped
  <1>2. /\ \A i \in 1 .. Len(repair.page) : repair.page[i] \in RepairCopy
        /\ \A i \in 1 .. Len(repair.done) : repair.done[i] \in RepairCopy
        /\ Len(repair.page) \in Nat /\ Len(repair.done) \in Nat
    BY <1>1
  <1> QED BY <1>2 DEF RepairCopy

(* A write of another process: what the repair copied is behind.           *)
LEMMA CopiesStayBehind ==
    ASSUME TimesInvariant, NEW e \in Records, NEW version \in RepairVersion, Write(e, version),
           repair' = repair,
           \A c \in Records : reading[c].all \subseteq reading'[c].all
    PROVE  PageIsBehind' /\ DoneIsBehind'
  <1>0. TimesTyped /\ PageIsBehind /\ DoneIsBehind BY DEF TimesInvariant
  <1>1. \A copy : \A c \in Records :
           copy.n \in Nat /\ Behind(copy, logged[c]) => Behind(copy, logged'[c])
    BY <1>0, WriteIsAhead
  <1>2. PageIsBehind'
    <2> SUFFICES ASSUME NEW i \in 1 .. Len(repair.page)
                 PROVE  LET c == repair.page[i].record
                            copy == repair.page[i].copy
                        IN  /\ Behind(copy, logged'[c]) /\ copy.op = "upsert"
                            /\ copy.early => copy.at \in reading'[c].all
      BY DEF PageIsBehind, Behind
    <2> DEFINE c == repair.page[i].record
               copy == repair.page[i].copy
    <2>1. c \in Records /\ copy \in RepairVersion BY <1>0, CopiesAreVersions
    <2>2. Behind(copy, logged[c]) /\ copy.op = "upsert"
          /\ (copy.early => copy.at \in reading[c].all)
      BY <1>0 DEF PageIsBehind
    <2> HIDE DEF c, copy
    <2>3. copy.n \in Nat BY <2>1 DEF RepairVersion
    <2>4. Behind(copy, logged'[c]) BY <1>1, <2>1, <2>2, <2>3
    <2>5. copy.early => copy.at \in reading'[c].all BY <2>1, <2>2
    <2> QED BY <2>2, <2>4, <2>5 DEF c, copy
  <1>3. DoneIsBehind'
    <2> SUFFICES ASSUME NEW i \in 1 .. Len(repair.done)
                 PROVE  Behind(repair.done[i].copy, logged'[repair.done[i].record])
      BY DEF DoneIsBehind, Behind
    <2> DEFINE c == repair.done[i].record
               copy == repair.done[i].copy
    <2>1. c \in Records /\ copy \in RepairVersion /\ Behind(copy, logged[c])
      BY <1>0, CopiesAreVersions DEF DoneIsBehind
    <2> HIDE DEF c, copy
    <2>2. copy.n \in Nat BY <2>1 DEF RepairVersion
    <2>3. Behind(copy, logged'[c]) BY <1>1, <2>1, <2>2
    <2> QED BY <2>3 DEF c, copy
  <1> QED BY <1>2, <1>3

(* Whoever writes ends with the row in the index: it is the newest.        *)
LEMMA WriterProjects ==
    ASSUME TimesInvariant, NEW e \in Records, NEW version \in RepairVersion, Write(e, version),
           searchable' = [searchable EXCEPT ![e] = logged'[e]]
    PROVE  searchable' \in [Records -> RepairVersion] /\ IndexIsBehind'
  <1>0. TimesTyped /\ IndexIsBehind BY DEF TimesInvariant
  <1>1. logged' \in [Records -> RepairVersion]
        /\ \A c \in Records : c # e => logged'[c] = logged[c]
    BY <1>0, WriteIsAhead
  <1>2. logged'[e] \in RepairVersion BY <1>1
  <1>3. searchable' \in [Records -> RepairVersion] /\ searchable'[e] = logged'[e]
        /\ \A c \in Records : c # e => searchable'[c] = searchable[c]
    BY <1>0, <1>2 DEF TimesTyped
  <1>4. ASSUME NEW c \in Records PROVE Behind(searchable'[c], logged'[c])
    <2>1. CASE c = e
      <3>1. logged'[e].n <= logged'[e].n BY <1>2 DEF RepairVersion
      <3> QED BY <1>3, <2>1, <3>1 DEF Behind
    <2>2. CASE c # e BY <1>0, <1>1, <1>3, <2>2 DEF IndexIsBehind
    <2> QED BY <2>1, <2>2
  <1> QED BY <1>3, <1>4 DEF IndexIsBehind, Behind

LEMMA ImportIsKept ==
    ASSUME TimesInvariant, NEW e \in Records, NEW w \in Readings, ImportWrites(e, w)
    PROVE  TimesInvariant'
  <1> DEFINE version == [op |-> "upsert", at |-> WallClockToUtc(w), early |-> FALSE, n |-> 0]
  <1>0. TimesTyped /\ DatesAreKept BY DEF TimesInvariant
  <1>1. /\ ~reading[e].down /\ Write(e, version)
        /\ searchable' = [searchable EXCEPT ![e] = logged'[e]]
        /\ reading' = [reading EXCEPT ![e].latest = w, ![e].all = @ \cup {w}]
        /\ UNCHANGED <<clocks, repair, overtaken>>
    BY DEF ImportWrites
  <1>2. WallClockToUtc(w) \in Int
    BY <1>0, ClocksTellHours, HoursAreNumbers DEF TimesTyped
  <1>3. version \in RepairVersion /\ version.op = "upsert" /\ version.early = FALSE
        /\ version.at = WallClockToUtc(w)
    BY <1>2 DEF RepairVersion
  <1> HIDE DEF version
  <1>4. /\ logged' \in [Records -> RepairVersion]
        /\ logged'[e].op = "upsert" /\ logged'[e].at = WallClockToUtc(w)
        /\ logged'[e].early = FALSE
        /\ \A c \in Records : c # e => logged'[c] = logged[c]
    BY <1>0, <1>1, <1>3, WriteIsAhead
  <1>5. /\ reading' \in [Records -> RecordReading]
        /\ reading'[e].latest = w /\ reading'[e].all = reading[e].all \cup {w}
        /\ reading'[e].down = reading[e].down
        /\ \A c \in Records : c # e => reading'[c] = reading[c]
    <2>1. reading[e] \in RecordReading BY <1>0 DEF TimesTyped
    <2> DEFINE new == [reading[e] EXCEPT !.latest = w, !.all = @ \cup {w}]
    <2>2. new \in RecordReading /\ new.latest = w /\ new.all = reading[e].all \cup {w}
          /\ new.down = reading[e].down
      BY <2>1 DEF RecordReading
    <2>3. reading' = [reading EXCEPT ![e] = new]
      BY <1>0, <1>1 DEF TimesTyped, RecordReading
    <2> HIDE DEF new
    <2> QED BY <1>0, <2>2, <2>3 DEF TimesTyped
  <1>6. \A c \in Records : reading[c].all \subseteq reading'[c].all
                           /\ reading'[c].latest \in reading'[c].all
    BY <1>0, <1>5 DEF TimesTyped
  <1>7. PageIsBehind' /\ DoneIsBehind' BY <1>1, <1>3, <1>6, CopiesStayBehind
  <1>8. searchable' \in [Records -> RepairVersion] /\ IndexIsBehind'
    BY <1>1, <1>3, WriterProjects
  <1>9. TimesTyped' BY <1>0, <1>1, <1>4, <1>5, <1>6, <1>8 DEF TimesTyped
  <1>10. \A u : WallClockToUtc(u)' = WallClockToUtc(u)
    BY <1>1 DEF WallClockToUtc, OffsetAt
  <1>11. ASSUME NEW c \in Records PROVE DateIsKept(c)'
    <2>1. CASE c = e BY <1>1, <1>4, <1>5, <1>10, <2>1 DEF DateIsKept
    <2>2. CASE c # e
      <3>1. logged'[c] = logged[c] /\ reading'[c] = reading[c] /\ DateIsKept(c)
        BY <1>0, <1>4, <1>5, <2>2 DEF DatesAreKept
      <3> QED BY <1>1, <1>10, <3>1 DEF DateIsKept
    <2> QED BY <2>1, <2>2
  <1>12. DatesAreKept' BY <1>11 DEF DatesAreKept
  <1> QED BY <1>7, <1>8, <1>9, <1>12 DEF TimesInvariant

LEMMA TakedownIsKept ==
    ASSUME TimesInvariant, NEW e \in Records, TakedownWrites(e)
    PROVE  TimesInvariant'
  <1> DEFINE version == [logged[e] EXCEPT !.op = "delete", !.early = FALSE]
  <1>0. TimesTyped /\ DatesAreKept BY DEF TimesInvariant
  <1>1. /\ Write(e, version)
        /\ searchable' = [searchable EXCEPT ![e] = logged'[e]]
        /\ reading' = [reading EXCEPT ![e].down = TRUE]
        /\ UNCHANGED <<clocks, repair, overtaken>>
    BY DEF TakedownWrites
  <1>2. logged[e] \in RepairVersion BY <1>0 DEF TimesTyped
  <1>3. version \in RepairVersion /\ version.op = "delete" /\ version.early = FALSE
    BY <1>2 DEF RepairVersion
  <1> HIDE DEF version
  <1>4. /\ logged' \in [Records -> RepairVersion] /\ logged'[e].op = "delete"
        /\ logged'[e].early = FALSE
        /\ \A c \in Records : c # e => logged'[c] = logged[c]
    BY <1>0, <1>1, <1>3, WriteIsAhead
  <1>5. /\ reading' \in [Records -> RecordReading]
        /\ reading'[e].latest = reading[e].latest /\ reading'[e].all = reading[e].all
        /\ reading'[e].down = TRUE
        /\ \A c \in Records : c # e => reading'[c] = reading[c]
    <2>1. reading[e] \in RecordReading BY <1>0 DEF TimesTyped
    <2> DEFINE new == [reading[e] EXCEPT !.down = TRUE]
    <2>2. new \in RecordReading /\ new.latest = reading[e].latest /\ new.all = reading[e].all
          /\ new.down = TRUE
      BY <2>1 DEF RecordReading
    <2>3. reading' = [reading EXCEPT ![e] = new] BY <1>1
    <2> HIDE DEF new
    <2> QED BY <1>0, <2>2, <2>3 DEF TimesTyped
  <1>6. \A c \in Records : reading[c].all \subseteq reading'[c].all
                           /\ reading'[c].latest \in reading'[c].all
    BY <1>0, <1>5 DEF TimesTyped
  <1>7. PageIsBehind' /\ DoneIsBehind' BY <1>1, <1>3, <1>6, CopiesStayBehind
  <1>8. searchable' \in [Records -> RepairVersion] /\ IndexIsBehind'
    BY <1>1, <1>3, WriterProjects
  <1>9. TimesTyped' BY <1>0, <1>1, <1>4, <1>5, <1>6, <1>8 DEF TimesTyped
  <1>10. \A u : WallClockToUtc(u)' = WallClockToUtc(u)
    BY <1>1 DEF WallClockToUtc, OffsetAt
  <1>11. ASSUME NEW c \in Records PROVE DateIsKept(c)'
    <2>1. CASE c = e BY <1>1, <1>4, <1>5, <2>1 DEF DateIsKept
    <2>2. CASE c # e
      <3>1. logged'[c] = logged[c] /\ reading'[c] = reading[c] /\ DateIsKept(c)
        BY <1>0, <1>4, <1>5, <2>2 DEF DatesAreKept
      <3> QED BY <1>1, <1>10, <3>1 DEF DateIsKept
    <2> QED BY <2>1, <2>2
  <1>12. DatesAreKept' BY <1>11 DEF DatesAreKept
  <1> QED BY <1>7, <1>8, <1>9, <1>12 DEF TimesInvariant

RepairRow == [phase: {"none", "reading", "repairing", "projecting"},
              page: Seq(RepairCopy), done: Seq(RepairCopy), upTo: Nat, more: BOOLEAN]

(* Steps of the script that write nothing to the log.                      *)
LEMMA RepairOnly ==
    ASSUME TimesInvariant, UNCHANGED <<clocks, logged, reading, overtaken>>,
           searchable' \in [Records -> RepairVersion], repair' \in RepairRow,
           PageIsBehind', DoneIsBehind', IndexIsBehind'
    PROVE  TimesInvariant'
  <1>1. TimesTyped' BY DEF TimesInvariant, TimesTyped, RepairRow
  <1>2. DatesAreKept'
    BY DEF TimesInvariant, DatesAreKept, DateIsKept, WallClockToUtc, OffsetAt
  <1> QED BY <1>1, <1>2 DEF TimesInvariant

LEMMA RepairIsARow ==
    ASSUME TimesInvariant
    PROVE  /\ repair \in RepairRow /\ searchable \in [Records -> RepairVersion]
           /\ NoRepair \in RepairRow /\ Len(NoRepair.page) = 0 /\ Len(NoRepair.done) = 0
  BY DEF TimesInvariant, TimesTyped, RepairRow, NoRepair

LEMMA ScriptIsEmpty ==
    ASSUME TimesInvariant, UNCHANGED <<clocks, logged, reading, overtaken, searchable>>,
           repair' \in RepairRow, Len(repair'.page) = 0, Len(repair'.done) = 0
    PROVE  TimesInvariant'
  <1>1. PageIsBehind' /\ DoneIsBehind' BY DEF PageIsBehind, DoneIsBehind
  <1>2. IndexIsBehind' BY DEF TimesInvariant, IndexIsBehind, Behind
  <1>3. searchable' \in [Records -> RepairVersion] BY RepairIsARow
  <1> QED BY <1>1, <1>2, <1>3, RepairOnly

LEMMA ScriptGoesOn ==
    ASSUME TimesInvariant, UNCHANGED <<clocks, logged, reading, overtaken, searchable>>,
           repair' \in RepairRow, repair'.page = repair.page, repair'.done = repair.done
    PROVE  TimesInvariant'
  <1>1. PageIsBehind' /\ DoneIsBehind' /\ IndexIsBehind'
    BY DEF TimesInvariant, PageIsBehind, DoneIsBehind, IndexIsBehind, Behind
  <1>2. searchable' \in [Records -> RepairVersion] BY RepairIsARow
  <1> QED BY <1>1, <1>2, RepairOnly

LEMMA RestOfCopies ==
    ASSUME NEW s \in Seq(RepairCopy), s # <<>>
    PROVE  /\ Tail(s) \in Seq(RepairCopy) /\ Len(s) \in Nat \ {0} /\ Len(Tail(s)) = Len(s) - 1
           /\ Head(s) = s[1] /\ 1 \in 1 .. Len(s)
           /\ \A i \in 1 .. Len(Tail(s)) : Tail(s)[i] = s[i + 1] /\ i + 1 \in 1 .. Len(s)
  OBVIOUS

LEMMA ReadIsKept ==
    ASSUME TimesInvariant, ReadPage
    PROVE  TimesInvariant'
  <1> DEFINE live == LiveAfter(repair.upTo)
             ids == InOrder(PageOf(live))
             page == [i \in DOMAIN ids |-> [record |-> ids[i], copy |-> logged[ids[i]]]]
             upTo == IF ids = <<>> THEN repair.upTo ELSE ids[Len(ids)]
             more == PageOf(live) # live
  <1>0. TimesTyped BY DEF TimesInvariant
  <1>1. /\ repair' = [repair EXCEPT !.phase = "repairing", !.more = more, !.page = page,
                                    !.upTo = upTo]
        /\ UNCHANGED <<clocks, logged, searchable, reading, overtaken>>
    BY DEF ReadPage
  <1>2. /\ PageOf(live) \in SUBSET Nat /\ IsFiniteSet(PageOf(live))
        /\ \A e \in PageOf(live) : e \in Records /\ logged[e].op = "upsert"
    <2>1. PageOf(live) \subseteq live /\ live \subseteq Records BY DEF PageOf, LiveAfter
    <2>2. Records \subseteq Nat /\ IsFiniteSet(Records)
      BY TimeRepairAssumption DEF TimeRepairAssumption
    <2>3. IsFiniteSet(PageOf(live)) BY <2>1, <2>2, FS_Subset
    <2> QED BY <2>1, <2>2, <2>3 DEF LiveAfter
  <1>3. /\ ids \in Seq(PageOf(live)) /\ DOMAIN ids = 1 .. Len(ids) /\ Len(ids) \in Nat
    BY <1>2, InOrderTakesAll
  <1>4. \A i \in 1 .. Len(ids) : ids[i] \in Records /\ logged[ids[i]].op = "upsert"
                                 /\ ids[i] \in Nat
    BY <1>2, <1>3
  <1> HIDE DEF ids, live
  <1>5. page \in Seq(RepairCopy) /\ Len(page) = Len(ids)
        /\ \A i \in 1 .. Len(ids) : page[i].record = ids[i] /\ page[i].copy = logged[ids[i]]
    <2>1. \A i \in 1 .. Len(ids) : [record |-> ids[i], copy |-> logged[ids[i]]] \in RepairCopy
      BY <1>0, <1>4 DEF TimesTyped, RepairCopy
    <2> QED BY <1>3, <2>1
  <1>6. upTo \in Nat
    <2>1. repair.upTo \in Nat BY <1>0 DEF TimesTyped
    <2>2. CASE ids = <<>> BY <2>1, <2>2
    <2>3. CASE ids # <<>>
      <3>1. Len(ids) \in 1 .. Len(ids) BY <1>3, <2>3
      <3> QED BY <1>4, <2>3, <3>1
    <2> QED BY <2>2, <2>3
  <1>7. more \in BOOLEAN OBVIOUS
  <1> HIDE DEF page, upTo, more
  <1>8. repair' \in RepairRow /\ repair'.page = page /\ repair'.done = repair.done
    BY <1>0, <1>1, <1>5, <1>6, <1>7 DEF TimesTyped, RepairRow
  <1>9. PageIsBehind'
    <2> SUFFICES ASSUME NEW i \in 1 .. Len(page)
                 PROVE  /\ Behind(page[i].copy, logged[page[i].record])
                        /\ page[i].copy.op = "upsert"
                        /\ page[i].copy.early => page[i].copy.at \in reading[page[i].record].all
      BY <1>1, <1>8 DEF PageIsBehind, Behind
    <2> DEFINE e == ids[i]
    <2>1. page[i].record = e /\ page[i].copy = logged[e] /\ e \in Records
          /\ logged[e].op = "upsert"
      BY <1>4, <1>5
    <2> HIDE DEF e
    <2>2. logged[e].n \in Nat BY <1>0, <2>1 DEF TimesTyped, RepairVersion
    <2>3. Behind(logged[e], logged[e]) BY <2>2 DEF Behind
    <2>4. logged[e].early => logged[e].at \in reading[e].all
      <3> SUFFICES ASSUME logged[e].early PROVE logged[e].at \in reading[e].all OBVIOUS
      <3>1. DateIsKept(e) BY <2>1 DEF TimesInvariant, DatesAreKept
      <3> QED BY <2>1, <3>1 DEF DateIsKept
    <2> QED BY <2>1, <2>3, <2>4
  <1>10. DoneIsBehind' /\ IndexIsBehind'
    BY <1>1, <1>8 DEF TimesInvariant, DoneIsBehind, IndexIsBehind, Behind
  <1>11. searchable' \in [Records -> RepairVersion] BY <1>0, <1>1 DEF TimesTyped
  <1> QED BY <1>1, <1>8, <1>9, <1>10, <1>11, RepairOnly

LEMMA ProjectIsKept ==
    ASSUME TimesInvariant, ProjectRecord
    PROVE  TimesInvariant'
  <1> DEFINE e == Head(repair.done).record
             row == Head(repair.done).copy
             rest == Tail(repair.done)
  <1>0. TimesTyped BY DEF TimesInvariant
  <1>1. /\ repair.done # <<>> /\ repair' = [repair EXCEPT !.done = rest]
        /\ \/ searchable' = [searchable EXCEPT ![e] = IF row.n > @.n THEN row ELSE @]
           \/ searchable' = searchable
        /\ UNCHANGED <<clocks, logged, reading, overtaken>>
    BY DEF ProjectRecord
  <1>2. repair.done \in Seq(RepairCopy) BY <1>0 DEF TimesTyped
  <1>3. /\ rest \in Seq(RepairCopy) /\ Head(repair.done) = repair.done[1]
        /\ 1 \in 1 .. Len(repair.done)
        /\ \A i \in 1 .. Len(rest) : rest[i] = repair.done[i + 1] /\ i + 1 \in 1 .. Len(repair.done)
    BY <1>1, <1>2, RestOfCopies
  <1>4. e \in Records /\ row \in RepairVersion /\ Behind(row, logged[e])
    BY <1>0, <1>3, CopiesAreVersions DEF TimesInvariant, DoneIsBehind
  <1> HIDE DEF e, row, rest
  <1>5. repair' \in RepairRow /\ repair'.page = repair.page /\ repair'.done = rest
    BY <1>0, <1>1, <1>3 DEF TimesTyped, RepairRow
  <1>6. DoneIsBehind'
    <2> SUFFICES ASSUME NEW i \in 1 .. Len(rest)
                 PROVE  Behind(rest[i].copy, logged[rest[i].record])
      BY <1>1, <1>5 DEF DoneIsBehind, Behind
    <2> QED BY <1>3 DEF TimesInvariant, DoneIsBehind
  <1>7. PageIsBehind' BY <1>1, <1>5 DEF TimesInvariant, PageIsBehind, Behind
  <1>8. searchable' \in [Records -> RepairVersion] /\ IndexIsBehind'
    <2>0. searchable \in [Records -> RepairVersion]
          /\ \A c \in Records : Behind(searchable[c], logged[c])
      BY <1>0 DEF TimesTyped, TimesInvariant, IndexIsBehind
    <2>1. CASE searchable' = searchable BY <1>1, <2>0, <2>1 DEF IndexIsBehind, Behind
    <2>2. CASE searchable' = [searchable EXCEPT ![e] = IF row.n > @.n THEN row ELSE @]
      <3> DEFINE new == IF row.n > searchable[e].n THEN row ELSE searchable[e]
      <3>1. new \in RepairVersion /\ Behind(new, logged[e]) BY <1>4, <2>0
      <3>2. searchable' = [searchable EXCEPT ![e] = new] BY <2>2
      <3> HIDE DEF new
      <3>3. searchable' \in [Records -> RepairVersion] /\ searchable'[e] = new
            /\ \A c \in Records : c # e => searchable'[c] = searchable[c]
        BY <1>4, <2>0, <3>1, <3>2
      <3>4. \A c \in Records : Behind(searchable'[c], logged[c]) BY <2>0, <3>1, <3>3
      <3> QED BY <1>1, <3>3, <3>4 DEF IndexIsBehind, Behind
    <2> QED BY <1>1, <2>1, <2>2
  <1> QED BY <1>1, <1>5, <1>6, <1>7, <1>8, RepairOnly

(* What is appended is made from the copy: it is one version on, and right *)
(* unless the record was written since.                                    *)
LEMMA RepairIsKept ==
    ASSUME TimesInvariant, RepairRecord
    PROVE  TimesInvariant'
  <1> DEFINE e == Head(repair.page).record
             copy == Head(repair.page).copy
             rest == Tail(repair.page)
             version == [copy EXCEPT !.at = WallClockToUtc(@), !.early = FALSE]
  <1>0. TimesTyped /\ PageIsBehind /\ DoneIsBehind /\ IndexIsBehind /\ DatesAreKept
    BY DEF TimesInvariant
  <1>1. /\ repair.page # <<>>
        /\ IF NeedsRepair(copy)
           THEN /\ Write(e, version)
                /\ repair' = [[repair EXCEPT !.page = rest] EXCEPT !.done =
                     Append(@, [record |-> e, copy |-> logged'[e]])]
                /\ overtaken' = overtaken \cup (IF logged[e] = copy THEN {} ELSE {e})
           ELSE repair' = [repair EXCEPT !.page = rest] /\ UNCHANGED <<logged, overtaken>>
        /\ UNCHANGED <<clocks, searchable, reading>>
    BY DEF RepairRecord
  <1>2. repair.page \in Seq(RepairCopy) BY <1>0 DEF TimesTyped
  <1>3. /\ rest \in Seq(RepairCopy) /\ Head(repair.page) = repair.page[1]
        /\ 1 \in 1 .. Len(repair.page)
        /\ \A i \in 1 .. Len(rest) : rest[i] = repair.page[i + 1] /\ i + 1 \in 1 .. Len(repair.page)
    BY <1>1, <1>2, RestOfCopies
  <1>4. e \in Records /\ copy \in RepairVersion /\ Behind(copy, logged[e]) /\ copy.op = "upsert"
        /\ (copy.early => copy.at \in reading[e].all)
    BY <1>0, <1>3, CopiesAreVersions DEF PageIsBehind
  <1>5. ASSUME NEW i \in 1 .. Len(rest)
        PROVE  /\ rest[i].record \in Records /\ rest[i].copy \in RepairVersion
               /\ Behind(rest[i].copy, logged[rest[i].record]) /\ rest[i].copy.op = "upsert"
               /\ rest[i].copy.early => rest[i].copy.at \in reading[rest[i].record].all
    BY <1>0, <1>3, CopiesAreVersions DEF PageIsBehind
  <1> HIDE DEF e, copy, rest
  <1>6. CASE ~NeedsRepair(copy)
    <2>1. repair' = [repair EXCEPT !.page = rest] /\ UNCHANGED <<logged, overtaken>>
      BY <1>1, <1>6
    <2>2. repair' \in RepairRow /\ repair'.page = rest /\ repair'.done = repair.done
      BY <1>0, <1>3, <2>1 DEF TimesTyped, RepairRow
    <2>3. PageIsBehind' BY <1>1, <1>5, <2>1, <2>2 DEF PageIsBehind, Behind
    <2>4. DoneIsBehind' /\ IndexIsBehind'
      BY <1>0, <1>1, <2>1, <2>2 DEF DoneIsBehind, IndexIsBehind, Behind
    <2>5. searchable' \in [Records -> RepairVersion] BY <1>0, <1>1 DEF TimesTyped
    <2> QED BY <1>1, <2>1, <2>2, <2>3, <2>4, <2>5, RepairOnly
  <1>7. CASE NeedsRepair(copy)
    <2>0. copy.early /\ copy.at \in reading[e].all /\ copy.at \in Int
      BY <1>4, <1>7 DEF NeedsRepair, RepairVersion
    <2>1. /\ Write(e, version)
          /\ repair' = [[repair EXCEPT !.page = rest] EXCEPT !.done =
                     Append(@, [record |-> e, copy |-> logged'[e]])]
          /\ overtaken' = overtaken \cup (IF logged[e] = copy THEN {} ELSE {e})
      BY <1>1, <1>7
    <2>2. WallClockToUtc(copy.at) \in Int BY <1>0, <2>0, ClocksTellHours DEF TimesTyped
    <2>3. version \in RepairVersion /\ version.op = "upsert" /\ version.early = FALSE
          /\ version.at = WallClockToUtc(copy.at)
      BY <1>4, <2>2 DEF RepairVersion
    <2> HIDE DEF version
    <2>4. /\ logged' \in [Records -> RepairVersion]
          /\ logged'[e].op = "upsert" /\ logged'[e].at = WallClockToUtc(copy.at)
          /\ logged'[e].early = FALSE /\ logged'[e].n = logged[e].n + 1
          /\ \A c \in Records : c # e => logged'[c] = logged[c]
      BY <1>0, <1>4, <2>1, <2>3, WriteIsAhead
    <2>5. \A x : \A c \in Records : x.n \in Nat /\ Behind(x, logged[c]) => Behind(x, logged'[c])
      BY <1>0, <1>4, <2>1, <2>3, WriteIsAhead
    <2> DEFINE new == [record |-> e, copy |-> logged'[e]]
               done == Append(repair.done, new)
    <2>6. new \in RepairCopy /\ new.record = e /\ new.copy = logged'[e]
      BY <1>4, <2>4 DEF RepairCopy
    <2>7. repair.done \in Seq(RepairCopy) /\ Len(repair.done) \in Nat
      BY <1>0, CopiesAreVersions DEF TimesTyped
    <2> HIDE DEF new
    <2>8. /\ done \in Seq(RepairCopy) /\ Len(done) = Len(repair.done) + 1
          /\ done[Len(repair.done) + 1] = new
          /\ \A i \in 1 .. Len(repair.done) : done[i] = repair.done[i]
      BY <2>6, <2>7, AppendProperties
    <2>9. repair' \in RepairRow /\ repair'.page = rest /\ repair'.done = done
      <3>1. repair' = [repair EXCEPT !.page = rest, !.done = done]
        BY <1>0, <2>1 DEF TimesTyped, new
      <3> HIDE DEF done
      <3> QED BY <1>0, <1>3, <2>8, <3>1 DEF TimesTyped, RepairRow
    <2> HIDE DEF done
    <2>10. PageIsBehind'
      <3> SUFFICES ASSUME NEW i \in 1 .. Len(rest)
                   PROVE  /\ Behind(rest[i].copy, logged'[rest[i].record])
                          /\ rest[i].copy.op = "upsert"
                          /\ rest[i].copy.early =>
                                rest[i].copy.at \in reading[rest[i].record].all
        BY <1>1, <2>9 DEF PageIsBehind, Behind
      <3>1. rest[i].copy.n \in Nat BY <1>5 DEF RepairVersion
      <3> QED BY <1>5, <2>5, <3>1
    <2>11. DoneIsBehind'
      <3> SUFFICES ASSUME NEW i \in 1 .. Len(done)
                   PROVE  Behind(done[i].copy, logged'[done[i].record])
        BY <2>9 DEF DoneIsBehind, Behind
      <3>1. CASE i = Len(repair.done) + 1
        <4>1. logged'[e].n \in Nat BY <1>4, <2>4 DEF RepairVersion
        <4>2. Behind(logged'[e], logged'[e]) BY <4>1 DEF Behind
        <4> QED BY <2>6, <2>8, <3>1, <4>2
      <3>2. CASE i # Len(repair.done) + 1
        <4>1. i \in 1 .. Len(repair.done) BY <2>7, <2>8, <3>2
        <4>2. repair.done[i].record \in Records /\ repair.done[i].copy \in RepairVersion
              /\ Behind(repair.done[i].copy, logged[repair.done[i].record])
          BY <1>0, <4>1, CopiesAreVersions DEF DoneIsBehind
        <4>3. repair.done[i].copy.n \in Nat BY <4>2 DEF RepairVersion
        <4> QED BY <2>5, <2>8, <4>1, <4>2, <4>3
      <3> QED BY <3>1, <3>2
    <2>12. IndexIsBehind'
      <3>1. ASSUME NEW c \in Records PROVE Behind(searchable[c], logged'[c])
        <4>1. searchable[c].n \in Nat BY <1>0 DEF TimesTyped, RepairVersion
        <4> QED BY <1>0, <2>5, <4>1 DEF IndexIsBehind
      <3> QED BY <1>1, <3>1 DEF IndexIsBehind, Behind
    <2>13. TimesTyped' BY <1>0, <1>1, <2>4, <2>9 DEF TimesTyped, RepairRow
    <2>14. \A u : WallClockToUtc(u)' = WallClockToUtc(u)
      BY <1>1 DEF WallClockToUtc, OffsetAt
    <2>15. ASSUME NEW c \in Records PROVE DateIsKept(c)'
      <3>1. CASE c = e
        <4>1. c \notin overtaken' => logged[e] = copy /\ e \notin overtaken
          BY <2>1, <3>1
        <4>2. c \notin overtaken' =>
                 copy.at = reading[e].latest /\ (reading[e].down <=> copy.op = "delete")
          BY <1>0, <1>4, <2>0, <4>1 DEF DatesAreKept, DateIsKept
        <4> QED BY <1>1, <1>4, <2>0, <2>4, <2>14, <3>1, <4>2 DEF DateIsKept
      <3>2. CASE c # e
        <4>1. logged'[c] = logged[c] /\ DateIsKept(c) /\ (c \in overtaken => c \in overtaken')
          BY <1>0, <2>1, <2>4, <3>2 DEF DatesAreKept
        <4> QED BY <1>1, <2>14, <4>1 DEF DateIsKept
      <3> QED BY <3>1, <3>2
    <2> QED BY <2>10, <2>11, <2>12, <2>13, <2>15 DEF TimesInvariant, DatesAreKept
  <1> QED BY <1>6, <1>7

LEMMA TimesSteps ==
    ASSUME TimesInvariant, TimeRepairNext
    PROVE  TimesInvariant'
  <1>0. repair \in RepairRow /\ NoRepair \in RepairRow
        /\ Len(NoRepair.page) = 0 /\ Len(NoRepair.done) = 0
    BY RepairIsARow
  <1>1. CASE \E e \in Records : TakedownWrites(e) \/ \E w \in Readings : ImportWrites(e, w)
    BY <1>1, TakedownIsKept, ImportIsKept
  <1>2. CASE BeginRepair
    <2>1. repair' = [NoRepair EXCEPT !.phase = "reading"]
          /\ UNCHANGED <<clocks, logged, searchable, reading, overtaken>>
      BY <1>2 DEF BeginRepair
    <2>2. repair' \in RepairRow /\ Len(repair'.page) = 0 /\ Len(repair'.done) = 0
      BY <1>0, <2>1 DEF RepairRow
    <2> QED BY <2>1, <2>2, ScriptIsEmpty
  <1>3. CASE ReadPage BY <1>3, ReadIsKept
  <1>4. CASE RepairRecord BY <1>4, RepairIsKept
  <1>5. CASE PageRepaired
    <2>1. repair' = [repair EXCEPT !.phase = "projecting"]
          /\ UNCHANGED <<clocks, logged, searchable, reading, overtaken>>
      BY <1>5 DEF PageRepaired
    <2>2. repair' \in RepairRow /\ repair'.page = repair.page /\ repair'.done = repair.done
      BY <1>0, <2>1 DEF RepairRow
    <2> QED BY <2>1, <2>2, ScriptGoesOn
  <1>6. CASE ProjectRecord BY <1>6, ProjectIsKept
  <1>7. CASE NextPage
    <2>1. repair' = (IF repair.more THEN [repair EXCEPT !.phase = "reading"] ELSE NoRepair)
          /\ UNCHANGED <<clocks, logged, searchable, reading, overtaken>>
      BY <1>7 DEF NextPage
    <2>2. CASE repair.more
      <3>1. repair' \in RepairRow /\ repair'.page = repair.page /\ repair'.done = repair.done
        BY <1>0, <2>1, <2>2 DEF RepairRow
      <3> QED BY <2>1, <3>1, ScriptGoesOn
    <2>3. CASE ~repair.more BY <1>0, <2>1, <2>3, ScriptIsEmpty
    <2> QED BY <2>2, <2>3
  <1>8. CASE RepairDies
    <2>1. repair' = NoRepair /\ UNCHANGED <<clocks, logged, searchable, reading, overtaken>>
      BY <1>8 DEF RepairDies
    <2> QED BY <1>0, <2>1, ScriptIsEmpty
  <1> QED BY <1>1, <1>2, <1>3, <1>4, <1>5, <1>6, <1>7, <1>8 DEF TimeRepairNext

LEMMA TimesRest ==
    ASSUME TimesInvariant, UNCHANGED timeRepairVars
    PROVE  TimesInvariant'
  <1>1. UNCHANGED <<clocks, logged, searchable, repair, reading, overtaken>>
    BY DEF timeRepairVars
  <1>2. repair' \in RepairRow /\ repair'.page = repair.page /\ repair'.done = repair.done
    BY <1>1, RepairIsARow
  <1> QED BY <1>1, <1>2, ScriptGoesOn

(* repair_ibabs_times.ts: whatever imports and takedowns write while it    *)
(* runs, however often it is killed and begun again, no date is shifted    *)
(* twice, what nothing overtook says what was written last, and the index  *)
(* never shows what the log never said.                                    *)
THEOREM TimesStayRight == TimeRepairSpec => []TimesAreShiftedOnce
  <1>1. TimesInvariant /\ [TimeRepairNext]_timeRepairVars => TimesInvariant'
    BY TimesSteps, TimesRest
  <1> QED BY TimesStart, <1>1, TimesFollow, PTL DEF TimeRepairSpec

-----------------------------------------------------------------------------
(* SweepsAreSound, of the specification the run checks: no streak is       *)
(* counted that was not earned, no date is shifted twice, no row is left   *)
(* out of the index but those it refused, no day of a history is left out  *)
(* of what was asked for, and an operator's request does what it named.    *)
THEOREM SweepsStaySound == UpkeepSpec => []SweepsAreSound
  <1> DEFINE Together ==
        /\ RevalidationInvariant /\ TimesAreShiftedOnce /\ IndexTakesTheRest
        /\ RequestsInvariant
  <1>v. UpkeepSpec => []RevalidationInvariant BY EachIsAPart, StreaksStayEarned, PTL
  <1>t. UpkeepSpec => []TimesAreShiftedOnce BY EachIsAPart, TimesStayRight, PTL
  <1>c. UpkeepSpec => []IndexTakesTheRest BY EachIsAPart, RestIsTaken, PTL
  <1>r. UpkeepSpec => []RequestsInvariant BY EachIsAPart, RequestsAreConfirmed, PTL
  <1>1. Together => SweepsAreSound BY EarnedFollows, ConfirmedFollows DEF SweepsAreSound
  <1> QED BY <1>v, <1>t, <1>c, <1>r, <1>1, PTL
-----------------------------------------------------------------------------
(* UpkeepTypeOK, component by component: what the invariants leave out.    *)

LEMMA CoverageTypes == CoverageInvariant => CoverageTypeOK
  <1> SUFFICES ASSUME CoverageInvariant PROVE CoverageTypeOK OBVIOUS
  <1>1. CoverageRows BY DEF CoverageInvariant
  <1>2. \A n \in DOMAIN checks : checks[n] \in CheckOutcomes BY <1>1 DEF CoverageRows
  <1> QED BY <1>1, <1>2 DEF CoverageRows, CoverageTypeOK, CheckRow, CheckOutcomes, Phases

LEMMA StatusTypes == StatusInvariant => StatusTypeOK
  <1> SUFFICES ASSUME StatusInvariant PROVE StatusTypeOK OBVIOUS
  <1>1. StatusRows BY DEF StatusInvariant
  <1>2. \A i \in DOMAIN runRows : runRows[i] \in RunRows BY <1>1 DEF StatusRows
  <1>3. /\ inFlight.step \in {"none", "latest", "success", "window", "build"}
        /\ inFlight.attempts \in Nat
    BY <1>1 DEF StatusRows, StatusRow
  <1>4. /\ cached.supplier \in {"none", "ok", "idle", "down", "degraded"}
        /\ \A s \in StatusSources : cached.source[s] \in States
    BY <1>1 DEF StatusRows, AnswerRow
  <1>5. inFlight.attempts \in 0 .. MaxRunRows
    BY <1>1, <1>3, StatusNumbers DEF StatusRows
  <1> QED BY <1>1, <1>2, <1>3, <1>4, <1>5 DEF StatusRows, StatusTypeOK, States

LEMMA FiguresTypes == FiguresInvariant => FiguresTypeOK
  <1> SUFFICES ASSUME FiguresInvariant PROVE FiguresTypeOK OBVIOUS
  <1>1. \A i \in DOMAIN ratioCache : ratioCache[i].query \in Asked /\ ratioCache[i].at \in Moments
    <2>1. ratioCache \in Seq(RatioRow) BY DEF FiguresInvariant, RatiosAreKept
    <2>2. \A i \in DOMAIN ratioCache : ratioCache[i] \in RatioRow BY <2>1
    <2> QED BY <2>2 DEF RatioRow
  <1>2. cachedStats.at \in 0 .. LastMoment BY DEF FiguresInvariant, StatsAreDated
  <1>3. shown.what \in {"nothing", "stats", "disk", "ratio", "preview"}
    BY DEF FiguresInvariant, FiguresAreDated
  <1> QED BY <1>1, <1>2, <1>3
          DEF FiguresInvariant, FiguresAreDated, SamplesAreDated, FiguresTypeOK

(* A sweep has at most so many rows, and sweeps as often as it may.        *)
RevalidationBounds ==
    /\ listing \in Listings /\ withdrawn \subseteq Swept
    /\ sweeps \in 0 .. MaxSweeps /\ Len(sweep.batch) <= SweepLimit
    /\ odd \subseteq Swept \cup Keys

LEMMA NextRowsAreFew ==
    ASSUME RevalidationInvariant
    PROVE  Len(NextRows) <= SweepLimit /\ \A i \in DOMAIN NextRows : NextRows[i] \in Swept
  <1> DEFINE to == SmallerOf(cursorAt + SweepLimit, Len(listing))
  <1>1. listing \in Seq(Swept) /\ cursorAt \in Nat /\ SweepLimit \in Nat /\ Len(listing) \in Nat
    BY RevalidationAssumption DEF RevalidationInvariant, RevalidationTyped
  <1>2. to \in Nat /\ to <= Len(listing) /\ to <= cursorAt + SweepLimit
    BY <1>1 DEF SmallerOf
  <1> HIDE DEF to
  <1>3. /\ Len(SubSeq(listing, cursorAt + 1, to)) <= SweepLimit
        /\ SubSeq(listing, cursorAt + 1, to) \in Seq(Swept)
    <2>1. \A i \in cursorAt + 1 .. to : i \in 1 .. Len(listing) BY <1>1, <1>2
    <2> QED BY <1>1, <1>2, <2>1
  <1>4. NextRows = SubSeq(listing, cursorAt + 1, to) BY DEF NextRows, to
  <1> DEFINE q == SubSeq(listing, cursorAt + 1, to)
  <1>5. Len(q) <= SweepLimit /\ \A i \in DOMAIN q : q[i] \in Swept
    <2>1. q \in Seq(Swept) /\ Len(q) <= SweepLimit BY <1>3
    <2> HIDE DEF q
    <2> QED BY <2>1
  <1> HIDE DEF q
  <1>6. NextRows = q BY <1>4 DEF q
  <1> QED BY <1>5, <1>6

LEMMA RevalidationBoundsKeep ==
    RevalidationInvariant /\ RevalidationBounds /\ [RevalidationNext]_revalidationVars
    => RevalidationBounds'
  <1> SUFFICES ASSUME RevalidationInvariant, RevalidationBounds, [RevalidationNext]_revalidationVars
               PROVE  RevalidationBounds'
    OBVIOUS
  <1> USE RevalidationAssumption
  <1>1. RevalidationTyped BY DEF RevalidationInvariant
  <1>2. Len(NoSweep.batch) = 0 /\ SweepLimit \in Nat BY DEF NoSweep
  <1>3. ASSUME NEW down \in SUBSET Keys, BeginSweep(down) PROVE RevalidationBounds'
    <2>1. sweeps' \in 0 .. MaxSweeps /\ UNCHANGED <<listing, withdrawn>>
      BY <1>3 DEF BeginSweep, RevalidationBounds
    <2>2. CASE NextRows = <<>> BY <1>3, <2>1, <2>2 DEF BeginSweep, RevalidationBounds
    <2>3. CASE NextRows # <<>>
      <3>1. sweep'.batch = NextRows BY <1>3, <2>3 DEF BeginSweep, NoSweep
      <3>2. odd' \subseteq Swept \cup Keys
        BY <1>3, <2>3, NextRowsAreFew DEF BeginSweep, RevalidationBounds
      <3> QED BY <2>1, <3>1, <3>2, NextRowsAreFew DEF RevalidationBounds
    <2> QED BY <2>2, <2>3
  <1>4. CASE Judge
    <2>1. sweep'.batch = sweep.batch /\ sweep.down \subseteq Keys
      BY <1>1, <1>4 DEF Judge, RevalidationTyped, SweepRow
    <2> QED BY <1>4, <2>1 DEF Judge, RevalidationBounds
  <1>5. CASE Probe
    <2>1. sweep'.batch = sweep.batch
      BY <1>1, <1>5 DEF Probe, RevalidationTyped, SweepRow
    <2> QED BY <1>5, <2>1 DEF Probe, RevalidationBounds
  <1>6. CASE RecordResult
    <2>1. sweep'.batch = sweep.batch
      BY <1>1, <1>6 DEF RecordResult, RevalidationTyped, SweepRow
    <2> QED BY <1>6, <2>1 DEF RecordResult, RevalidationBounds
  <1>7. CASE EndSweep \/ SweepDies
    BY <1>2, <1>7 DEF EndSweep, SweepDies, RevalidationBounds
  <1>8. CASE ListingChanges BY <1>8 DEF ListingChanges, RevalidationBounds
  <1>9. ASSUME NEW d \in Swept, Withdraw(d) PROVE RevalidationBounds'
    BY <1>9 DEF Withdraw, RevalidationBounds
  <1>10. CASE UNCHANGED revalidationVars
    BY <1>10 DEF revalidationVars, RevalidationBounds
  <1> QED BY <1>3, <1>4, <1>5, <1>6, <1>7, <1>8, <1>9, <1>10 DEF RevalidationNext

LEMMA RevalidationTypes == RevalidationSpec => []RevalidationTypeOK
  <1>1. RevalidationInit => RevalidationBounds
    <2>1. Len(NoSweep.batch) = 0 BY DEF NoSweep
    <2> QED BY <2>1, RevalidationAssumption DEF RevalidationInit, RevalidationBounds
  <1>2. RevalidationInvariant /\ RevalidationBounds => RevalidationTypeOK
    <2> SUFFICES ASSUME RevalidationInvariant, RevalidationBounds PROVE RevalidationTypeOK
      OBVIOUS
    <2>1. RevalidationTyped BY DEF RevalidationInvariant
    <2>2. 1 .. sweeps \subseteq 1 .. MaxSweeps
      BY RevalidationAssumption DEF RevalidationBounds
    <2>3. goneIn \in [Swept -> SUBSET (1 .. MaxSweeps)]
      BY <2>1, <2>2 DEF RevalidationTyped
    <2> QED BY <2>1, <2>3 DEF RevalidationTyped, RevalidationBounds, RevalidationTypeOK, SweepRow
  <1> QED BY <1>1, <1>2, RevalidationBoundsKeep, StreaksStayEarned, PTL DEF RevalidationSpec

(* Every copy the repair holds, and both of the record's, is a version in  *)
(* range: an instant is never moved twice.                                 *)
InRange(v) == v \in Version /\ (v.early => v.at \in Readings)
CopiesInRange ==
    /\ \A e \in Records : InRange(logged[e]) /\ InRange(searchable[e])
    /\ \A i \in 1 .. Len(repair.page) : InRange(repair.page[i].copy)
    /\ \A i \in 1 .. Len(repair.done) : InRange(repair.done[i].copy)
    /\ \A e \in Records : reading[e].all \subseteq Readings
    /\ overtaken \subseteq Records

LEMMA ClockInRange ==
    ASSUME NEW w \in Readings
    PROVE  WallClockToUtc(w) \in 0 .. 62
  BY TimeRepairAssumption DEF WallClockToUtc, OffsetAt, Switch

(* What Write() writes: the version under the next number.                 *)
LEMMA WrittenInRange ==
    ASSUME TimesInvariant, CopiesInRange, NEW e \in Records, NEW v,
           v = [op |-> v.op, at |-> v.at, early |-> v.early, n |-> v.n],
           v.op \in {"upsert", "delete"}, v.at \in 0 .. 62, v.early \in BOOLEAN,
           v.early => v.at \in Readings, Write(e, v)
    PROVE  /\ InRange(logged'[e]) /\ \A f \in Records : InRange(logged'[f])
  <1> DEFINE w == [op |-> v.op, at |-> v.at, early |-> v.early, n |-> logged[e].n + 1]
  <1>1. /\ logged \in [Records -> RepairVersion] /\ logged[e] \in Version
        /\ logged[e].n < MaxVersions /\ MaxVersions \in Nat
    BY TimeRepairAssumption DEF TimesInvariant, TimesTyped, CopiesInRange, InRange, Write
  <1>2. logged[e].n + 1 \in 0 .. MaxVersions BY <1>1 DEF Version
  <1>3. [v EXCEPT !.n = logged[e].n + 1] = w OBVIOUS
  <1>4. w \in Version /\ (w.early => w.at \in Readings) BY <1>2 DEF Version
  <1> HIDE DEF w
  <1>5. logged' = [logged EXCEPT ![e] = w] BY <1>3 DEF Write
  <1>6. \A f \in Records : logged'[f] = IF f = e THEN w ELSE logged[f] BY <1>1, <1>5
  <1> QED BY <1>4, <1>6 DEF CopiesInRange, InRange

LEMMA CopiesKeep ==
    TimesInvariant /\ CopiesInRange /\ [TimeRepairNext]_timeRepairVars => CopiesInRange'
  <1> SUFFICES ASSUME TimesInvariant, CopiesInRange, [TimeRepairNext]_timeRepairVars
               PROVE  CopiesInRange'
    OBVIOUS
  <1>0. /\ TimesTyped /\ repair \in RepairRow
        /\ \A i \in 1 .. Len(repair.page) : repair.page[i].record \in Records
        /\ \A i \in 1 .. Len(repair.done) : repair.done[i].record \in Records
        /\ repair.page \in Seq(RepairCopy) /\ repair.done \in Seq(RepairCopy)
        /\ reading \in [Records -> RecordReading] /\ searchable \in [Records -> RepairVersion]
    BY CopiesAreVersions, RepairIsARow DEF TimesInvariant, TimesTyped
  <1>1. UNCHANGED clocks
    BY DEF TimeRepairNext, TakedownWrites, ImportWrites, BeginRepair, ReadPage, RepairRecord,
           PageRepaired, ProjectRecord, NextPage, RepairDies, timeRepairVars
  <1>2. ASSUME NEW e \in Records, NEW w \in Readings, ImportWrites(e, w) PROVE CopiesInRange'
    <2> DEFINE version == [op |-> "upsert", at |-> WallClockToUtc(w), early |-> FALSE, n |-> 0]
    <2>1. Write(e, version) BY <1>2 DEF ImportWrites
    <2>2. /\ version = [op |-> version.op, at |-> version.at, early |-> version.early,
                        n |-> version.n]
          /\ version.op \in {"upsert", "delete"} /\ version.at \in 0 .. 62
          /\ version.early \in BOOLEAN /\ (version.early => version.at \in Readings)
      BY ClockInRange
    <2> HIDE DEF version
    <2>3. InRange(logged'[e]) /\ \A f \in Records : InRange(logged'[f])
      BY <2>1, <2>2, WrittenInRange
    <2>4. \A f \in Records : searchable'[f] = IF f = e THEN logged'[e] ELSE searchable[f]
      BY <1>0, <1>2 DEF ImportWrites
    <2>5. \A f \in Records : reading'[f].all \subseteq reading[f].all \cup {w}
      BY <1>0, <1>2 DEF ImportWrites, RecordReading
    <2> QED BY <1>2, <2>3, <2>4, <2>5 DEF CopiesInRange, ImportWrites, InRange
  <1>3. ASSUME NEW e \in Records, TakedownWrites(e) PROVE CopiesInRange'
    <2> DEFINE version == [logged[e] EXCEPT !.op = "delete", !.early = FALSE]
    <2>0. logged[e] \in Version BY DEF CopiesInRange, InRange
    <2>1. Write(e, version) BY <1>3 DEF TakedownWrites
    <2>2. version \in Version /\ version.early = FALSE BY <2>0 DEF Version
    <2> HIDE DEF version
    <2>3. /\ version = [op |-> version.op, at |-> version.at, early |-> version.early,
                        n |-> version.n]
          /\ version.op \in {"upsert", "delete"} /\ version.at \in 0 .. 62
          /\ version.early \in BOOLEAN /\ (version.early => version.at \in Readings)
      BY <2>2 DEF Version
    <2>4. InRange(logged'[e]) /\ \A f \in Records : InRange(logged'[f])
      BY <2>1, <2>3, WrittenInRange
    <2>5. \A f \in Records : searchable'[f] = IF f = e THEN logged'[e] ELSE searchable[f]
      BY <1>0, <1>3 DEF TakedownWrites
    <2>6. \A f \in Records : reading'[f].all = reading[f].all
      BY <1>0, <1>3 DEF TakedownWrites, RecordReading
    <2> QED BY <1>3, <2>4, <2>5, <2>6 DEF CopiesInRange, TakedownWrites, InRange
  <1>4. ASSUME UNCHANGED <<clocks, logged, reading>>, overtaken' \subseteq Records,
               \A e \in Records : InRange(searchable'[e]),
               \A i \in 1 .. Len(repair'.page) : InRange(repair'.page[i].copy),
               \A i \in 1 .. Len(repair'.done) : InRange(repair'.done[i].copy)
        PROVE  CopiesInRange'
    BY <1>4 DEF CopiesInRange, InRange
  <1>5. Len(NoRepair.page) = 0 /\ Len(NoRepair.done) = 0 BY DEF NoRepair
  <1>6. CASE BeginRepair \/ RepairDies \/ NextPage \/ PageRepaired
    <2>1. \/ Len(repair'.page) = 0 /\ Len(repair'.done) = 0
          \/ repair'.page = repair.page /\ repair'.done = repair.done
      BY <1>0, <1>5, <1>6 DEF BeginRepair, RepairDies, NextPage, PageRepaired, RepairRow, NoRepair
    <2> QED BY <1>4, <1>6, <2>1
            DEF BeginRepair, RepairDies, NextPage, PageRepaired, CopiesInRange
  <1>7. CASE ReadPage
    <2> DEFINE ids == InOrder(PageOf(LiveAfter(repair.upTo)))
               page == [i \in DOMAIN ids |-> [record |-> ids[i], copy |-> logged[ids[i]]]]
    <2>1. repair'.page = page /\ repair'.done = repair.done
          /\ UNCHANGED <<clocks, logged, searchable, reading, overtaken>>
      BY <1>0, <1>7 DEF ReadPage, RepairRow
    <2>2. PageOf(LiveAfter(repair.upTo)) \subseteq Records BY DEF PageOf, LiveAfter
    <2>3. PageOf(LiveAfter(repair.upTo)) \in SUBSET Nat /\ IsFiniteSet(PageOf(LiveAfter(repair.upTo)))
      BY <2>2, TimeRepairAssumption, FS_Subset DEF TimeRepairAssumption
    <2>4. ids \in Seq(PageOf(LiveAfter(repair.upTo))) /\ DOMAIN ids = 1 .. Len(ids)
          /\ Len(ids) \in Nat
      BY <2>3, InOrderTakesAll
    <2>5. \A i \in 1 .. Len(ids) : ids[i] \in Records
      <3> HIDE DEF ids
      <3> QED BY <2>2, <2>4
    <2>6. Len(page) = Len(ids) /\ \A i \in 1 .. Len(ids) : page[i].copy = logged[ids[i]]
      <3> HIDE DEF ids
      <3> QED BY <2>4
    <2> HIDE DEF ids, page
    <2>7. \A i \in 1 .. Len(page) : InRange(page[i].copy)
      BY <2>5, <2>6 DEF CopiesInRange
    <2> QED BY <1>4, <2>1, <2>7 DEF CopiesInRange
  <1>8. CASE RepairRecord
    <2> DEFINE e == Head(repair.page).record
               copy == Head(repair.page).copy
               rest == Tail(repair.page)
               v == [copy EXCEPT !.at = WallClockToUtc(copy.at), !.early = FALSE]
               row == [record |-> e, copy |-> logged'[e]]
    <2>1. /\ rest \in Seq(RepairCopy) /\ Head(repair.page) = repair.page[1]
          /\ 1 \in 1 .. Len(repair.page)
          /\ \A i \in 1 .. Len(rest) : rest[i] = repair.page[i + 1] /\ i + 1 \in 1 .. Len(repair.page)
      BY <1>0, <1>8, RestOfCopies DEF RepairRecord
    <2>2. e \in Records /\ InRange(copy) BY <1>0, <2>1 DEF CopiesInRange
    <2>3. \A i \in 1 .. Len(rest) : InRange(rest[i].copy) BY <2>1 DEF CopiesInRange
    <2>4. CASE NeedsRepair(copy)
      <3>1. /\ Write(e, v) /\ UNCHANGED <<searchable, reading>>
            /\ overtaken' \subseteq overtaken \cup {e}
            /\ repair' = [[repair EXCEPT !.page = rest] EXCEPT !.done = Append(@, row)]
        BY <1>8, <2>4 DEF RepairRecord
      <3>2. repair'.page = rest /\ repair'.done = Append(repair.done, row)
        <4> HIDE DEF rest, row
        <4> QED BY <1>0, <3>1 DEF RepairRow
      <3> HIDE DEF e, copy, rest
      <3>3. copy \in Version /\ copy.early /\ copy.at \in Readings
        BY <2>2, <2>4 DEF InRange, NeedsRepair
      <3>4. v \in Version /\ v.early = FALSE
        <4>1. WallClockToUtc(copy.at) \in 0 .. 62 BY <3>3, ClockInRange
        <4> QED BY <3>3, <4>1 DEF Version
      <3> HIDE DEF v
      <3>5. /\ v = [op |-> v.op, at |-> v.at, early |-> v.early, n |-> v.n]
            /\ v.op \in {"upsert", "delete"} /\ v.at \in 0 .. 62
            /\ v.early \in BOOLEAN /\ (v.early => v.at \in Readings)
        BY <3>4 DEF Version
      <3>6. InRange(logged'[e]) /\ \A f \in Records : InRange(logged'[f])
        BY <2>2, <3>1, <3>5, WrittenInRange
      <3>7. row.copy = logged'[e] OBVIOUS
      <3> HIDE DEF row
      <3>8. \A i \in 1 .. Len(Append(repair.done, row)) :
               \/ i \in 1 .. Len(repair.done) /\ Append(repair.done, row)[i] = repair.done[i]
               \/ Append(repair.done, row)[i] = row
        BY <1>0
      <3>9. \A i \in 1 .. Len(repair'.done) : InRange(repair'.done[i].copy)
        BY <3>2, <3>6, <3>7, <3>8 DEF CopiesInRange
      <3> QED BY <1>1, <2>2, <2>3, <3>1, <3>2, <3>6, <3>9 DEF CopiesInRange, InRange
    <2>5. CASE ~NeedsRepair(copy)
      <3>1. repair' = [repair EXCEPT !.page = rest] /\ UNCHANGED <<logged, overtaken, searchable, reading>>
        BY <1>8, <2>5 DEF RepairRecord
      <3>2. repair'.page = rest /\ repair'.done = repair.done
        <4> HIDE DEF rest
        <4> QED BY <1>0, <3>1 DEF RepairRow
      <3> QED BY <1>1, <1>4, <2>3, <3>1, <3>2 DEF CopiesInRange
    <2> QED BY <2>4, <2>5
  <1>9. CASE ProjectRecord
    <2> DEFINE e == Head(repair.done).record
               row == Head(repair.done).copy
               rest == Tail(repair.done)
    <2>1. /\ rest \in Seq(RepairCopy) /\ Head(repair.done) = repair.done[1]
          /\ 1 \in 1 .. Len(repair.done)
          /\ \A i \in 1 .. Len(rest) : rest[i] = repair.done[i + 1] /\ i + 1 \in 1 .. Len(repair.done)
      BY <1>0, <1>9, RestOfCopies DEF ProjectRecord
    <2>2. e \in Records /\ InRange(row) /\ \A i \in 1 .. Len(rest) : InRange(rest[i].copy)
      BY <1>0, <2>1 DEF CopiesInRange
    <2>3. /\ repair' = [repair EXCEPT !.done = rest]
          /\ \/ searchable' = [searchable EXCEPT ![e] = IF row.n > @.n THEN row ELSE @]
             \/ searchable' = searchable
          /\ UNCHANGED <<logged, reading, overtaken>>
      BY <1>9 DEF ProjectRecord
    <2> HIDE DEF e, row, rest
    <2>4. repair'.page = repair.page /\ repair'.done = rest BY <1>0, <2>3 DEF RepairRow
    <2>5. \A f \in Records : searchable'[f] \in {searchable[f], row} BY <1>0, <2>3
    <2>6. \A f \in Records : InRange(searchable'[f]) BY <2>2, <2>5 DEF CopiesInRange
    <2> QED BY <1>1, <1>4, <2>2, <2>3, <2>4, <2>6 DEF CopiesInRange
  <1>10. CASE UNCHANGED timeRepairVars
    BY <1>10 DEF timeRepairVars, CopiesInRange, InRange
  <1> QED BY <1>2, <1>3, <1>6, <1>7, <1>8, <1>9, <1>10 DEF TimeRepairNext

LEMMA TimesTypes == TimeRepairSpec => []TimeRepairTypeOK
  <1>1. TimeRepairInit => CopiesInRange
    <2> SUFFICES ASSUME TimeRepairInit PROVE CopiesInRange OBVIOUS
    <2>1. PICK w \in [Records -> Readings], early \in [Records -> BOOLEAN] :
         /\ logged = [e \in Records |->
              [op |-> "upsert", at |-> IF early[e] THEN w[e] ELSE WallClockToUtc(w[e]),
               early |-> early[e], n |-> 0]]
         /\ reading = [e \in Records |-> [latest |-> w[e], all |-> {w[e]}, down |-> FALSE]]
      BY DEF TimeRepairInit
    <2>2. searchable = logged /\ repair = NoRepair /\ overtaken = {}
      BY DEF TimeRepairInit
    <2>3. Len(repair.page) = 0 /\ Len(repair.done) = 0 BY <2>2 DEF NoRepair
    <2>4. ASSUME NEW e \in Records PROVE InRange(logged[e]) /\ reading[e].all \subseteq Readings
      <3>1. w[e] \in Readings /\ w[e] \in 0 .. 62 /\ WallClockToUtc(w[e]) \in 0 .. 62
            /\ early[e] \in BOOLEAN /\ 0 \in 0 .. MaxVersions
        <4>1. w[e] \in Readings /\ early[e] \in BOOLEAN BY <2>1
        <4> DEFINE t == w[e]
        <4>2. t \in Readings BY <4>1
        <4> HIDE DEF t
        <4>3. WallClockToUtc(t) \in 0 .. 62 BY <4>2, ClockInRange
        <4>4. t \in 0 .. 62 /\ 0 \in 0 .. MaxVersions BY <4>2, TimeRepairAssumption
        <4> QED BY <4>1, <4>2, <4>3, <4>4 DEF t
      <3>2. logged[e] = [op |-> "upsert", at |-> IF early[e] THEN w[e] ELSE WallClockToUtc(w[e]),
                         early |-> early[e], n |-> 0]
        BY <2>1
      <3>3. reading[e].all = {w[e]} BY <2>1
      <3> QED BY <3>1, <3>2, <3>3 DEF InRange, Version
    <2> QED BY <2>2, <2>3, <2>4 DEF CopiesInRange
  <1>2. TimeRepairSpec => []CopiesInRange /\ []TimesInvariant
    <2>1. TimesInvariant /\ [TimeRepairNext]_timeRepairVars => TimesInvariant'
      BY TimesSteps, TimesRest
    <2> QED BY <1>1, <2>1, CopiesKeep, TimesStart, PTL DEF TimeRepairSpec
  <1>3. TimesInvariant /\ CopiesInRange => TimeRepairTypeOK
    <2> SUFFICES ASSUME TimesInvariant, CopiesInRange PROVE TimeRepairTypeOK OBVIOUS
    <2>1. TimesTyped BY DEF TimesInvariant
    <2>2. /\ logged \in [Records -> Version] /\ searchable \in [Records -> Version]
      BY <2>1 DEF TimesTyped, CopiesInRange, InRange
    <2>3. /\ DOMAIN repair.page = 1 .. Len(repair.page)
          /\ DOMAIN repair.done = 1 .. Len(repair.done)
          /\ \A i \in 1 .. Len(repair.page) : repair.page[i].record \in Records
          /\ \A i \in 1 .. Len(repair.done) : repair.done[i].record \in Records
      <3>1. repair.page \in Seq(RepairCopy) /\ repair.done \in Seq(RepairCopy)
        BY <2>1 DEF TimesTyped
      <3> QED BY <2>1, <3>1, CopiesAreVersions
    <2> QED BY <2>1, <2>2, <2>3 DEF TimesTyped, CopiesInRange, TimeRepairTypeOK
  <1> QED BY <1>2, <1>3, PTL

(* The bodies of a call hold rows of the batch, and what was handed to the *)
(* caller as too large the index has refused.                              *)
CallBounds ==
    /\ size \in [BatchRows -> Sizes] /\ call.attempt \in 1 .. IngestAttempts
    /\ \A j \in 1 .. Len(call.bodies) : RangeOf(call.bodies[j]) \subseteq BatchRows
    /\ oversized \subseteq refused

LEMMA CutInRange ==
    ASSUME NEW n \in Nat, NEW k, NEW bodies, CutFrom(bodies, k, n), NEW j \in 1 .. Len(bodies)
    PROVE  RangeOf(bodies[j]) \subseteq 1 .. n
  <1>1. PICK ends \in [0 .. Len(bodies) -> 0 .. n] : Cut(bodies, ends, n) BY DEF CutFrom
  <1>2. /\ bodies \in Seq(Seq(Nat)) /\ ends[j - 1] < ends[j]
        /\ Len(bodies[j]) = ends[j] - ends[j - 1]
        /\ \A i \in 1 .. Len(bodies[j]) : bodies[j][i] = ends[j - 1] + i
    BY <1>1 DEF Cut
  <1>3. bodies[j] \in Seq(Nat) /\ j \in 0 .. Len(bodies) /\ j - 1 \in 0 .. Len(bodies)
    BY <1>2
  <1>4. ends[j] \in 0 .. n /\ ends[j - 1] \in 0 .. n BY <1>1, <1>3
  <1>5. DOMAIN bodies[j] = 1 .. Len(bodies[j]) BY <1>3
  <1>6. ASSUME NEW i \in 1 .. Len(bodies[j]) PROVE bodies[j][i] \in 1 .. n
    <2> DEFINE a == ends[j - 1]
               b == ends[j]
               m == Len(bodies[j])
               x == bodies[j][i]
    <2>1. a \in 0 .. n /\ b \in 0 .. n /\ m = b - a /\ i \in 1 .. m /\ x = a + i
      BY <1>2, <1>4, <1>6
    <2> HIDE DEF a, b, m, x
    <2>2. x \in 1 .. n BY <2>1
    <2> QED BY <2>2 DEF x
  <1> QED BY <1>5, <1>6 DEF RangeOf

LEMMA CallBoundsKeep ==
    ClientInvariant /\ ClientInvariant' /\ CallBounds /\ [IndexClientNext]_indexClientVars
    => CallBounds'
  <1> SUFFICES ASSUME ClientInvariant, ClientInvariant', CallBounds,
                      [IndexClientNext]_indexClientVars
               PROVE  CallBounds'
    OBVIOUS
  <1> USE IndexClientAssumption
  <1>1. /\ CallTyped /\ CallTyped' /\ RowsAreCut /\ RowsAreCut' /\ RowCount \in Nat
        /\ call.from = "reindex" => oversized = refused
    BY DEF ClientInvariant, CallTyped
  <1>2. /\ call.attempt \in 1 .. IngestAttempts /\ 1 \in 1 .. IngestAttempts
        /\ \A k \in 1 .. IngestAttempts : k < IngestAttempts => k + 1 \in 1 .. IngestAttempts
    BY DEF CallBounds
  <1>3. call'.attempt \in 1 .. IngestAttempts
    <2>1. CASE PackRows \/ Throw \/ ReturnToCaller \/ EndReindex \/ UNCHANGED indexClientVars
      <3>1. call'.attempt = call.attempt
        BY <1>1, <2>1 DEF PackRows, Throw, ReturnToCaller, EndReindex, indexClientVars, CallTyped
      <3> QED BY <1>2, <3>1
    <2>2. CASE IndexTakes \/ PassOver \/ Halve
      <3>1. call'.attempt = 1
        BY <1>1, <2>2 DEF IndexTakes, PassOver, Halve, NextBody, CallTyped
      <3> QED BY <1>2, <3>1
    <2>3. CASE Retry
      <3>1. call'.attempt = call.attempt + 1 /\ call.attempt < IngestAttempts
        BY <1>1, <2>3 DEF Retry, CallTyped
      <3> QED BY <1>2, <3>1
    <2> QED BY <2>1, <2>2, <2>3 DEF IndexClientNext
  <1>4. ASSUME NEW j \in 1 .. Len(call'.bodies)
        PROVE  RangeOf(call'.bodies[j]) \subseteq BatchRows
    <2>1. CASE call'.state \in {"sending", "threw"}
      <3>1. PICK k \in 0 .. RowCount : CutFrom(call'.bodies, k, RowCount)
        BY <1>1, <2>1 DEF RowsAreCut
      <3> DEFINE b == call'.bodies
      <3>2. CutFrom(b, k, RowCount) /\ j \in 1 .. Len(b) BY <3>1, <1>4
      <3> HIDE DEF b
      <3>3. RangeOf(b[j]) \subseteq 1 .. RowCount BY <1>1, <3>2, CutInRange
      <3> QED BY <3>3 DEF b, BatchRows
    <2>2. CASE call'.state \notin {"sending", "threw"}
      <3>1. call'.bodies = call.bodies
        <4>1. CASE PackRows \/ IndexTakes \/ Halve \/ PassOver \/ Retry \/ Throw
          <5>1. call'.state \in {"sending", "threw"}
            BY <1>1, <4>1 DEF PackRows, IndexTakes, Halve, PassOver, Retry, Throw, NextBody,
                              Posting, CallTyped
          <5> QED BY <2>2, <5>1
        <4>2. CASE ReturnToCaller \/ EndReindex \/ UNCHANGED indexClientVars
          BY <1>1, <4>2 DEF ReturnToCaller, EndReindex, indexClientVars, CallTyped
        <4> QED BY <4>1, <4>2 DEF IndexClientNext
      <3> QED BY <1>4, <3>1 DEF CallBounds, BatchRows
    <2> QED BY <2>1, <2>2
  <1>5. oversized' \subseteq refused'
    BY <1>1 DEF IndexClientNext, PackRows, IndexTakes, Halve, PassOver, Retry, Throw,
                ReturnToCaller, EndReindex, indexClientVars, CallBounds
  <1>6. UNCHANGED size
    BY DEF IndexClientNext, PackRows, IndexTakes, Halve, PassOver, Retry, Throw,
           ReturnToCaller, EndReindex, indexClientVars
  <1> QED BY <1>3, <1>4, <1>5, <1>6 DEF CallBounds, BatchRows

LEMMA ClientTypes == IndexClientSpec => []IndexClientTypeOK
  <1>1. IndexClientInit => CallBounds
    BY IndexClientAssumption DEF IndexClientInit, CallBounds
  <1>2. ClientInvariant /\ [IndexClientNext]_indexClientVars => ClientInvariant'
    BY ClientSteps, ClientRests
  <1>3. ClientInvariant /\ CallBounds => IndexClientTypeOK
    <2> SUFFICES ASSUME ClientInvariant, CallBounds PROVE IndexClientTypeOK OBVIOUS
    <2>1. CallTyped BY DEF ClientInvariant
    <2>2. DOMAIN call.bodies = 1 .. Len(call.bodies)
      <3>1. call.bodies \in Seq(Seq(Nat)) BY <2>1 DEF CallTyped
      <3> QED BY <3>1
    <2> QED BY <2>1, <2>2 DEF CallTyped, CallBounds, IndexClientTypeOK
  <1> QED BY <1>1, <1>2, <1>3, ClientStarts, CallBoundsKeep, PTL DEF IndexClientSpec

(* The list of the admin page shows runs of the table.                     *)
ListBounds ==
    /\ Len(runTable) <= MaxAdminRuns /\ runs \in Seq(RunsShown)
    /\ loadingOlderRuns \in BOOLEAN /\ openRun \in RunsShown \cup {NoneOpen}
    /\ imported \in 0 .. MaxImported

LEMMA FoundAgainIsShown ==
    ASSUME runs \in Seq(RunsShown)
    PROVE  FoundAgain \in RunsShown \cup {NoneOpen}
  <1> DEFINE S == { i \in DOMAIN runs : runs[i].id = openRun.id }
  <1>1. CASE openRun # NoneOpen /\ S # {}
    <2>1. Len(runs) \in Nat /\ S \subseteq 1 .. Len(runs) OBVIOUS
    <2>2. PICK k \in S : \A j \in 1 .. k - 1 : j \notin S
      <3> DEFINE m == Len(runs)
      <3>1. m \in Nat /\ S \subseteq 1 .. m BY <2>1
      <3> HIDE DEF m, S
      <3> QED BY <1>1, <3>1, FirstIsThere
    <2>3. \E i \in DOMAIN runs : /\ runs[i].id = openRun.id
                                 /\ \A j \in 1 .. i - 1 : runs[j].id # openRun.id
      <3>1. \A j \in 1 .. k - 1 : j \in DOMAIN runs OBVIOUS
      <3> QED BY <2>2, <3>1
    <2> DEFINE first == CHOOSE i \in DOMAIN runs :
                 /\ runs[i].id = openRun.id
                 /\ \A j \in 1 .. i - 1 : runs[j].id # openRun.id
    <2>4. first \in DOMAIN runs BY <2>3
    <2>5. FoundAgain = runs[first] BY <1>1 DEF FoundAgain
    <2> HIDE DEF first
    <2>6. runs[first] \in RunsShown BY <2>4
    <2> QED BY <2>5, <2>6
  <1>2. CASE ~(openRun # NoneOpen /\ S # {}) BY <1>2 DEF FoundAgain
  <1> QED BY <1>1, <1>2

LEMMA ListBoundsKeep ==
    AdminInvariant /\ ListBounds /\ [AdminPageNext]_adminPageVars => ListBounds'
  <1> SUFFICES ASSUME AdminInvariant, ListBounds, [AdminPageNext]_adminPageVars
               PROVE  ListBounds'
    OBVIOUS
  <1>1. /\ runTable \in Seq(BOOLEAN) /\ runs \in Seq(RunsShown) /\ Len(runTable) <= MaxAdminRuns
        /\ Len(runTable) \in Nat /\ MaxAdminRuns \in Nat /\ MaxImported \in Nat
        /\ runRequests \in [RequestNumbers -> RequestRow]
    BY AdminPageAssumption DEF AdminInvariant, AdminRows, ListBounds
  <1>2. Len(runTable') <= MaxAdminRuns
    <2>1. \/ runTable' = runTable
          \/ runTable' = Append(runTable, TRUE) /\ Len(runTable) < MaxAdminRuns
          \/ \E id \in DOMAIN runTable : runTable' = [runTable EXCEPT ![id] = FALSE]
      BY DEF AdminPageNext, adminPageVars, RunQueued, CloseDetail, RunSettled, OpenDetail, Refresh,
             LoadOlder, Poll, Summarised, TakeRuns, EndRequest, RequestFails, StartImport,
             ImportAccepted, ImportRefused, ChangeFilter
    <2>2. Len(Append(runTable, TRUE)) = Len(runTable) + 1 BY <1>1
    <2>3. CASE \E id \in DOMAIN runTable : runTable' = [runTable EXCEPT ![id] = FALSE]
      <3>1. PICK id \in DOMAIN runTable : runTable' = [runTable EXCEPT ![id] = FALSE]
        BY <2>3
      <3>2. Len([runTable EXCEPT ![id] = FALSE]) = Len(runTable) BY <1>1
      <3> QED BY <1>1, <3>1, <3>2
    <2>4. CASE runTable' = Append(runTable, TRUE) /\ Len(runTable) < MaxAdminRuns
      <3> DEFINE m == Len(runTable)
      <3>1. m \in Nat /\ m < MaxAdminRuns /\ Len(runTable') = m + 1 BY <1>1, <2>2, <2>4
      <3> HIDE DEF m
      <3> QED BY <1>1, <3>1
    <2> QED BY <1>1, <2>1, <2>3, <2>4
  <1>3. runs' \in Seq(RunsShown)
    <2>1. CASE \E n \in RequestNumbers : TakeRuns(n)
      <3>1. PICK n \in RequestNumbers : TakeRuns(n) BY <2>1
      <3> DEFINE r == runRequests[n]
                 read == Listing(r.filter)
                 to == LesserOf(r.offset + r.limit, Len(read))
      <3>2. r \in RequestRow /\ r.offset \in Nat /\ r.limit \in Nat
        BY <1>1 DEF RequestRow
      <3>3. read \in Seq(RunsShown)
        <4> DEFINE Row == [id: 1 .. Len(runTable), active: BOOLEAN]
        <4>1. Row \subseteq RunsShown BY <1>1 DEF RunsShown
        <4>2. read \in Seq(Row) BY <1>1, ListingShowsRuns
        <4> HIDE DEF Row, read
        <4> QED BY <4>1, <4>2
      <3>4. Len(read) \in Nat /\ to \in Int /\ to <= Len(read) /\ r.offset + 1 \in Int
            /\ \A i \in r.offset + 1 .. to : i \in 1 .. Len(read)
        <4> DEFINE m == Len(read)
        <4>1. m \in Nat BY <3>3
        <4> HIDE DEF m, r
        <4> QED BY <3>2, <4>1 DEF LesserOf, m
      <3>5. SubSeq(read, r.offset + 1, to) \in Seq(RunsShown)
        <4>1. \A i \in 1 .. Len(read) : read[i] \in RunsShown BY <3>3
        <4>2. \A i \in r.offset + 1 .. to : read[i] \in RunsShown BY <3>4, <4>1
        <4> HIDE DEF read, r, to
        <4> QED BY <3>4, <4>2, SubSeqProperties
      <3>6. Fetched(r) \in Seq(RunsShown) BY <3>5 DEF Fetched
      <3>7. runs' = IF r.kind = "append" THEN runs \o Fetched(r) ELSE Fetched(r)
        BY <3>1 DEF TakeRuns
      <3> HIDE DEF r
      <3> QED BY <1>1, <3>6, <3>7, ConcatProperties
    <2>2. CASE \E n \in RequestNumbers : ImportAccepted(n)
      <3>1. PICK n \in RequestNumbers : ImportAccepted(n) BY <2>2
      <3>2. runs' = <<[id |-> Len(runTable'), active |-> TRUE]>> \o runs
            /\ runTable' = Append(runTable, TRUE) /\ Len(runTable) < MaxAdminRuns
        BY <3>1 DEF ImportAccepted
      <3>3. Len(runTable') \in 1 .. MaxAdminRuns BY <1>1, <3>2
      <3>4. [id |-> Len(runTable'), active |-> TRUE] \in RunsShown BY <3>3 DEF RunsShown
      <3>5. <<[id |-> Len(runTable'), active |-> TRUE]>> \in Seq(RunsShown) BY <3>4
      <3> QED BY <1>1, <3>2, <3>5, ConcatProperties
    <2>3. \/ runs' = runs \/ \E n \in RequestNumbers : TakeRuns(n)
          \/ \E n \in RequestNumbers : ImportAccepted(n)
      BY DEF AdminPageNext, adminPageVars, RunQueued, CloseDetail, RunSettled, OpenDetail, Refresh,
             LoadOlder, Poll, Summarised, EndRequest, RequestFails, StartImport, runList,
             ImportRefused, ChangeFilter
    <2> QED BY <1>1, <2>1, <2>2, <2>3
  <1>4. /\ loadingOlderRuns' \in {loadingOlderRuns, TRUE, FALSE}
        /\ \/ openRun' \in {openRun, NoneOpen, FoundAgain}
           \/ \E i \in DOMAIN runs : openRun' = runs[i]
        /\ imported' = imported \/ (imported' = imported + 1 /\ imported < MaxImported)
    BY DEF AdminPageNext, adminPageVars, RunQueued, CloseDetail, RunSettled, OpenDetail, Refresh,
           LoadOlder, Poll, Summarised, TakeRuns, EndRequest, RequestFails, StartImport, runList,
           ImportAccepted, ImportRefused, ChangeFilter
  <1>5. openRun' \in RunsShown \cup {NoneOpen}
    <2>1. \A i \in DOMAIN runs : runs[i] \in RunsShown BY <1>1
    <2> QED BY <1>1, <1>4, <2>1, FoundAgainIsShown DEF ListBounds
  <1>6. loadingOlderRuns' \in BOOLEAN BY <1>4 DEF ListBounds
  <1>7. imported' \in 0 .. MaxImported BY <1>1, <1>4 DEF ListBounds
  <1> QED BY <1>2, <1>3, <1>5, <1>6, <1>7 DEF ListBounds

LEMMA AdminTypes == AdminPageSpec => []AdminPageTypeOK
  <1>1. AdminPageInit => ListBounds
    <2> SUFFICES ASSUME AdminPageInit PROVE ListBounds OBVIOUS
    <2>1. PICK n \in 0 .. MaxAdminRuns : runTable \in [1 .. n -> BOOLEAN]
      BY DEF AdminPageInit
    <2>2. n \in Nat /\ MaxAdminRuns \in Nat /\ MaxImported \in Nat
      BY AdminPageAssumption
    <2>3. Len(runTable) = n
      <3>1. runTable \in Seq(BOOLEAN) /\ DOMAIN runTable = 1 .. n
        BY <2>1, <2>2, FunctionsAreSequences
      <3> QED BY <2>2, <3>1
    <2>4. <<>> \in Seq(RunsShown) OBVIOUS
    <2>5. Len(runTable) <= MaxAdminRuns /\ 0 \in 0 .. MaxImported BY <2>2, <2>3
    <2> QED BY <2>4, <2>5 DEF AdminPageInit, ListBounds
  <1>2. AdminInvariant /\ ListBounds => AdminPageTypeOK
    <2> SUFFICES ASSUME AdminInvariant, ListBounds PROVE AdminPageTypeOK OBVIOUS
    <2>1. /\ \A i \in DOMAIN runTable : runTable[i] \in BOOLEAN
          /\ \A i \in DOMAIN runs : runs[i] \in RunsShown
      BY DEF AdminInvariant, AdminRows, ListBounds
    <2>2. \A n \in RequestNumbers :
              /\ runRequests[n].kind \in {"none", "replace", "append", "poll", "import"}
              /\ runRequests[n].step \in {"none", "summary", "runs", "issues", "posted"}
      BY DEF AdminInvariant, AdminRows, RequestRow
    <2> QED BY <2>1, <2>2 DEF AdminInvariant, AdminRows, ListBounds, AdminPageTypeOK
  <1> QED BY <1>1, <1>2, AloneStaysRight, ListBoundsKeep, PTL DEF AdminPageSpec

(* An operator's row keeps to what can be asked for, and what is done to   *)
(* what can be named.                                                      *)
RowInBounds(row) ==
    /\ row.status \in {"none", "queued", "running", "succeeded", "failed"}
    /\ row.body \in RequestBodies \cup {[action |-> "none"]}
    /\ row.error \in {NotNamed, "refused", "active", "in_part", "host"}
    /\ row.done \subseteq Names \X {"run", "windows", "purge", "takedown", "restart"}

RequestBounds ==
    /\ tokens \in 0 .. TokenBudget /\ guesses \in 0 .. TokenBudget
    /\ webAt \in 1 .. Len(Catalogs) /\ workerAt \in 1 .. Len(Catalogs)
    /\ openRuns \subseteq CatalogSources /\ RowInBounds(job)

LEMMA KeptCanBeAsked ==
    ASSUME NEW body \in RequestBodies
    PROVE  Kept(body) \in RequestBodies
  <1>1. CASE body.action = "rerun_source" /\ body.mode = NotNamed
    <2>1. PICK s \in CatalogSources, m \in {NotNamed, "full", "reindex_only"},
               d \in {NotNamed, "in_order", "reversed"} :
             body = [action |-> "rerun_source", source |-> s, mode |-> m, dates |-> d]
      BY <1>1 DEF RequestBodies
    <2>2. Kept(body) = [action |-> "rerun_source", source |-> s, mode |-> "full", dates |-> d]
      <3>1. Kept(body) = [body EXCEPT !.mode = "full"] BY <1>1 DEF Kept
      <3> QED BY <2>1, <3>1
    <2> QED BY <2>2 DEF RequestBodies
  <1>2. CASE body.action = "reenqueue_failed_windows"
    <2>1. PICK s \in CatalogSources \cup {NotNamed},
               t \in {NotNamed, "empty", "both", "unknown"} :
             body = [action |-> "reenqueue_failed_windows", source |-> s, statuses |-> t]
      BY <1>2 DEF RequestBodies
    <2>2. Kept(body) = [action |-> "reenqueue_failed_windows", source |-> s, statuses |-> "both"]
      <3>1. Kept(body) = [body EXCEPT !.statuses = "both"] BY <1>2 DEF Kept
      <3> QED BY <2>1, <3>1
    <2> QED BY <2>2 DEF RequestBodies
  <1>3. CASE ~(body.action = "rerun_source" /\ body.mode = NotNamed)
             /\ body.action # "reenqueue_failed_windows"
    BY <1>3 DEF Kept
  <1> QED BY <1>1, <1>2, <1>3

LEMMA AskedBodies ==
    ASSUME NEW body \in RequestBodies \cup {[action |-> "none"]}
    PROVE  /\ body.action = "rerun_source" => Target(body) \in Names
           /\ HostAction(body) => Target(body) \in Names
           /\ Goals(body) \subseteq Names \X {"windows", "purge", "takedown"}
  <1>1. CASE body \in [action: {"rerun_source"}, source: CatalogSources,
                       mode: {NotNamed, "full", "reindex_only"},
                       dates: {NotNamed, "in_order", "reversed"}]
    <2>1. body.action = "rerun_source" /\ body.source \in CatalogSources BY <1>1
    <2> QED BY <2>1 DEF Target, HostAction, Goals, Names
  <1>2. CASE body \in [action: {"reenqueue_failed_windows"}, source: CatalogSources \cup {NotNamed},
                       statuses: {NotNamed, "empty", "both", "unknown"}]
    <2>1. body.action = "reenqueue_failed_windows" /\ body.source \in CatalogSources \cup {NotNamed}
      BY <1>2
    <2> QED BY <2>1 DEF Target, HostAction, Goals, Names
  <1>3. CASE body \in [action: {"purge_source"}, source: CatalogSources]
    <2>1. body.action = "purge_source" /\ body.source \in CatalogSources BY <1>3
    <2> QED BY <2>1 DEF Target, HostAction, Goals, Names
  <1>4. CASE body \in [action: {"delete_document"}, documents: SUBSET DOMAIN SourceOf]
    <2>1. body.action = "delete_document" /\ body.documents \subseteq DOMAIN SourceOf
      BY <1>4
    <2> QED BY <2>1 DEF HostAction, Goals, Names
  <1>5. CASE body \in [action: {"restart_service", "service_logs"}, service: Loggable]
    <2>1. body.action \in {"restart_service", "service_logs"} /\ body.service \in Loggable
      BY <1>5
    <2> QED BY <2>1 DEF Target, HostAction, Goals, Names
  <1>6. CASE body = [action |-> "none"]
    <2>1. body.action = "none" BY <1>6
    <2> QED BY <2>1 DEF HostAction, Goals
  <1> QED BY <1>1, <1>2, <1>3, <1>4, <1>5, <1>6 DEF RequestBodies

LEMMA RowStaysInBounds ==
    ASSUME RequestsInvariant, RequestBounds, [OpsRequestsNext]_opsRequestsVars
    PROVE  RowInBounds(job')
  <1>0. /\ RowInBounds(job) /\ RowOfJob(job)
        /\ job.body \in RequestBodies \cup {[action |-> "none"]}
    BY DEF RequestBounds, RequestsInvariant, RowInBounds
  <1>s. ASSUME NEW status \in {"none", "queued", "running", "succeeded", "failed"},
               NEW error \in {NotNamed, "refused", "active", "in_part", "host"}
        PROVE  /\ RowInBounds(Settle(status, error)) /\ RowOfJob(Settle(status, error))
               /\ Settle(status, error).body = job.body
    BY <1>0, SettledRow DEF RowInBounds
  <1>d. ASSUME NEW row, RowOfJob(row), RowInBounds(row),
               NEW add \in SUBSET (Names \X {"run", "windows", "purge", "takedown", "restart"})
        PROVE  /\ RowInBounds([row EXCEPT !.done = row.done \cup add])
               /\ RowOfJob([row EXCEPT !.done = row.done \cup add])
               /\ RowInBounds([row EXCEPT !.done = add])
    BY <1>d DEF RowOfJob, RowInBounds
  <1>t. ASSUME NEW row, RowOfJob(row), RowInBounds(row),
               NEW status \in {"none", "queued", "running", "succeeded", "failed"}
        PROVE  RowInBounds([row EXCEPT !.status = status])
    BY <1>t DEF RowOfJob, RowInBounds
  <1>1. CASE PostRequest
    <2>1. PICK body \in RequestBodies, apply \in BOOLEAN, name \in Names \cup {NotNamed} :
             job' = [NoRow EXCEPT !.status = "queued", !.body = Kept(body),
                                  !.apply = apply, !.named = name, !.accepted = webAt]
      BY <1>1 DEF PostRequest
    <2>2. job'.status = "queued" /\ job'.body = Kept(body) /\ job'.done = {} /\ job'.error = NotNamed
      BY <2>1 DEF NoRow
    <2> QED BY <2>2, KeptCanBeAsked DEF RowInBounds
  <1>2. CASE RestartWorker BY <1>0, <1>2, <1>t DEF RestartWorker
  <1>3. CASE Claim
    <2>1. CASE job' = [job EXCEPT !.status = "running"] BY <1>0, <1>t, <2>1
    <2>2. CASE job' = [Settle("failed", "refused") EXCEPT !.refusedBy = workerAt]
      <3> DEFINE row == Settle("failed", "refused")
      <3>1. RowInBounds(row) /\ RowOfJob(row) /\ job' = [row EXCEPT !.refusedBy = workerAt]
        BY <1>s, <2>2
      <3> HIDE DEF row
      <3> QED BY <3>1 DEF RowInBounds, RowOfJob
    <2> QED BY <1>3, <2>1, <2>2 DEF Claim
  <1>4. CASE RunRerun
    <2>1. job.body.action = "rerun_source" BY <1>4 DEF RunRerun, Runs
    <2>2. {<<Target(job.body), "run">>}
             \in SUBSET (Names \X {"run", "windows", "purge", "takedown", "restart"})
      BY <1>0, <2>1, AskedBodies
    <2>3. RowInBounds(Done("run")) /\ RowOfJob(Done("run"))
      <3> DEFINE add == {<<Target(job.body), "run">>}
      <3>1. Done("run") = [job EXCEPT !.done = job.done \cup add] BY DEF Done
      <3>2. add \in SUBSET (Names \X {"run", "windows", "purge", "takedown", "restart"})
        BY <2>2
      <3> HIDE DEF add
      <3>3. /\ RowInBounds([job EXCEPT !.done = job.done \cup add])
            /\ RowOfJob([job EXCEPT !.done = job.done \cup add])
        BY <1>0, <3>2 DEF RowOfJob, RowInBounds
      <3> QED BY <3>1, <3>3
    <2>4. RowInBounds([Done("run") EXCEPT !.status = "succeeded"])
      <3> DEFINE row == Done("run")
      <3> HIDE DEF row
      <3>1. RowInBounds([row EXCEPT !.status = "succeeded"]) BY <1>t, <2>3 DEF row
      <3> QED BY <3>1 DEF row
    <2>5. job' \in {Settle("failed", "active"), Settle("succeeded", NotNamed), Done("run"),
                    [Done("run") EXCEPT !.status = "succeeded"]}
      BY <1>4 DEF RunRerun
    <2> QED BY <1>s, <2>3, <2>4, <2>5
  <1>5. CASE DoPart
    <2>1. PICK goal \in Goals(job.body) : job' = [job EXCEPT !.done = job.done \cup {goal}]
      BY <1>5 DEF DoPart
    <2>2. {goal} \in SUBSET (Names \X {"run", "windows", "purge", "takedown", "restart"})
      BY <1>0, AskedBodies
    <2> QED BY <1>0, <1>d, <2>1, <2>2
  <1>6. CASE FinishParts BY <1>6, <1>s DEF FinishParts
  <1>7. ASSUME NEW fails \in BOOLEAN, RunOnHost(fails)
        PROVE  RowInBounds(job')
    <2> DEFINE add == {<<Target(job.body), "restart">>}
    <2>1. add \in SUBSET (Names \X {"run", "windows", "purge", "takedown", "restart"})
      BY <1>0, <1>7, AskedBodies DEF RunOnHost
    <2>2. PICK ends \in {Settle("succeeded", NotNamed), Settle("failed", "host")} :
             job' = [ends EXCEPT !.done = add] \/ job' = ends
      BY <1>7 DEF RunOnHost
    <2>3. RowInBounds(ends) /\ RowOfJob(ends) BY <1>s
    <2> HIDE DEF add
    <2>4. RowInBounds([ends EXCEPT !.done = add])
      BY <2>1, <2>3 DEF RowOfJob, RowInBounds
    <2> QED BY <2>2, <2>3, <2>4
  <1>8. CASE \/ GuessToken \/ NextMinute \/ Refuse \/ DeployWeb \/ UNCHANGED opsRequestsVars
             \/ \E source \in CatalogSources : OtherRun(source)
    <2>1. job' = job
      BY <1>8 DEF GuessToken, NextMinute, Refuse, DeployWeb, opsRequestsVars, OtherRun
    <2> QED BY <1>0, <2>1
  <1> QED BY <1>1, <1>2, <1>3, <1>4, <1>5, <1>6, <1>7, <1>8 DEF OpsRequestsNext

LEMMA RequestTypes == OpsRequestsSpec => []OpsRequestsTypeOK
  <1>0. /\ Catalogs \in Seq([DOMAIN Catalogs[1] -> {"runnable", "projectable", "absent"}])
        /\ Len(Catalogs) \in Nat \ {0} /\ DOMAIN Catalogs = 1 .. Len(Catalogs)
        /\ TokenBudget \in Nat
    BY OpsRequestsAssumption, EmptySeq
  <1>1. OpsRequestsInit => RequestBounds
    BY <1>0 DEF OpsRequestsInit, RequestBounds, RowInBounds, NoRow, NotNamed
  <1>2. RequestsInvariant /\ RequestBounds /\ [OpsRequestsNext]_opsRequestsVars => RequestBounds'
    <2> SUFFICES ASSUME RequestsInvariant, RequestBounds, [OpsRequestsNext]_opsRequestsVars
                 PROVE  RequestBounds'
      OBVIOUS
    <2>1. RowInBounds(job') BY RowStaysInBounds
    <2>2. /\ tokens' \in {tokens, TokenBudget} \/ (tokens > 0 /\ tokens' = tokens - 1)
          /\ guesses' \in {guesses, TokenBudget} \/ (guesses > 0 /\ guesses' = guesses - 1)
      BY DEF OpsRequestsNext, opsRequestsVars, GuessToken, ChargeGuess, NextMinute, Refuse, DeployWeb,
             RestartWorker, PostRequest, Claim, OtherRun, RunRerun, DoPart, FinishParts, RunOnHost,
             budgetVars
    <2>3. tokens' \in 0 .. TokenBudget /\ guesses' \in 0 .. TokenBudget
      BY <1>0, <2>2 DEF RequestBounds
    <2>4. /\ workerAt' \in {workerAt, webAt}
          /\ webAt' = webAt \/ (webAt < Len(Catalogs) /\ webAt' = webAt + 1)
      BY DEF OpsRequestsNext, opsRequestsVars, GuessToken, NextMinute, Refuse, DeployWeb,
             RestartWorker, PostRequest, Claim, OtherRun, RunRerun, DoPart, FinishParts, RunOnHost,
             catalogVars
    <2>5. webAt' \in 1 .. Len(Catalogs) /\ workerAt' \in 1 .. Len(Catalogs)
      BY <1>0, <2>4 DEF RequestBounds
    <2>6. openRuns' \subseteq CatalogSources
      <3>1. CASE RunRerun
        <4>1. job.body.action = "rerun_source" BY <3>1 DEF RunRerun, Runs
        <4>2. job.body.source \in CatalogSources
          <5>1. job.body \in RequestBodies \cup {[action |-> "none"]}
            BY DEF RequestBounds, RowInBounds
          <5> QED BY <4>1, <5>1 DEF RequestBodies
        <4> QED BY <3>1, <4>2 DEF RunRerun, RequestBounds
      <3>2. CASE \E source \in CatalogSources : OtherRun(source)
        BY <3>2 DEF OtherRun, RequestBounds
      <3>3. openRuns' = openRuns \/ RunRerun \/ \E source \in CatalogSources : OtherRun(source)
        BY DEF OpsRequestsNext, opsRequestsVars, GuessToken, NextMinute, Refuse, DeployWeb,
               RestartWorker, PostRequest, Claim, DoPart, FinishParts, RunOnHost
      <3> QED BY <3>1, <3>2, <3>3 DEF RequestBounds
    <2> QED BY <2>1, <2>3, <2>5, <2>6 DEF RequestBounds
  <1>3. RequestBounds => OpsRequestsTypeOK
    BY <1>0 DEF RequestBounds, RowInBounds, OpsRequestsTypeOK
  <1> QED BY <1>1, <1>2, <1>3, RequestsAreConfirmed, PTL DEF OpsRequestsSpec

(* UpkeepTypeOK, of the specification the run checks: the component that   *)
(* moves, whichever it is, keeps its types and its bounds.                 *)
THEOREM UpkeepIsTyped == UpkeepSpec => []UpkeepTypeOK
  <1>v. UpkeepSpec => []RevalidationTypeOK BY EachIsAPart, RevalidationTypes, PTL
  <1>t. UpkeepSpec => []TimeRepairTypeOK BY EachIsAPart, TimesTypes, PTL
  <1>c. UpkeepSpec => []IndexClientTypeOK BY EachIsAPart, ClientTypes, PTL
  <1>r. UpkeepSpec => []OpsRequestsTypeOK BY EachIsAPart, RequestTypes, PTL
  <1>m. UpkeepSpec => []MonitorInvariant BY EachIsAPart, TroubleIsTold, PTL
  <1>o. UpkeepSpec => []CoverageInvariant BY EachIsAPart, ChecksAreTrue, PTL
  <1>s. UpkeepSpec => []StatusInvariant BY EachIsAPart, StatusStaysTrue, PTL
  <1>a. UpkeepSpec => []AdminPageTypeOK BY EachIsAPart, AdminTypes, PTL
  <1>g. UpkeepSpec => []FiguresInvariant BY EachIsAPart, FiguresAreDatedAndBounded, PTL
  <1>b. UpkeepSpec => []BackupInvariant BY EachIsAPart, BackupKeepsItsPromise, PTL
  <1> DEFINE Together ==
        /\ RevalidationTypeOK /\ TimeRepairTypeOK /\ IndexClientTypeOK
        /\ OpsRequestsTypeOK /\ MonitorInvariant /\ CoverageInvariant /\ StatusInvariant
        /\ AdminPageTypeOK /\ FiguresInvariant /\ BackupInvariant
  <1>1. Together => UpkeepTypeOK
    BY CoverageTypes, StatusTypes, FiguresTypes
    DEF UpkeepTypeOK, MonitorInvariant, BackupInvariant
  <1> QED BY <1>v, <1>t, <1>c, <1>r, <1>m, <1>o, <1>s, <1>a, <1>g, <1>b, <1>1, PTL
=============================================================================
