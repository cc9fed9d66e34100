------------------------------- MODULE Backup -------------------------------
(***************************************************************************)
(* BackupManager, storage/src/backup/mod.rs.  A backup copies one file after *)
(* the other while the database goes on writing, then stores its metadata,   *)
(* verifies, cleans up and remembers its id.  A file is its version and the  *)
(* time it was modified; what encrypt_data does to a file is a flag.         *)
(***************************************************************************)
EXTENDS Integers, Sequences, FiniteSets, FiniteSetsExt

CONSTANTS
  DataFiles,    \* files of the data directory
  MarkedFiles,  \* those whose first byte happens to be the version mark 0x01
  RetentionDays,
  MaxBackups, MaxDay, MaxVersion,  \* bounds
  BackupFaults  \* bound on crashes, failing steps and removed files

VARIABLES
  bconf,    \* [incremental, encrypt] of BackupConfig
  day,      \* the clock
  data,     \* data_dir: file -> [version, modified, spoilt]
  backups,  \* backup directories in the order of their ids
  taker,    \* perform_backup: [pc, todo, since]
  last,     \* last_backup_id, 0 for None
  restoredB, \* restore_backup has run; no backup is taken of what it left
  touched,  \* files written during a backup, or in the instant of its timestamp
  faultsB
backupVars == <<bconf, day, data, backups, taker, last, restoredB, touched, faultsB>>

NoFiles == [f \in {} |-> 0]
Resting == [pc |-> "idle", todo |-> {}, since |-> -1]
With(m, f, x) == [g \in DOMAIN m \cup {f} |-> IF g = f THEN x ELSE m[g]]
Current == Len(backups)

BackupInit ==
  /\ bconf \in [incremental : BOOLEAN, encrypt : BOOLEAN]
  /\ day = 1
  /\ data = [f \in DataFiles |-> [version |-> 1, modified |-> 1, spoilt |-> FALSE]]
  /\ backups = <<>>
  /\ taker = Resting /\ last = 0 /\ restoredB = FALSE /\ touched = {} /\ faultsB = 0

\* The database writes a file, or removes one (a compacted block, a WAL segment).
WriteFile(f) ==
  /\ f \in DOMAIN data /\ data[f].version < MaxVersion
  /\ data' = [data EXCEPT ![f] = [version |-> @.version + 1, modified |-> day, spoilt |-> @.spoilt]]
  /\ touched' = IF taker.pc # "idle" \/ \E i \in DOMAIN backups : backups[i].meta = day
                THEN touched \cup {f} ELSE touched
  /\ ~restoredB
  /\ UNCHANGED <<bconf, day, backups, taker, last, restoredB, faultsB>>

RemoveFile(f) ==
  /\ f \in DOMAIN data /\ ~restoredB /\ faultsB < BackupFaults
  /\ faultsB' = faultsB + 1
  /\ data' = [g \in DOMAIN data \ {f} |-> data[g]]
  /\ UNCHANGED <<bconf, day, backups, taker, last, restoredB, touched>>

DayPasses ==
  /\ day < MaxDay /\ ~restoredB
  /\ day' = day + 1
  /\ UNCHANGED <<bconf, data, backups, taker, last, restoredB, touched, faultsB>>

-----------------------------------------------------------------------------
\* Mutant: the present is taken for the time of the last backup.
MutLastBackupTime == IF last # 0 THEN day ELSE -1

\* The time an incremental backup compares with: the metadata of the last one,
\* None when there is none or its directory is gone.
LastBackupTime == IF last # 0 /\ backups[last].meta > 0 THEN backups[last].meta ELSE -1

\* perform_backup up to the directory walk.
StartBackup ==
  /\ taker.pc = "idle" /\ ~restoredB /\ Current < MaxBackups
  /\ backups' = Append(backups, [files |-> NoFiles, meta |-> 0, verified |-> FALSE, gone |-> FALSE,
                                 since |-> IF bconf.incremental THEN LastBackupTime ELSE -1,
                                 from |-> data, to |-> NoFiles])
  /\ taker' = [pc |-> "copy", todo |-> DOMAIN data,
               since |-> IF bconf.incremental THEN LastBackupTime ELSE -1]
  /\ UNCHANGED <<bconf, day, data, last, restoredB, touched, faultsB>>

GiveUp == taker' = Resting

\* The copy of a file; only a full backup encrypts.
CopyOf(f) == [version |-> data[f].version, spoilt |-> data[f].spoilt,
              enc |-> bconf.encrypt /\ ~bconf.incremental]

\* One file of the walk: perform_full_backup encrypts, perform_incremental_backup
\* copies.  A file that has vanished ends the backup with an error.
CopyFile(f) ==
  /\ taker.pc = "copy" /\ f \in taker.todo
  /\ IF f \notin DOMAIN data
     THEN GiveUp /\ UNCHANGED backups
     ELSE /\ taker' = [taker EXCEPT !.todo = @ \ {f}]
          /\ backups' = IF data[f].modified > taker.since
                        THEN LET b == backups[Current]
                             IN  [backups EXCEPT ![Current] = [b EXCEPT !.files = With(b.files, f, CopyOf(f))]]
                        ELSE backups
  /\ UNCHANGED <<bconf, day, data, last, restoredB, touched, faultsB>>

\* save_metadata: its timestamp is the time after the copies.
SaveMetadata ==
  /\ taker.pc = "copy" /\ taker.todo = {}
  /\ backups' = [backups EXCEPT ![Current] = [@ EXCEPT !.meta = day, !.to = data]]
  /\ taker' = [taker EXCEPT !.pc = "verify"]
  /\ UNCHANGED <<bconf, day, data, last, restoredB, touched, faultsB>>

\* verify_backup opens every copy, and the metadata is stored again.
VerifyBackup ==
  /\ taker.pc = "verify"
  /\ backups' = [backups EXCEPT ![Current] = [@ EXCEPT !.verified = TRUE]]
  /\ taker' = [taker EXCEPT !.pc = "cleanup"]
  /\ UNCHANGED <<bconf, day, data, last, restoredB, touched, faultsB>>

\* cleanup_old_backups removes what is older than the retention; a directory
\* without metadata stays for good.
CleanupOldBackups ==
  /\ taker.pc = "cleanup"
  /\ backups' = [i \in DOMAIN backups |->
                   IF backups[i].meta > 0 /\ backups[i].meta < day - RetentionDays
                   THEN [backups[i] EXCEPT !.files = NoFiles, !.meta = 0, !.gone = TRUE]
                   ELSE backups[i]]
  /\ last' = Current
  /\ taker' = Resting
  /\ UNCHANGED <<bconf, day, data, restoredB, touched, faultsB>>

\* A failing step (a full disk, damaged metadata of any backup) ends
\* perform_backup with what it has done; a restart also forgets last_backup_id.
BackupFault(restart) ==
  /\ faultsB < BackupFaults
  /\ faultsB' = faultsB + 1
  /\ taker.pc # "idle" \/ restart
  /\ GiveUp
  /\ last' = IF restart THEN 0 ELSE last
  /\ UNCHANGED <<bconf, day, data, backups, restoredB, touched>>

-----------------------------------------------------------------------------
\* decrypt_data: bytes that begin with the mark are decrypted whether they were
\* encrypted or not.
decrypt_data(f, copy) ==
  [version |-> copy.version, modified |-> day,
   spoilt |-> copy.spoilt \/ (bconf.encrypt /\ ~copy.enc /\ f \in MarkedFiles)]

\* data_dir is renamed away (refused when that second's name is taken), made again
\* and filled; the copying may fail part of the way, at the cost of a fault.
restore_backup(i, restored) ==
  /\ ~restoredB /\ taker.pc = "idle"
  /\ backups[i].meta > 0
  /\ restored \in SUBSET DOMAIN backups[i].files
  /\ restored # DOMAIN backups[i].files => faultsB < BackupFaults
  /\ restoredB' = TRUE
  /\ data' = [f \in restored |-> decrypt_data(f, backups[i].files[f])]
  /\ UNCHANGED <<bconf, day, backups, taker, last, touched, faultsB>>

BackupNext ==
  \/ \E f \in DataFiles : WriteFile(f) \/ RemoveFile(f) \/ CopyFile(f)
  \/ DayPasses \/ StartBackup \/ SaveMetadata \/ VerifyBackup \/ CleanupOldBackups
  \/ \E restart \in BOOLEAN : BackupFault(restart)
  \/ \E i \in DOMAIN backups, restored \in SUBSET DataFiles : restore_backup(i, restored)

BackupSpec == BackupInit /\ [][BackupNext]_backupVars

-----------------------------------------------------------------------------
\* A backup that is listed holds, of every file it copied, a version the file had
\* while the backup ran, and a full one every file that was there throughout;
\* files of one backup need not be of one moment.
FuzzySnapshot ==
  \A i \in DOMAIN backups :
    LET b == backups[i]
    IN  b.meta > 0 =>
          /\ \A f \in DOMAIN b.files \cap DOMAIN b.from \cap DOMAIN b.to :
               b.files[f].version \in b.from[f].version..b.to[f].version
          /\ ~bconf.incremental => DOMAIN b.from \cap DOMAIN b.to \subseteq DOMAIN b.files

\* What an incremental backup leaves out is in an earlier backup, unless the file
\* was written while a backup ran (its timestamp is taken after the copies, so
\* the next backup takes the file for old) or the base was cleaned up.
IncrementLeavesOut ==
  \A i \in DOMAIN backups :
    LET b == backups[i]
    IN  (bconf.incremental /\ b.meta > 0 /\ ~restoredB) =>
          \A f \in DOMAIN b.from \cap DOMAIN b.to :
            \/ f \in touched
            \/ \E j \in 1..i : backups[j].gone
            \/ \E j \in 1..i : /\ f \in DOMAIN backups[j].files
                               /\ backups[j].files[f].version >= b.from[f].version

\* A file comes back damaged only from a copy that was not encrypted, under a
\* configuration that encrypts, when its first byte looks like the mark.
SpoiltNeedsMark ==
  \A f \in DOMAIN data :
    data[f].spoilt => bconf.encrypt /\ bconf.incremental /\ f \in MarkedFiles

\* What a listed backup contains, what an increment may leave out, and when a
\* restored file is damaged.
BackupsSound == FuzzySnapshot /\ IncrementLeavesOut /\ SpoiltNeedsMark
=============================================================================
