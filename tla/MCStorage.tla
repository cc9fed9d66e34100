----------------------------- MODULE MCStorage ------------------------------
(* What keeps data on disk: the log and the buffered log writer, the tiers,    *)
(* the backups, the downsampled blocks and the columns of a block.  A behaviour *)
(* moves one of them.                                                         *)
EXTENDS Wal, AsyncWal, Tiered, Backup, Downsample, Columns, TLC

VARIABLE medium
storageVars == <<vars, awVars, tierVars, backupVars, dsVars, columnVars, medium>>

MCPriority == <<1, 2>>
MCColumnLabels == "r" :> {"a", "b"} @@ "s" :> {"a"}
MCBloomBits == {"a", "b"} :> {1, 2} @@ {"a"} :> {2, 3}
MCColumnTimes == {-8388608, 0, 128, 8388607}
MCColumnValues == {<<3>>, NaN}
MCTierNames == <<"hot", "warm", "cold", "archive">>
MCRetention == "hot" :> 1 @@ "warm" :> 2 @@ "cold" :> 3 @@ "archive" :> 4
MCLoadedBlocks == {{<<"s", 0>>, <<"s", 2>>}, {<<"s", 1>>}}

StorageInit ==
  /\ Init /\ AwInit /\ TierInit /\ BackupInit /\ DsInit /\ ColumnsInit
  /\ medium \in {"wal", "async", "tiers", "migrations", "backups", "downsample", "columns", "bitmaps"}
  /\ medium # "backups" => ~bconf.incremental /\ ~bconf.encrypt
  /\ medium # "downsample" => front = "manager"
StorageNext ==
  /\ UNCHANGED medium
  /\ \/ medium = "wal"        /\ Next          /\ UNCHANGED <<awVars, tierVars, backupVars, dsVars, columnVars>>
     \/ medium = "async"      /\ AwNext        /\ UNCHANGED <<vars, tierVars, backupVars, dsVars, columnVars>>
     \/ medium = "tiers"      /\ TierNext      /\ UNCHANGED <<vars, awVars, backupVars, dsVars, columnVars>>
     \/ medium = "migrations" /\ MigrationNext /\ UNCHANGED <<vars, awVars, backupVars, dsVars, columnVars>>
     \/ medium = "backups"    /\ BackupNext    /\ UNCHANGED <<vars, awVars, tierVars, dsVars, columnVars>>
     \/ medium = "downsample" /\ DsNext        /\ UNCHANGED <<vars, awVars, tierVars, backupVars, columnVars>>
     \/ /\ \/ medium = "columns" /\ ColumnsNext
           \/ medium = "bitmaps" /\ BitmapNext
        /\ UNCHANGED <<vars, awVars, tierVars, backupVars, dsVars>>
StorageSpec == StorageInit /\ [][StorageNext]_storageVars
ColumnsSpec == StorageInit /\ medium = "columns" /\ [][StorageNext]_storageVars
=============================================================================
