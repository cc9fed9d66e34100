------------------------------- MODULE Tiered -------------------------------
(***************************************************************************)
(* Tiered storage: DataTier and TierCollection (storage/src/tiered/tier.rs), *)
(* TieredStorageManager (manager.rs), AutoMigrationManager                   *)
(* (auto_migration.rs) and MigrationManager (migration.rs).  Time runs in    *)
(* hours; a sample is <<series, hour>> and a block the set of its samples.   *)
(***************************************************************************)
EXTENDS Integers, Sequences, SequencesExt, FiniteSets, FiniteSetsExt

CONSTANTS
  TierNames,      \* the configured tiers in the order of priority()
  Retention,      \* tier -> retention_hours
  LoadedBlocks,   \* what the reader finds in the blocks under <path>/blocks of the
                  \* first tier, which is not all that was written (see Codec)
  TierSeries,     \* series
  MaxHour,        \* bound on the clock
  TierWrites,     \* bound on the writes
  TierReads,      \* bound on the counted reads of a series
  TierCapacity,   \* files above which a tier counts as full
  QueueOfMigrations  \* bound on tasks in MigrationManager's channel (1000)

VARIABLES
  hour,      \* the wall clock
  blocksOf,  \* tier -> its BlockManager: [samples, readable]
  patterns,  \* tier -> series -> AccessPattern: [count, last, over]
  fileCount, \* tier -> TierStats.file_count
  moving,    \* spawned migrate_series_async tasks
  tierWrites,
  accessed,  \* AutoMigrationManager.access_stats: block -> last_access_time
  decided,   \* the decisions of the last check: [block, target, age]
  queued     \* MigrationManager's channel
tierVars == <<hour, blocksOf, patterns, fileCount, moving, tierWrites, accessed, decided, queued>>

AllTierNames == ToSet(TierNames)
Hot == TierNames[1]
Archive == Last(TierNames)

\* The tiers keep their data for longer and longer (TieredStorageConfig::default),
\* and a block has samples.
ASSUME TierAssumption ==
  /\ TierNames \in Seq(AllTierNames) /\ TierNames # <<>>
  /\ Retention \in [AllTierNames -> Nat]
  /\ \A i, j \in DOMAIN TierNames : i <= j => Retention[TierNames[i]] <= Retention[TierNames[j]]
  /\ MaxHour \in Nat
  /\ \A b \in LoadedBlocks : b # {} /\ \A x \in b : x[2] \in 0..MaxHour

NeverRead == [count |-> 0, last |-> 0, over |-> 0]

\* DataTier::new loads what is below <path>/blocks: the first tier shares its path
\* with the flushed blocks.
TierInit ==
  /\ hour = 1
  /\ blocksOf = [t \in AllTierNames |->
                   IF t = Hot THEN {[samples |-> b, readable |-> TRUE] : b \in LoadedBlocks} ELSE {}]
  /\ patterns = [t \in AllTierNames |-> [s \in TierSeries |-> NeverRead]]
  /\ fileCount = [t \in AllTierNames |-> 0]
  /\ moving = {} /\ tierWrites = 0
  /\ accessed = [b \in LoadedBlocks |-> 0]
  /\ decided = {} /\ queued = 0

\* TierCollection::get_tier_for_timestamp; get_current_tier and should_migrate ask it.
get_tier_for_timestamp(ts) ==
  LET fit == {i \in DOMAIN TierNames : hour - ts <= Retention[TierNames[i]]}
  IN  IF fit = {} THEN Archive ELSE TierNames[Min(fit)]

should_migrate(ts, current) == get_tier_for_timestamp(ts) # current

\* Mutant: the names agree, and readers open what was written.
MutTierWrite(t, samples) ==
  /\ blocksOf' = [blocksOf EXCEPT ![t] = @ \cup {[samples |-> samples, readable |-> TRUE]}]
  /\ fileCount' = [fileCount EXCEPT ![t] = @ + 1]

\* DataTier::write: the directory is named block-<id>, BlockInfo.path block_<id>.bin,
\* so that no reader ever opens what was written.
TierWrite(t, samples) ==
  /\ blocksOf' = [blocksOf EXCEPT ![t] = @ \cup {[samples |-> samples, readable |-> FALSE]}]
  /\ fileCount' = [fileCount EXCEPT ![t] = @ + 1]

\* get_blocks_in_time_range over everything, and the blocks that open.
tier_query(t, s) ==
  {x \in UNION {b.samples : b \in {b \in blocksOf[t] : b.readable}} : x[1] = s}

\* access_count over the hours since the last access, when there are any.
update_access_pattern(p) ==
  [count |-> p.count + 1, last |-> hour,
   over |-> IF p.last > 0 /\ hour > p.last THEN hour - p.last ELSE p.over]

\* TieredStorageManager::write asks for the tier of the present.
manager_write(s) ==
  /\ tierWrites < TierWrites
  /\ tierWrites' = tierWrites + 1
  /\ TierWrite(get_tier_for_timestamp(hour), {<<s, hour>>})
  /\ UNCHANGED <<hour, patterns, moving, accessed, decided, queued>>

\* query with query_all_tiers, and get_data_location, which stops at the first
\* tier that answers; with a preferred tier only that one is asked.
manager_query(s, asked) ==
  /\ \E t \in asked : tier_query(t, s) # {} /\ patterns[t][s].count < TierReads
  /\ patterns' = [t \in AllTierNames |->
                    IF t \in asked /\ tier_query(t, s) # {}
                    THEN [patterns[t] EXCEPT ![s] = update_access_pattern(@)]
                    ELSE patterns[t]]
  /\ UNCHANGED <<hour, blocksOf, fileCount, moving, tierWrites, accessed, decided, queued>>

\* A frequency above 10, above 1 and above 0.1 reads per hour; 0 before the second.
determine_target_tier(p) ==
  CASE p.over > 0 /\ p.count > 10 * p.over -> TierNames[1]
    [] p.over > 0 /\ p.count > p.over      -> TierNames[2]
    [] p.over > 0 /\ 10 * p.count > p.over -> TierNames[3]
    [] OTHER                               -> Archive

\* One task for each series with a pattern; auto_migrate waits for all of them.
auto_migrate ==
  /\ moving = {}
  /\ moving' = {m \in [series : TierSeries, from : AllTierNames, to : AllTierNames,
                       data : {{}}] :
                  /\ patterns[m.from][m.series].count > 0
                  /\ m.to = determine_target_tier(patterns[m.from][m.series])
                  /\ m.to # m.from}
  /\ UNCHANGED <<hour, blocksOf, patterns, fileCount, tierWrites, accessed, decided, queued>>

\* migrate_series_async (and migrate_series): the query, which also counts as an
\* access; nothing more happens when it finds nothing.
MigrateRead(m) ==
  LET data == tier_query(m.from, m.series)
  IN  /\ m \in moving
      /\ m.data = {}
      /\ moving' = (moving \ {m}) \cup (IF data = {} THEN {} ELSE {[m EXCEPT !.data = data]})
      /\ patterns' = IF data = {} \/ patterns[m.from][m.series].count >= TierReads
                     THEN patterns
                     ELSE [patterns EXCEPT ![m.from][m.series] = update_access_pattern(@)]
      /\ UNCHANGED <<hour, blocksOf, fileCount, tierWrites, accessed, decided, queued>>

\* Writes the copy; DataTier::delete of the source changes only a statistic.
MigrateWrite(m) ==
  /\ m \in moving
  /\ m.data # {}
  /\ tierWrites < TierWrites
  /\ tierWrites' = tierWrites + 1
  /\ TierWrite(m.to, m.data)
  /\ moving' = moving \ {m}
  /\ UNCHANGED <<hour, patterns, accessed, decided, queued>>

Newest(b) == Max({x[2] : x \in b.samples})

\* The block manager's lock is held from the choice to the removal.
tier_cleanup(t) ==
  /\ \E b \in blocksOf[t] : Newest(b) < hour - Retention[t]
  /\ blocksOf' = [blocksOf EXCEPT ![t] = {b \in @ : Newest(b) >= hour - Retention[t]}]
  /\ UNCHANGED <<hour, patterns, fileCount, moving, tierWrites, accessed, decided, queued>>

AgeTarget(age) ==
  LET above == {i \in DOMAIN TierNames : age > Retention[TierNames[i]]}
  IN  IF above = {} \/ Len(TierNames) \in above THEN "none" ELSE TierNames[Max(above) + 1]

\* The ten blocks read longest ago; the order of equals is the hash map's.
find_blocks_to_evict ==
  {S \in SUBSET LoadedBlocks :
     /\ Cardinality(S) = Min({10, Cardinality(LoadedBlocks)})
     /\ \A b \in S, c \in LoadedBlocks \ S : accessed[b] <= accessed[c]}

get_next_tier(t) == TierNames[Min({IndexFirstSubSeq(<<t>>, TierNames) + 1, Len(TierNames)})]

block_age_hours(b) == hour - Max({x[2] : x \in b})

\* evaluate_migration_needs over the blocks of the shared BlockManager: each is
\* taken to be in the hot tier, and update_block_location records nothing.
Decisions(evicted) ==
  {[block |-> b, target |-> AgeTarget(block_age_hours(b)), age |-> block_age_hours(b), full |-> FALSE] :
     b \in {b \in LoadedBlocks : AgeTarget(block_age_hours(b)) \notin {"none", Hot}}}
  \cup {[block |-> b, target |-> get_next_tier(t), age |-> block_age_hours(b), full |-> TRUE] :
     b \in evicted, t \in {t \in AllTierNames \ {Archive} : fileCount[t] > TierCapacity}}

\* check_and_migrate: read_block gives no bytes and write_block counts a file.
check_and_migrate ==
  \E evicted \in find_blocks_to_evict :
    /\ decided' = Decisions(evicted)
    /\ decided' # {}
    /\ fileCount' = [t \in AllTierNames |->
                       Min({fileCount[t] + Cardinality({d \in decided' : d.target = t}),
                            TierCapacity + 1})]
    /\ UNCHANGED <<hour, blocksOf, patterns, moving, tierWrites, accessed, queued>>

record_access(b) ==
  /\ accessed[b] < hour
  /\ accessed' = [accessed EXCEPT ![b] = hour]
  /\ UNCHANGED <<hour, blocksOf, patterns, fileCount, moving, tierWrites, decided, queued>>

\* MigrationManager::submit; MigrationHandle::run takes tasks and does nothing.
submit_migration ==
  /\ queued < QueueOfMigrations
  /\ queued' = queued + 1
  /\ UNCHANGED <<hour, blocksOf, patterns, fileCount, moving, tierWrites, accessed, decided>>

run_migrations ==
  /\ queued > 0
  /\ queued' = queued - 1
  /\ UNCHANGED <<hour, blocksOf, patterns, fileCount, moving, tierWrites, accessed, decided>>

HourPasses ==
  /\ hour < MaxHour
  /\ hour' = hour + 1
  /\ decided' = {}
  /\ UNCHANGED <<blocksOf, patterns, fileCount, moving, tierWrites, accessed, queued>>

TierNext ==
  \/ \E s \in TierSeries : manager_write(s)
  \/ \E s \in TierSeries, asked \in {AllTierNames} \cup {{t} : t \in AllTierNames} :
       manager_query(s, asked)
  \/ auto_migrate
  \/ \E m \in moving : MigrateRead(m) \/ MigrateWrite(m)
  \/ \E t \in AllTierNames : tier_cleanup(t)
  \/ HourPasses

\* AutoMigrationManager and MigrationManager share only the statistics and the
\* clock with the manager above, and are explored on their own.
MigrationNext ==
  \/ check_and_migrate
  \/ \E b \in LoadedBlocks : record_access(b)
  \/ submit_migration \/ run_migrations
  \/ HourPasses

TierSpec == TierInit /\ [][TierNext \/ MigrationNext]_tierVars

-----------------------------------------------------------------------------
Answer(t) == UNION {tier_query(t, s) : s \in TierSeries}

\* A query of all tiers gives a sample once, whatever migrations ran before it.
\* It depends on two omissions at once: the source keeps what was migrated, and
\* the copy in the target cannot be opened.
AnsweredOnce == \A t, u \in AllTierNames : t # u => Answer(t) \cap Answer(u) = {}

\* The ladder of ages in evaluate_migration_needs and the search of
\* TierCollection agree on the tier of a block that no tier has outlived.
MigrationAgrees ==
  \A d \in decided :
    ~d.full => /\ d.target = get_tier_for_timestamp(hour - d.age)
               /\ should_migrate(hour - d.age, Hot)

\* Answers over all tiers, and the two ways of choosing a tier.
TiersSound == AnsweredOnce /\ MigrationAgrees
=============================================================================
