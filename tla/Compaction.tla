----------------------------- MODULE Compaction -----------------------------
(***************************************************************************)
(* CompactionManager (storage/src/compaction/mod.rs) over the BlockManager   *)
(* of storage/src/flush/mod.rs and the directories BlockWriter leaves.  A    *)
(* flush writes directories the manager only learns of when it is built      *)
(* again.  A sample is <<series, timestamp, value>>.  BlockReader::query does *)
(* not find what BlockWriter wrote (see Codec): unless the time column is a   *)
(* whole number of words it panics, and else its timestamps are wrong.        *)
(***************************************************************************)
EXTENDS Integers, Sequences, SequencesExt, FiniteSets, FiniteSetsExt

CONSTANTS
  OldBlocks,       \* block id -> the samples of a block on disk at the start
  LateBlock,       \* the samples of the block flushed while compaction runs
  DamagedBlocks,   \* blocks BlockReader::open refuses
  ColumnsOf,       \* block id -> "words", "bytes" (no whole number of words) or
                   \* "broken", when a column file is missing or does not unpack
  LevelThreshold,  \* threshold of levels 0..2
  MaxLevel,        \* max_level
  MaxMillis,       \* bound on the clock
  CompactFaults,   \* bound on the restarts and on the failing deletions
  CommandLimit     \* bound on the commands sent (the channel holds 100)

ASSUME CompactionAssumption == IsFiniteSet(DOMAIN OldBlocks)

VARIABLES
  dirs,      \* block directory -> [samples, complete]
  listed,    \* BlockManager.blocks: id -> compaction_level
  millis,    \* the wall clock
  worker,    \* the task of run(): [pc, level, ids, all, new, whole]
  commands,  \* the channel
  clashed,   \* ids that were given to two blocks
  unread,    \* samples of blocks a merge has removed and had not read as written
  born,      \* samples some flush has put into a block
  sent,      \* commands sent
  faultsC
compVars == <<dirs, listed, millis, worker, commands, clashed, unread, born, sent, faultsC>>

Rest == [pc |-> "idle", level |-> 0, ids |-> <<>>, all |-> {}, new |-> 0, whole |-> FALSE]

Key(x) == <<x[1], x[2]>>
Keys(S) == {Key(x) : x \in S}

\* BlockManager::load_existing_blocks: directories without meta.json are passed
\* over, and the writer stored compaction_level 0 whatever the level was.
load_existing_blocks(d) == [b \in {b \in DOMAIN d : d[b].complete} |-> 0]

CompInit ==
  /\ dirs = [b \in DOMAIN OldBlocks |-> [samples |-> OldBlocks[b], complete |-> TRUE]]
  /\ listed = load_existing_blocks(dirs)
  /\ millis = Cardinality(DOMAIN OldBlocks)
  /\ worker = Rest
  /\ commands = <<>>
  /\ clashed = {} /\ unread = {} /\ faultsC = 0 /\ sent = 0
  /\ born = UNION {OldBlocks[b] : b \in DOMAIN OldBlocks}

get_blocks_for_level(level) == {b \in DOMAIN listed : listed[b] = level}
ThresholdOf(level) == IF level <= 2 THEN LevelThreshold ELSE 2

\* The loop of check_and_compact from a level on: the first level that is full,
\* its blocks in the order the hash map gives them.
NextLevel(level) ==
  LET full == {k \in level..MaxLevel :
                 Cardinality(get_blocks_for_level(k)) >= ThresholdOf(k)}
  IN  IF full = {} THEN worker' = Rest
      ELSE LET k == Min(full)
           IN  \E ids \in SetToSeqs(get_blocks_for_level(k)) :
                 worker' = [Rest EXCEPT !.pc = "load", !.level = k, !.ids = ids, !.whole = TRUE]

\* `?` ends the whole check; a single block has no further levels.
After(level) == IF worker.whole THEN NextLevel(level + 1) ELSE worker' = Rest

check_and_compact ==
  /\ worker.pc = "idle"
  /\ NextLevel(0)
  /\ UNCHANGED <<dirs, listed, millis, commands, clashed, unread, born, sent, faultsC>>

run_command ==
  /\ worker.pc = "idle"
  /\ commands # <<>>
  /\ commands' = Tail(commands)
  /\ LET c == Head(commands)
     IN  CASE c.op = "compact"  -> NextLevel(0)
           [] c.op = "shutdown" -> worker' = [Rest EXCEPT !.pc = "stopped"]
           [] OTHER -> \* compact_specific_block, NotFound when it is not listed
                worker' = IF c.id \in DOMAIN listed
                          THEN [Rest EXCEPT !.pc = "load", !.level = listed[c.id], !.ids = <<c.id>>]
                          ELSE Rest
  /\ UNCHANGED <<dirs, listed, millis, clashed, unread, born, sent, faultsC>>

\* trigger_compaction, compact_block and shutdown: try_send.
Trigger(c) ==
  /\ sent < CommandLimit
  /\ sent' = sent + 1
  /\ commands' = Append(commands, c)
  /\ UNCHANGED <<dirs, listed, millis, worker, clashed, unread, born, faultsC>>

WrongTime == 0

\* What load_block_data adds for a block: nothing when its directory is gone or no
\* series can be read, which is a warning.  A time column of one word gives one
\* sample of the series that happens to be first, at a time nobody wrote.
load_block_data(b) ==
  IF b \notin DOMAIN dirs \/ ColumnsOf[b] = "broken" THEN {{}}
  ELSE {{<<x[1], WrongTime, x[3]>>} : x \in dirs[b].samples}

\* sort_by_key is stable and dedup_by keeps the first: the block loaded first
\* wins a timestamp.
Merged(ids, read) ==
  UNION {{x \in read[ids[i]] : \A j \in 1 .. i - 1 : Key(x) \notin Keys(read[ids[j]])} : i \in DOMAIN ids}

\* The blocks at which loading ends: those that do not open, and those whose
\* time column panics.
Panics(b) == b \notin DamagedBlocks /\ ColumnsOf[b] = "bytes"
Stops(b) == b \in DOMAIN dirs /\ (b \in DamagedBlocks \/ Panics(b))
Stoppers == {i \in DOMAIN worker.ids : Stops(worker.ids[i])}
FirstStopper == worker.ids[Min(Stoppers)]

\* Mutant: a block that does not open is skipped, and deleted with the others.
MutLoadAll ==
  /\ worker.pc = "load"
  /\ worker' = [worker EXCEPT !.pc = "write", !.all = {<<"s", WrongTime, "x">>}, !.new = millis]
  /\ UNCHANGED <<dirs, listed, millis, commands, clashed, unread, born, sent, faultsC>>

LoadAll ==
  /\ worker.pc = "load"
  /\ \/ /\ Stoppers = {}
        /\ \E read \in [ToSet(worker.ids) -> UNION {load_block_data(b) : b \in ToSet(worker.ids)}] :
             /\ \A b \in ToSet(worker.ids) : read[b] \in load_block_data(b)
             /\ LET all == Merged(worker.ids, read)
                IN  IF all = {} THEN After(worker.level)
                    ELSE worker' = [worker EXCEPT !.pc = "write", !.all = all, !.new = millis]
     \/ /\ Stoppers # {} /\ ~Panics(FirstStopper)
        /\ worker' = Rest
  /\ UNCHANGED <<dirs, listed, millis, commands, clashed, unread, born, sent, faultsC>>

\* The index out of bounds: the process aborts, as the release profile says, and is
\* started again, or else only the task is gone.
LoadPanics ==
  /\ worker.pc = "load"
  /\ Stoppers # {} /\ Panics(FirstStopper)
  /\ \/ worker' = Rest /\ commands' = <<>> /\ listed' = load_existing_blocks(dirs)
     \/ worker' = [Rest EXCEPT !.pc = "stopped"] /\ UNCHANGED <<commands, listed>>
  /\ UNCHANGED <<dirs, millis, clashed, unread, born, sent, faultsC>>

\* BlockWriter::write: columns, index and bloom filter, then meta.json.  A
\* directory of the same id is written over.
WriteColumns ==
  /\ worker.pc = "write"
  /\ worker' = [worker EXCEPT !.pc = "meta"]
  /\ clashed' = clashed \cup (DOMAIN dirs \cap {worker.new})
  /\ dirs' = [b \in DOMAIN dirs \cup {worker.new} |->
                IF b # worker.new THEN dirs[b]
                ELSE [samples |-> worker.all,
                      complete |-> b \in DOMAIN dirs /\ dirs[b].complete]]
  /\ UNCHANGED <<listed, millis, commands, unread, born, sent, faultsC>>

WriteMeta ==
  /\ worker.pc = "meta"
  /\ worker' = [worker EXCEPT !.pc = "replace"]
  /\ dirs' = [dirs EXCEPT ![worker.new].complete = TRUE]
  /\ UNCHANGED <<listed, millis, commands, clashed, unread, born, sent, faultsC>>

WithoutBlock(f, b) == [x \in DOMAIN f \ {b} |-> f[x]]

\* One turn of the loop that removes the old blocks: a directory that cannot be
\* deleted is only a warning.
remove_block(deleted) ==
  LET b == Head(worker.ids)
  IN  /\ worker.pc = "replace"
      /\ worker.ids # <<>>
      /\ worker' = [worker EXCEPT !.ids = Tail(@)]
      /\ listed' = WithoutBlock(listed, b)
      /\ dirs' = IF deleted THEN WithoutBlock(dirs, b) ELSE dirs
      /\ unread' = unread \cup (IF b \notin DOMAIN dirs \/ Stops(b) THEN {} ELSE dirs[b].samples)
      /\ deleted \/ faultsC < CompactFaults
      /\ faultsC' = IF deleted THEN faultsC ELSE faultsC + 1
      /\ UNCHANGED <<millis, commands, clashed, born, sent>>

add_block ==
  /\ worker.pc = "replace"
  /\ worker.ids = <<>>
  /\ listed' = [b \in DOMAIN listed \cup {worker.new} |->
                  IF b = worker.new THEN worker.level + 1 ELSE listed[b]]
  /\ worker' = [worker EXCEPT !.pc = "next"]
  /\ UNCHANGED <<dirs, millis, commands, clashed, unread, born, sent, faultsC>>

NextOfCheck ==
  /\ worker.pc = "next"
  /\ After(worker.level)
  /\ UNCHANGED <<dirs, listed, millis, commands, clashed, unread, born, sent, faultsC>>

\* FlushManager writes one more block, whose id is the wall clock.
FlushBlock ==
  /\ LateBlock \cap born = {}
  /\ born' = born \cup LateBlock
  /\ clashed' = clashed \cup (DOMAIN dirs \cap {millis})
  /\ dirs' = [b \in DOMAIN dirs \cup {millis} |->
                IF b = millis THEN [samples |-> LateBlock, complete |-> TRUE] ELSE dirs[b]]
  /\ UNCHANGED <<listed, millis, worker, commands, unread, sent, faultsC>>

ClockC ==
  /\ millis < MaxMillis
  /\ millis' = millis + 1
  /\ UNCHANGED <<dirs, listed, worker, commands, clashed, unread, born, sent, faultsC>>

\* The process stops at any point and BlockManager::new reads the directories.
CrashC ==
  /\ faultsC < CompactFaults
  /\ faultsC' = faultsC + 1
  /\ worker' = Rest
  /\ commands' = <<>>
  /\ listed' = load_existing_blocks(dirs)
  /\ UNCHANGED <<dirs, millis, clashed, unread, born, sent>>

Working == check_and_compact \/ run_command \/ LoadAll \/ LoadPanics \/ WriteColumns \/ WriteMeta
           \/ (\E deleted \in BOOLEAN : remove_block(deleted)) \/ add_block \/ NextOfCheck
CompNext ==
  \/ Working
  \/ \E op \in {"compact", "shutdown"} : Trigger([op |-> op, id |-> 0])
  \/ \E b \in DOMAIN OldBlocks : Trigger([op |-> "block", id |-> b])
  \/ FlushBlock \/ ClockC \/ CrashC
CompSpec == CompInit /\ [][CompNext]_compVars

-----------------------------------------------------------------------------
OnDisk == UNION {dirs[b].samples : b \in {b \in DOMAIN dirs : dirs[b].complete}}

\* However merges, flushes, panics and crashes interleave, every timestamp that was
\* in a block is in a complete directory, unless two blocks got the same millisecond
\* as their id or a merge opened the block, read its columns wrong or not at all, and
\* removed it: a block that does not open, or panics, is never removed.
CompactionKeeps ==
  clashed = {} => Keys(born) \subseteq Keys(OnDisk \cup unread)

FlushedTwice(k) ==
  \/ \E o, p \in DOMAIN OldBlocks : o # p /\ k \in Keys(OldBlocks[o]) \cap Keys(OldBlocks[p])
  \/ \E o \in DOMAIN OldBlocks : k \in Keys(OldBlocks[o]) \cap Keys(LateBlock)

\* A timestamp is in two directories only when two flushes put it there: whatever
\* a crash, a directory that cannot be deleted or a late flush leaves beside a merged
\* block, the merged block repeats none of its timestamps, for it has none of them.
TwiceIsFlushedTwice ==
  clashed = {} =>
    \A b, c \in DOMAIN dirs : b # c =>
      \A k \in Keys(dirs[b].samples) \cap Keys(dirs[c].samples) :
        k[2] = WrongTime \/ FlushedTwice(k)

Settled == \A k \in 0..MaxLevel : Cardinality(get_blocks_for_level(k)) < ThresholdOf(k)

\* Once merging has begun, every level comes to rest under its threshold, unless
\* the manager is shut down or a listed block does not open or panics: it ends every
\* check at its level, before and after a restart.
CompactionSettles ==
  (worker.pc = "load") ~>
    (Settled \/ worker.pc = "stopped" \/ clashed # {}
       \/ \E b \in DOMAIN listed \cap DOMAIN dirs : Stops(b))

\* Merging loses nothing and doubles nothing but for the named causes.
CompactionSound == CompactionKeeps /\ TwiceIsFlushedTwice
=============================================================================
