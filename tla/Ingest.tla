------------------------------- MODULE Ingest -------------------------------
(***************************************************************************)
(* The write path of one ChronoDB process: concurrent MemStore::write and  *)
(* MemStore::write_batch calls (storage/src/memstore/store.rs), the head   *)
(* block and its inverted index (memstore/head.rs, index/inverted.rs), and *)
(* the background FlushManager task that turns the head into blocks on     *)
(* disk (storage/src/flush/mod.rs).                                        *)
(*                                                                         *)
(* A step ends where the code releases a lock or finishes a file           *)
(* operation, so every interleaving the locks allow is a behaviour.  A     *)
(* sample is a point <<series, sample>>; distinct submissions are distinct *)
(* points.  The write-ahead log is the set of points that log_write has    *)
(* handed to the operating system; its segments are the module Wal's.      *)
(***************************************************************************)
EXTENDS Integers, Sequences, FiniteSets

CONSTANTS
    Writers,        \* threads inside write or write_batch
    Series,         \* series ids (hashes of label sets)
    Samples,        \* submitted samples, ordered by timestamp
    Batches,        \* the argument lists the writers may submit
    MaxSeries,      \* HeadConfig::max_series
    Threshold,      \* block_size_threshold, in samples
    QueueCap,       \* capacity of the command channel
    WalEnabled,     \* the data directory existed when the store was opened
    MaxFaults,      \* bound: file operations that fail
    MaxRestarts     \* bound: process crashes

Item  == [series : Series, samples : SUBSET Samples]
Point == Series \X Samples

ASSUME SamplesAssumption == Samples \subseteq Nat /\ IsFiniteSet(Samples)
ASSUME BatchesAssumption == Batches \subseteq Seq(Item) \ {<<>>}
ASSUME SeriesAssumption == IsFiniteSet(Series)
ASSUME BoundsAssumption == /\ MaxSeries \in Nat
                           /\ Threshold \in Nat
                           /\ QueueCap \in Nat
                           /\ MaxFaults \in Nat
                           /\ MaxRestarts \in Nat
                           /\ WalEnabled \in BOOLEAN

VARIABLES
    head,       \* points in the chunks of the head block
    series,     \* keys of HeadBlock::series
    index,      \* keys of InvertedIndex::series_labels
    wal,        \* points in the log
    blocks,     \* blocks with a meta.json under <data_dir>/blocks, oldest first
    stats,      \* MemStoreStats::total_samples
    wpc,        \* where each writer is
    batch,      \* the items a writer has not finished
    todo,       \* samples of the current item still to be added
    count,      \* samples of the call so far (total_samples of write_batch)
    req,        \* all points of the call
    fpc,        \* where the flush task is
    ids,        \* series_ids of flush_memstore
    unread,     \* ids the copying loop has not reached
    buf,        \* points handed to the BlockWriter
    final,      \* this flush answers a Shutdown command
    cmds,       \* the command channel
    submitted,  \* history: samples some call has carried
    acked,      \* history: points of calls that returned Ok
    faults,     \* file operations that have failed
    restarts    \* crashes so far

store    == <<head, series, index, wal, stats>>
writer   == <<wpc, batch, todo, count, req, submitted, acked>>
flusher  == <<fpc, ids, unread, buf, final, cmds>>
vars == <<store, blocks, writer, flusher, faults, restarts>>

-----------------------------------------------------------------------------

\* The points of an item and of a whole batch.
ItemPoints(it) == {it.series} \X it.samples
BatchPoints(b) == UNION {ItemPoints(b[i]) : i \in 1..Len(b)}
BatchSamples(b) == UNION {b[i].samples : i \in 1..Len(b)}

\* A sample of a batch is one submission: two items never carry one point.
DistinctItems(b) ==
    \A i, j \in 1..Len(b) : i # j => ItemPoints(b[i]) \cap ItemPoints(b[j]) = {}

ASSUME DistinctAssumption == \A b \in Batches : DistinctItems(b)

\* Everything in a complete block on disk.
Persisted == UNION {blocks[i] : i \in 1..Len(blocks)}

Init ==
    /\ head = {} /\ series = {} /\ index = {} /\ wal = {} /\ stats = 0
    /\ blocks = <<>>
    /\ wpc = [w \in Writers |-> "idle"]
    /\ batch = [w \in Writers |-> <<>>]
    /\ todo = [w \in Writers |-> {}]
    /\ count = [w \in Writers |-> 0]
    /\ req = [w \in Writers |-> {}]
    /\ fpc = "idle" /\ ids = {} /\ unread = {} /\ buf = {} /\ final = FALSE
    /\ cmds = <<>>
    /\ submitted = {} /\ acked = {}
    /\ faults = 0 /\ restarts = 0

-----------------------------------------------------------------------------
(* MemStore::write and write_batch.                                        *)

\* A caller enters with a batch of samples nobody has submitted before;
\* write is the batch of one item.
Call(w) ==
    /\ wpc[w] = "idle"
    /\ \E b \in Batches :
          /\ BatchSamples(b) \cap submitted = {}
          /\ submitted' = submitted \cup BatchSamples(b)
          /\ batch' = [batch EXCEPT ![w] = b]
          /\ req' = [req EXCEPT ![w] = BatchPoints(b)]
    /\ wpc' = [wpc EXCEPT ![w] = "lookup"]
    /\ count' = [count EXCEPT ![w] = 0]
    /\ UNCHANGED <<store, blocks, todo, acked, flusher, faults, restarts>>

\* get_or_create_series looks for the series under the read lock ...
Lookup(w) ==
    /\ wpc[w] = "lookup"
    /\ wpc' = [wpc EXCEPT ![w] =
                 IF Head(batch[w]).series \in series THEN "log" ELSE "create"]
    /\ UNCHANGED <<store, blocks, batch, todo, count, req, submitted, acked,
                   flusher, faults, restarts>>

\* The call gives up: `?` returns the error, what was done stays done.
Fail(w) ==
    /\ wpc' = [wpc EXCEPT ![w] = "idle"]
    /\ batch' = [batch EXCEPT ![w] = <<>>]
    /\ todo' = [todo EXCEPT ![w] = {}]
    /\ req' = [req EXCEPT ![w] = {}]
    /\ UNCHANGED <<count, submitted, acked>>

\* Seeded fault: add_series without its capacity test.
CreateUnchecked(w) ==
    /\ wpc[w] = "create"
    /\ series' = series \cup {Head(batch[w]).series}
    /\ index' = index \cup {Head(batch[w]).series}
    /\ wpc' = [wpc EXCEPT ![w] = "log"]
    /\ UNCHANGED <<head, wal, stats, blocks, batch, todo, count, req,
                   submitted, acked, flusher, faults, restarts>>

\* ... and add_series inserts it under the write lock, taken afterwards: the
\* capacity test comes first, before the test for an entry made meanwhile.
\* Both the map and the index change before the lock is released.
Create(w) ==
    /\ wpc[w] = "create"
    /\ Cardinality(series) < MaxSeries
    /\ series' = series \cup {Head(batch[w]).series}
    /\ index' = IF Head(batch[w]).series \in series
                THEN index ELSE index \cup {Head(batch[w]).series}
    /\ wpc' = [wpc EXCEPT ![w] = "log"]
    /\ UNCHANGED <<head, wal, stats, blocks, batch, todo, count, req,
                   submitted, acked, flusher, faults, restarts>>

StorageFull(w) ==
    /\ wpc[w] = "create"
    /\ Cardinality(series) >= MaxSeries
    /\ Fail(w)
    /\ UNCHANGED <<store, blocks, flusher, faults, restarts>>

\* Where the loop over items goes when samples t of the current item remain.
AfterItem(b, t) == IF t # {} THEN "add"
                   ELSE IF Len(b) > 1 THEN "lookup" ELSE "stats"

\* The samples of the current item are queued for the head.
StartAdding(w, it) ==
    /\ todo' = [todo EXCEPT ![w] = it.samples]
    /\ count' = [count EXCEPT ![w] = @ + Cardinality(it.samples)]
    /\ wpc' = [wpc EXCEPT ![w] = AfterItem(batch[w], it.samples)]
    /\ batch' = [batch EXCEPT ![w] = IF it.samples = {} THEN Tail(@) ELSE @]

\* wal.log_write, then the sort: the samples are added in ascending order.
Log(w) ==
    /\ wpc[w] = "log"
    /\ wal' = IF WalEnabled THEN wal \cup ItemPoints(Head(batch[w])) ELSE wal
    /\ StartAdding(w, Head(batch[w]))
    /\ UNCHANGED <<head, series, index, stats, blocks, req, submitted, acked,
                   flusher, faults, restarts>>

\* Seeded fault: the error of log_write is ignored.
LogFailsIgnored(w) ==
    /\ wpc[w] = "log" /\ WalEnabled /\ faults < MaxFaults
    /\ faults' = faults + 1
    /\ StartAdding(w, Head(batch[w]))
    /\ UNCHANGED <<store, blocks, req, submitted, acked, flusher, restarts>>

\* A failed log_write fails the call; the entry is not in the log.
LogFails(w) ==
    /\ wpc[w] = "log" /\ WalEnabled /\ faults < MaxFaults
    /\ faults' = faults + 1
    /\ Fail(w)
    /\ UNCHANGED <<store, blocks, flusher, restarts>>

\* HeadBlock::add_sample takes the write lock once per sample.
AddSample(w) ==
    /\ wpc[w] = "add"
    /\ Head(batch[w]).series \in series
    /\ \E x \in todo[w] :
          /\ \A y \in todo[w] : x <= y
          /\ head' = head \cup {<<Head(batch[w]).series, x>>}
          /\ todo' = [todo EXCEPT ![w] = @ \ {x}]
          /\ wpc' = [wpc EXCEPT ![w] = AfterItem(batch[w], todo[w] \ {x})]
          /\ batch' = [batch EXCEPT ![w] =
                         IF todo[w] = {x} THEN Tail(@) ELSE @]
    /\ UNCHANGED <<series, index, wal, stats, blocks, count, req, submitted,
                   acked, flusher, faults, restarts>>

\* The flush task removed the series between two samples: the call returns
\* SeriesNotFound and its remaining samples are only in the log.
SeriesNotFound(w) ==
    /\ wpc[w] = "add"
    /\ Head(batch[w]).series \notin series
    /\ Fail(w)
    /\ UNCHANGED <<store, blocks, flusher, faults, restarts>>

\* The counters are updated once per call; then the call returns Ok.
Return(w) ==
    /\ wpc[w] = "stats"
    /\ stats' = stats + count[w]
    /\ acked' = acked \cup req[w]
    /\ wpc' = [wpc EXCEPT ![w] = "idle"]
    /\ req' = [req EXCEPT ![w] = {}]
    /\ UNCHANGED <<head, series, index, wal, blocks, batch, todo, count,
                   submitted, flusher, faults, restarts>>

-----------------------------------------------------------------------------
(* FlushManager.                                                           *)

\* trigger_flush and shutdown: try_send fails without effect when the
\* channel is full or the task has ended.
Send(c) ==
    /\ Len(cmds) < QueueCap
    /\ fpc # "stopped"
    /\ cmds' = Append(cmds, c)
    /\ UNCHANGED <<store, blocks, writer, fpc, ids, unread, buf, final, faults,
                   restarts>>

TriggerFlush == Send("Flush")
Shutdown     == Send("Shutdown")

\* The select! of run: an interval tick, or the oldest command.
Tick ==
    /\ fpc = "idle"
    /\ fpc' = "check"
    /\ UNCHANGED <<store, blocks, writer, ids, unread, buf, final, cmds, faults,
                   restarts>>

Recv ==
    /\ fpc = "idle" /\ cmds # <<>>
    /\ fpc' = "check"
    /\ final' = (Head(cmds) = "Shutdown")
    /\ cmds' = Tail(cmds)
    /\ UNCHANGED <<store, blocks, writer, ids, unread, buf, faults, restarts>>

\* check_and_flush returns, with or without an error: the loop goes on, or
\* ends if this was the final flush; the receiver is then dropped.
FlushReturns ==
    /\ fpc' = IF final THEN "stopped" ELSE "idle"
    /\ cmds' = IF final THEN <<>> ELSE cmds
    /\ ids' = {} /\ unread' = {} /\ buf' = {}
    /\ UNCHANGED final

\* stats.total_samples, which nothing ever resets, against the threshold.
CheckSkips ==
    /\ fpc = "check" /\ stats < Threshold
    /\ FlushReturns
    /\ UNCHANGED <<store, blocks, writer, faults, restarts>>

\* get_all_series_ids reads the index without the series lock.
Snapshot ==
    /\ fpc = "check" /\ stats >= Threshold
    /\ ids' = index /\ unread' = index /\ buf' = {}
    /\ fpc' = "read"
    /\ UNCHANGED <<store, blocks, writer, final, cmds, faults, restarts>>

\* get_series copies one series; a read lock is held only for the copy.
ReadSeries ==
    /\ fpc = "read"
    /\ \E s \in unread :
          /\ unread' = unread \ {s}
          /\ buf' = buf \cup {p \in head : p[1] = s}
    /\ UNCHANGED <<store, blocks, writer, fpc, ids, final, cmds, faults, restarts>>

\* Nothing was copied: the whole blocks directory is removed, with every
\* block that earlier flushes wrote.
RemoveBlocksDir ==
    /\ fpc = "read" /\ unread = {} /\ buf = {}
    /\ blocks' = <<>>
    /\ FlushReturns
    /\ UNCHANGED <<store, writer, faults, restarts>>

\* BlockWriter::write; meta.json comes last, so the block is there or not.
WriteBlock ==
    /\ fpc = "read" /\ unread = {} /\ buf # {}
    /\ blocks' = Append(blocks, buf)
    /\ fpc' = "sync"
    /\ UNCHANGED <<store, writer, ids, unread, buf, final, cmds, faults, restarts>>

\* Seeded fault: a failed write of the block is logged and the flush goes on.
FlushFailsGoesOn ==
    /\ fpc = "read" /\ unread = {}
    /\ faults < MaxFaults
    /\ faults' = faults + 1
    /\ fpc' = "sync"
    /\ UNCHANGED <<store, blocks, writer, ids, unread, buf, final, cmds, restarts>>

\* Seeded fault: an error of the final flush goes back to the loop.
FlushFailsLoops ==
    /\ fpc = "read" /\ unread = {}
    /\ faults < MaxFaults
    /\ faults' = faults + 1
    /\ fpc' = "idle" /\ final' = FALSE
    /\ ids' = {} /\ unread' = {} /\ buf' = {}
    /\ UNCHANGED <<store, blocks, writer, cmds, restarts>>

\* A file operation of the flush fails: `?` leaves check_and_flush.  Before
\* the block is complete nothing has changed; after it the block stays, and
\* so do the series in the head.
FlushFails ==
    /\ \/ fpc = "check" /\ stats >= Threshold
       \/ fpc = "read" /\ unread = {}
       \/ fpc = "sync" /\ WalEnabled
    /\ faults < MaxFaults
    /\ faults' = faults + 1
    /\ FlushReturns
    /\ UNCHANGED <<store, blocks, writer, restarts>>

\* memstore.flush syncs the log; the points in it do not change.
SyncWal ==
    /\ fpc = "sync"
    /\ fpc' = "remove"
    /\ UNCHANGED <<store, blocks, writer, ids, unread, buf, final, cmds, faults,
                   restarts>>

\* Seeded fault: the flushed series stay in the head.
RemoveNothing ==
    /\ fpc = "remove"
    /\ FlushReturns
    /\ UNCHANGED <<store, blocks, writer, faults, restarts>>

\* remove_series_batch drops the snapshotted series with everything they
\* hold by now, under one write lock.
RemoveSeries ==
    /\ fpc = "remove"
    /\ head' = {p \in head : p[1] \notin ids}
    /\ series' = series \ ids
    /\ index' = index \ ids
    /\ FlushReturns
    /\ UNCHANGED <<wal, stats, blocks, writer, faults, restarts>>

-----------------------------------------------------------------------------

\* Seeded fault: the segment is truncated when the log is opened.
RestartTruncates ==
    /\ restarts < MaxRestarts
    /\ restarts' = restarts + 1
    /\ head' = {} /\ series' = {} /\ index' = {} /\ stats' = 0 /\ wal' = {}
    /\ wpc' = [w \in Writers |-> "idle"]
    /\ batch' = [w \in Writers |-> <<>>]
    /\ todo' = [w \in Writers |-> {}]
    /\ count' = [w \in Writers |-> 0]
    /\ req' = [w \in Writers |-> {}]
    /\ fpc' = "idle" /\ ids' = {} /\ unread' = {} /\ buf' = {}
    /\ final' = FALSE /\ cmds' = <<>>
    /\ UNCHANGED <<blocks, submitted, acked, faults>>

\* The process dies and a new one opens the same directories: ServerState::new
\* makes an empty MemStore and an idle flush task.  The log and the blocks are
\* as they were left; MemStore::new opens the log and reads nothing from it.
Restart ==
    /\ restarts < MaxRestarts
    /\ restarts' = restarts + 1
    /\ head' = {} /\ series' = {} /\ index' = {} /\ stats' = 0
    /\ wpc' = [w \in Writers |-> "idle"]
    /\ batch' = [w \in Writers |-> <<>>]
    /\ todo' = [w \in Writers |-> {}]
    /\ count' = [w \in Writers |-> 0]
    /\ req' = [w \in Writers |-> {}]
    /\ fpc' = "idle" /\ ids' = {} /\ unread' = {} /\ buf' = {}
    /\ final' = FALSE /\ cmds' = <<>>
    /\ UNCHANGED <<wal, blocks, submitted, acked, faults>>

WriterStep(w) ==
    \/ Lookup(w) \/ Create(w) \/ StorageFull(w) \/ Log(w) \/ LogFails(w)
    \/ AddSample(w) \/ SeriesNotFound(w) \/ Return(w)

FlushStep ==
    \/ CheckSkips \/ Snapshot \/ ReadSeries \/ RemoveBlocksDir \/ WriteBlock
    \/ FlushFails \/ SyncWal \/ RemoveSeries

Next ==
    \/ \E w \in Writers : Call(w) \/ WriterStep(w)
    \/ TriggerFlush \/ Shutdown \/ Tick \/ Recv \/ FlushStep
    \/ Restart

Spec == Init /\ [][Next]_vars

\* The threads and the flush task keep running, and select!, which polls its
\* branches in random order, does not pass over a waiting command for ever.
\* Nothing is assumed of callers, ticks, failures or crashes.
FairSpec ==
    /\ Spec
    /\ \A w \in Writers : WF_vars(WriterStep(w))
    /\ WF_vars(FlushStep)
    /\ SF_vars(Recv)

-----------------------------------------------------------------------------

WriterPc == {"idle", "lookup", "create", "log", "add", "stats"}
FlushPc  == {"idle", "check", "read", "sync", "remove", "stopped"}

\* Every variable holds a value of its type (the state of MemStore, of
\* FlushManager and of the calls in progress).
TypeOK ==
    /\ head \subseteq Point /\ wal \subseteq Point /\ acked \subseteq Point
    /\ series \subseteq Series /\ index \subseteq Series
    /\ stats \in Nat
    /\ blocks \in Seq(SUBSET Point)
    /\ wpc \in [Writers -> WriterPc]
    /\ batch \in [Writers -> Seq(Item)]
    /\ todo \in [Writers -> SUBSET Samples]
    /\ count \in [Writers -> Nat]
    /\ req \in [Writers -> SUBSET Point]
    /\ fpc \in FlushPc
    /\ ids \subseteq Series /\ unread \subseteq ids /\ buf \subseteq Point
    /\ final \in BOOLEAN
    /\ cmds \in Seq({"Flush", "Shutdown"})
    /\ submitted \subseteq Samples
    /\ faults \in Nat /\ restarts \in Nat

\* The write-ahead rule of store.rs: with a log, nothing is in the head, in
\* the flush task's copy or in a block that the log does not hold, whatever
\* the writers and the flush task interleave and whatever fails.
WriteAhead == WalEnabled => head \cup buf \cup Persisted \subseteq wal

\* An Ok from write or write_batch means every sample of the call, of every
\* item of the batch, is in the log.
AckedLogged == WalEnabled => acked \subseteq wal

\* HeadBlock and InvertedIndex name the same series, and no chunk outlives
\* its series: the flush task, which enumerates the index, misses nothing.
HeadIndexAgree ==
    /\ index = series
    /\ \A p \in head : p[1] \in series

\* The head never holds more than max_series series, although the lookup and
\* the insertion take the lock separately.
SeriesBound == Cardinality(series) <= MaxSeries

\* While no file operation fails, a sample is in one block at most, and in
\* both the head and a block only between the writing of the block and the
\* removal of its series from the head: neither a flush nor a crash in the
\* middle of one makes a sample count twice.
NoDuplicates ==
    faults = 0 =>
      /\ \A i, j \in 1..Len(blocks) : i # j => blocks[i] \cap blocks[j] = {}
      /\ fpc \notin {"sync", "remove"} => head \cap Persisted = {}
      /\ fpc \in {"sync", "remove"} =>
            blocks # <<>> /\ head \cap Persisted \subseteq buf

\* A point leaves the head only into a block, or with a crash, or because it
\* was added to a series after the running flush had copied that series: of
\* what flush_memstore copied, it removes nothing that is not on disk.
FlushRemovesOnlyCopied ==
    [][\A p \in head \ head' :
          \/ p \in Persisted'
          \/ fpc = "remove" /\ p \notin buf
          \/ restarts' # restarts]_vars

\* The strengthening that makes the safety properties inductive.  A call has
\* unfinished items exactly while it is between its start and its return;
\* what a writer adds to the head next is an item that is in the log; what a
\* call carries is in the log or still in its batch; and from the writing of
\* the block to the removal, the flush task's copy is on disk.
BatchShape ==
    \A w \in Writers :
        wpc[w] \in {"lookup", "create", "log", "add"} <=> batch[w] # <<>>

AddingLogged ==
    WalEnabled =>
      \A w \in Writers : wpc[w] = "add" =>
          /\ todo[w] \subseteq Head(batch[w]).samples
          /\ ItemPoints(Head(batch[w])) \subseteq wal

LoggedOrPending ==
    WalEnabled => \A w \in Writers : req[w] \subseteq wal \cup BatchPoints(batch[w])

CopyOnDisk == fpc \in {"sync", "remove"} => buf \subseteq Persisted

\* Every call of write and write_batch returns, even while the flush task
\* keeps removing the series it writes to.
CallsReturn == \A w \in Writers : wpc[w] # "idle" ~> wpc[w] = "idle"

\* A Shutdown command that was accepted ends the flush task, whatever ticks,
\* commands, flushes and failures come before it (in runs without crashes: a
\* crash takes the channel with it).
ShutdownStops ==
    (\E i \in 1..Len(cmds) : cmds[i] = "Shutdown") ~> fpc = "stopped"

\* What the documentation says of a flush (docs/Next-Steps-Plan.md): the data
\* that flush_memstore takes out of the head is on disk.
AckedFlushed == [][acked \cap (head \ head') \subseteq Persisted']_vars

\* What the log promises the head and the callers: nothing is stored or
\* acknowledged that it does not hold, in states of the right type.
LoggedFirst == TypeOK /\ WriteAhead /\ AckedLogged

\* The write path implements a durable log: every step of a writer, of the
\* flush task or of a crash appends to the log, changes what the store holds
\* within the log, acknowledges what is logged, or changes nothing a caller
\* can see (MemStore::write logs before it stores, and returns after both).
Promise == INSTANCE DurableLog
             WITH logged <- IF WalEnabled THEN wal ELSE Point, held <- head \cup Persisted
ImplementsLog == Promise!Spec

\* The head block under concurrent creation and removal of series: it agrees
\* with its index and stays within max_series.
HeadSound == HeadIndexAgree /\ SeriesBound

\* No call waits for ever: writers return, and a shutdown ends the flush task.
AllReturn == CallsReturn /\ ShutdownStops
=============================================================================
