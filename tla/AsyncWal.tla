------------------------------ MODULE AsyncWal ------------------------------
(***************************************************************************)
(* AsyncWalWriter behind SharedAsyncWalWriter, storage/src/wal/async_writer.rs: *)
(* entries gather in pending_batch, a full batch goes into a BufWriter, and  *)
(* the buffer into the segment file when it overflows or is flushed.  Every  *)
(* call runs under the mutex from its first line to its last.  Entries have  *)
(* one size; an entry is the number of the write call that made it.          *)
(***************************************************************************)
EXTENDS Integers, Sequences, SequencesExt, FiniteSets

CONSTANTS
  BatchSize,      \* AsyncWalConfig.batch_size
  BufferEntries,  \* buffer_size in entries
  AsyncSegment,   \* max_segment_entries
  AsyncWrites,    \* bound on the entries written
  AsyncRestarts   \* bound on the crashes

ASSUME AsyncAssumption == {BatchSize, BufferEntries, AsyncSegment} \subseteq Nat \ {0}

VARIABLES
  aw,        \* the writer: [pending, buffer, segment, entries, expired]
  files,     \* segment -> the entries in its file
  awSynced,  \* segment -> how many of them are on stable storage
  awNext,    \* entries written so far
  replaced,  \* entries in a buffer that a rotation replaced
  crashedAw, \* entries of earlier lives of the process, on disk or not
  promised,  \* entries in the segment a sync has covered
  restarts
awVars == <<aw, files, awSynced, awNext, replaced, crashedAw, promised, restarts>>

\* segment_created_at is 0 when the directory holds no segment or only segment 0,
\* and the first batch rotates by time.
Opened(segment, entries) ==
  [pending |-> <<>>, buffer |-> <<>>, segment |-> segment, entries |-> entries,
   expired |-> segment = 0]

AwInit ==
  /\ aw = Opened(0, 0)
  /\ files = [k \in {0} |-> <<>>]
  /\ awSynced = [k \in {0} |-> 0]
  /\ awNext = 0
  /\ replaced = {} /\ crashedAw = {} /\ promised = {}
  /\ restarts = 0

\* The state a call works on: the writer, the files and what was lost.
State == [w |-> aw, files |-> files, synced |-> awSynced, replaced |-> replaced]
Adopt(s) == aw' = s.w /\ files' = s.files /\ awSynced' = s.synced /\ replaced' = s.replaced

\* What is not in a file yet, in the order in which it came.
Waiting(w) == w.buffer \o w.pending

\* The writer becomes w, and more is appended to its segment.
Written(s, w, more) ==
  [w |-> w, files |-> [s.files EXCEPT ![w.segment] = @ \o more],
   synced |-> s.synced, replaced |-> s.replaced]

Spill(s) == Written(s, [s.w EXCEPT !.buffer = <<>>], s.w.buffer)

\* BufWriter::write_all, one item after the other: an item that does not fit
\* pushes out the whole buffer, so that of n entries the last 1..BufferEntries stay.
PushedOut(n) == IF n = 0 THEN 0 ELSE BufferEntries * ((n - 1) \div BufferEntries)

should_rotate(w) == w.entries >= AsyncSegment \/ w.expired

flush_batch(s) ==
  LET all == Waiting(s.w)
      out == PushedOut(Len(all))
  IN  Written(s, [s.w EXCEPT !.buffer = SubSeq(all, out + 1, Len(all)), !.pending = <<>>,
                             !.entries = s.w.entries + Len(s.w.pending)],
              SubSeq(all, 1, out))

\* The old BufWriter is dropped with whatever it still holds.
rotate_inner(s) ==
  LET k == s.w.segment + 1
  IN  [w |-> [s.w EXCEPT !.segment = k, !.entries = 0, !.buffer = <<>>, !.expired = FALSE],
       files |-> [j \in DOMAIN s.files \cup {k} |-> IF j = k THEN <<>> ELSE s.files[j]],
       synced |-> [j \in DOMAIN s.synced \cup {k} |-> IF j = k THEN 0 ELSE s.synced[j]],
       replaced |-> s.replaced \cup ToSet(s.w.buffer)]

\* while flush_batch()? { rotate_inner()? }: the second round finds no batch.
FlushAndRotate(s) ==
  IF s.w.pending = <<>> THEN s
  ELSE LET t == flush_batch(s) IN IF should_rotate(t.w) THEN rotate_inner(t) ELSE t

\* Mutant: the buffer is flushed and the file not synced.
MutSyncAll(s) == Spill(s)

SyncAll(s) ==
  LET t == Spill(s)
  IN  [t EXCEPT !.synced = [t.synced EXCEPT ![t.w.segment] = Len(t.files[t.w.segment])]]

write ==
  LET s == [State EXCEPT !.w = [aw EXCEPT !.pending = Append(aw.pending, awNext + 1)]]
  IN  /\ awNext < AsyncWrites
      /\ awNext' = awNext + 1
      /\ Adopt(IF Len(s.w.pending) >= BatchSize THEN FlushAndRotate(s) ELSE s)
      /\ UNCHANGED <<crashedAw, promised, restarts>>

sync ==
  /\ Adopt(SyncAll(FlushAndRotate(State)))
  /\ promised' = promised \cup ToSet(files'[aw'.segment])
  /\ UNCHANGED <<awNext, crashedAw, restarts>>

\* SharedAsyncWalWriter::flush: the answer that a rotation is due is dropped.
flush ==
  /\ Adopt(flush_batch(State))
  /\ UNCHANGED <<awNext, crashedAw, promised, restarts>>

rotate ==
  /\ Len(files[aw.segment]) + Len(aw.buffer) + Len(aw.pending) > 0
  /\ Adopt(rotate_inner(SyncAll(FlushAndRotate(State))))
  /\ UNCHANGED <<awNext, crashedAw, promised, restarts>>

\* The machine stops: files keep at least what was synced.  with_config opens the
\* last segment for appending and estimates its entries from its size.
Restart ==
  /\ restarts < AsyncRestarts
  /\ restarts' = restarts + 1
  /\ \E torn \in SUBSET DOMAIN files :
       /\ files' = [k \in DOMAIN files |->
                      IF k \in torn THEN SubSeq(files[k], 1, awSynced[k]) ELSE files[k]]
       /\ awSynced' = [k \in DOMAIN files |-> Len(files'[k])]
  /\ aw' = Opened(aw.segment, 0)
  /\ crashedAw' = 1..awNext
  /\ UNCHANGED <<awNext, replaced, promised>>

AwNext == write \/ sync \/ flush \/ rotate \/ Restart
AwSpec == AwInit /\ [][AwNext]_awVars

-----------------------------------------------------------------------------
\* The entries of each segment, those the buffer and the batch would add to the
\* last one included.
Everything ==
  [k \in DOMAIN files |-> IF k = aw.segment THEN files[k] \o Waiting(aw) ELSE files[k]]
Kept == UNION {ToSet(Everything[k]) : k \in DOMAIN files}

\* Until the process stops, an entry whose write returned waits in the batch, is
\* in the buffer, is in a file, or was in the buffer of a segment that an
\* automatic rotation closed (rotate_inner does not flush): there is no other way
\* to lose it.
AsyncAccounted ==
  /\ (1..awNext) \ crashedAw \subseteq Kept \cup replaced
  /\ Kept \cap replaced = {}

\* Files and buffers hold each entry once and in the order of the writes, across
\* rotations, overflows of the buffer and restarts.
AsyncOrdered ==
  \A k, l \in DOMAIN files : \A i \in DOMAIN Everything[k], j \in DOMAIN Everything[l] :
    k < l \/ (k = l /\ i < j) => Everything[k][i] < Everything[l][j]

\* What was in the segment a sync covered survives any later crash; the segment
\* that an automatic rotation closed is never synced, and an entry the rotation
\* threw away is not covered by the sync that returns behind it.
PromisedIsDurable ==
  \A e \in promised :
    \E k \in DOMAIN files : \E i \in 1..awSynced[k] : files[k][i] = e

\* What the buffered log keeps, in which order, and what a sync promises.
AsyncLogSound == AsyncAccounted /\ AsyncOrdered /\ PromisedIsDurable
=============================================================================
