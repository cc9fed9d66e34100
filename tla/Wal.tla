--------------------------------- MODULE Wal ---------------------------------
(***************************************************************************)
(* The segmented write-ahead log (storage/src/wal/writer.rs, reader.rs,    *)
(* mod.rs): appending under the writer's mutex, rotation, reopening after  *)
(* a crash, the cleanup of old segments, which takes no lock, and what     *)
(* Wal::recover reads back.                                                *)
(*                                                                         *)
(* An entry is a positive number, in the order of the log_write calls.  A  *)
(* segment is a header and a sequence of records; a record is an entry or  *)
(* what is left of one.  The sequence numbers in front of the entries are  *)
(* written and never interpreted; they are left out.                       *)
(***************************************************************************)
EXTENDS Integers, Sequences, FiniteSets

CONSTANTS
    MaxEntries,      \* bound: log_write calls
    SegmentEntries,  \* WalSegmentConfig::max_segment_entries
    MinKeep,         \* WalConfig::min_segments_to_keep
    MaxSegment,      \* bound: explicit rotations stop at this segment
    MaxFaults,       \* bound: file operations that fail
    MaxCrashes,      \* bound: crashes of the process
    MaxPowerFailures \* bound: crashes of the machine

ASSUME WalBounds ==
    /\ MaxEntries \in Nat /\ SegmentEntries \in Nat \ {0}
    /\ MinKeep \in Nat \ {0} /\ MaxSegment \in Nat
    /\ MaxFaults \in Nat /\ MaxCrashes \in Nat /\ MaxPowerFailures \in Nat

VARIABLES
    segs,      \* the segment files: id -> [hdr, recs]
    synced,    \* id -> records on stable storage; -1 if not even the header is
    cur,       \* id of the file the writer appends to
    seg,       \* current_segment
    count,     \* current_entries
    phase,     \* where the call that holds the mutex is
    entry,     \* the entry it writes; 0 for an explicit rotate
    next,      \* entries submitted so far
    acked,     \* history: entries whose log_write returned Ok
    todo,      \* segments the running cleanup has not looked at
    left,      \* total_segments - deleted_count of the running cleanup
    cleaned,   \* history: entries in segments that cleanup deleted
    doomed,    \* history: entries lost with a machine that crashed
    faults, crashes, powerFailures

writer  == <<segs, synced, cur, seg, count, phase, entry, next, acked>>
cleanup == <<todo, left, cleaned>>
budget  == <<faults, crashes, powerFailures>>
vars == <<writer, cleanup, doomed, budget>>

Ids == DOMAIN segs

\* What is left of an entry: at least its eight sequence bytes, or fewer.
LongTorn  == -1
ShortTorn == 0

Fresh == [hdr |-> "ok", recs |-> <<>>]

\* The entries among a sequence of records, and those in all files.
Entries(recs) == {recs[i] : i \in {j \in 1..Len(recs) : recs[j] > 0}}
OnDisk == UNION {Entries(segs[k].recs) : k \in Ids}

Greatest(S) == CHOOSE m \in S : \A k \in S : k <= m

Init ==
    /\ segs = [k \in {0} |-> Fresh] /\ synced = [k \in {0} |-> -1]
    /\ cur = 0 /\ seg = 0 /\ count = 0
    /\ phase = "free" /\ entry = 0 /\ next = 0 /\ acked = {}
    /\ todo = {} /\ left = 0 /\ cleaned = {} /\ doomed = {}
    /\ faults = 0 /\ crashes = 0 /\ powerFailures = 0

-----------------------------------------------------------------------------
(* WalWriter.  The mutex of Wal makes each call exclusive; its file        *)
(* operations are separate steps, because a crash can fall between them.   *)

\* The records of the file the writer has open.  Cleanup may have unlinked
\* it: what is written then cannot be found again.
Recs == IF cur \in Ids THEN segs[cur].recs ELSE <<>>
Put(recs) == IF cur \in Ids THEN [segs EXCEPT ![cur].recs = recs] ELSE segs
SyncCur == IF cur \in Ids THEN [synced EXCEPT ![cur] = Len(Recs)] ELSE synced

\* The buffered writer has handed over the sequence bytes of an entry larger
\* than its buffer, and not yet the entry itself.
LogBegin ==
    /\ phase = "free" /\ next < MaxEntries
    /\ next' = next + 1 /\ entry' = next + 1
    /\ segs' = Put(Append(Recs, LongTorn))
    /\ phase' = "data"
    /\ UNCHANGED <<synced, cur, seg, count, acked, cleanup, doomed, budget>>

\* The call releases the mutex and returns Ok.
Done ==
    /\ phase' = "free"
    /\ acked' = IF entry = 0 THEN acked ELSE acked \cup {entry}

\* The rest of the entry, then should_rotate: the limit on entries is
\* counted, the limits on size and age may strike at any entry.
LogEnd ==
    /\ phase = "data"
    /\ segs' = Put(IF Recs = <<>> THEN <<>>
                   ELSE [Recs EXCEPT ![Len(Recs)] = entry])
    /\ count' = count + 1
    /\ \/ count + 1 < SegmentEntries /\ Done
       \/ phase' = "rotate" /\ acked' = acked
    /\ UNCHANGED <<synced, cur, seg, entry, next, cleanup, doomed, budget>>

\* The file operation fails: what reached the file stays there.
LogFails ==
    /\ phase = "data" /\ faults < MaxFaults
    /\ faults' = faults + 1
    /\ phase' = "free"
    /\ UNCHANGED <<segs, synced, cur, seg, count, entry, next, acked, cleanup,
                   doomed, crashes, powerFailures>>

\* Wal::rotate, the public call.
RotateCall ==
    /\ phase = "free" /\ seg < MaxSegment
    /\ phase' = "rotate" /\ entry' = 0
    /\ UNCHANGED <<segs, synced, cur, seg, count, next, acked, cleanup, doomed,
                   budget>>

\* rotate syncs the old segment and creates the new file (create_new) ...
RotateCreate ==
    /\ phase = "rotate"
    /\ seg + 1 \notin Ids
    /\ seg' = seg + 1 /\ count' = 0
    /\ segs' = [k \in Ids \cup {seg + 1} |->
                  IF k = seg + 1 THEN [hdr |-> "none", recs |-> <<>>] ELSE segs[k]]
    /\ synced' = [k \in Ids \cup {seg + 1} |-> IF k = seg + 1 THEN -1 ELSE SyncCur[k]]
    /\ phase' = "header"
    /\ UNCHANGED <<cur, entry, next, acked, cleanup, doomed, budget>>

\* ... then writes its header and switches over.
RotateHeader ==
    /\ phase = "header"
    /\ segs' = IF seg \in Ids THEN [segs EXCEPT ![seg].hdr = "ok"] ELSE segs
    /\ cur' = seg
    /\ Done
    /\ UNCHANGED <<synced, seg, count, entry, next, cleanup, doomed, budget>>

\* A failed rotation returns an error although the entry is in the log; the
\* counters may have moved on while the writer still has the old file.
RotateFails ==
    /\ faults < MaxFaults
    /\ faults' = faults + 1
    /\ \/ phase = "rotate" /\ UNCHANGED <<synced, seg, count>>
       \/ phase = "rotate" /\ synced' = SyncCur /\ seg' = seg + 1 /\ count' = 0
       \/ phase = "header" /\ UNCHANGED <<synced, seg, count>>
    /\ phase' = "free"
    /\ UNCHANGED <<segs, cur, entry, next, acked, cleanup, doomed, crashes,
                   powerFailures>>

Sync ==
    /\ phase = "free"
    /\ synced' = SyncCur
    /\ UNCHANGED <<segs, cur, seg, count, phase, entry, next, acked, cleanup,
                   doomed, budget>>

-----------------------------------------------------------------------------
(* Crashes.  WalWriter::with_config opens the segment with the greatest id  *)
(* for appending and writes a header if the file is new or empty.           *)

\* Seeded fault: find_latest_segment keeps the first segment it meets.
ReopenFirst(S) ==
    LET m == CHOOSE m \in DOMAIN S : \A k \in DOMAIN S : m <= k IN
    /\ segs' = S
    /\ synced' = [k \in DOMAIN S |-> synced[k]]
    /\ cur' = m /\ seg' = m
    /\ count' \in 0..Len(S[m].recs)
    /\ phase' = "free" /\ entry' = 0 /\ todo' = {} /\ left' = 0

\* Seeded fault: the latest segment is opened with truncation.
ReopenTruncates(S) ==
    LET m == Greatest(DOMAIN S) IN
    /\ segs' = [S EXCEPT ![m] = Fresh]
    /\ synced' = [k \in DOMAIN S |-> synced[k]]
    /\ cur' = m /\ seg' = m /\ count' = 0
    /\ phase' = "free" /\ entry' = 0 /\ todo' = {} /\ left' = 0

\* The number of entries is estimated from the file's size.
Reopen(S) ==
    LET m == IF DOMAIN S = {} THEN 0 ELSE Greatest(DOMAIN S)
        isNew == m \notin DOMAIN S \/ S[m].hdr = "none"
        D == DOMAIN S \cup {m} IN
    /\ segs' = [k \in D |-> IF k = m /\ isNew THEN Fresh ELSE S[k]]
    /\ synced' = [k \in D |-> IF k = m /\ isNew THEN -1 ELSE synced[k]]
    /\ cur' = m /\ seg' = m
    /\ count' \in 0..(IF isNew THEN 0 ELSE Len(S[m].recs))
    /\ phase' = "free" /\ entry' = 0 /\ todo' = {} /\ left' = 0

\* The process dies: the operating system has what was handed to it.
Crash ==
    /\ crashes < MaxCrashes
    /\ crashes' = crashes + 1
    /\ Reopen(segs)
    /\ UNCHANGED <<next, acked, cleaned, doomed, faults, powerFailures>>

Unsynced == {k \in Ids : synced[k] < Len(segs[k].recs)}

\* What may be left of segment k when n of its records survive (-1: not even
\* the header) and tail follows them.
Survivor(k, n, tail) ==
    IF n = -1 THEN [hdr |-> IF tail = <<>> THEN "none" ELSE "torn", recs |-> <<>>]
    ELSE [hdr |-> segs[k].hdr,
          recs |-> SubSeq(segs[k].recs, 1, n)
                     \o (IF n < Len(segs[k].recs) THEN tail ELSE <<>>)]

\* The machine dies: of what was not synced any prefix survives, perhaps with
\* a piece of the next record.
PowerFailure ==
    /\ powerFailures < MaxPowerFailures
    /\ powerFailures' = powerFailures + 1
    /\ \E keep \in [Unsynced -> -1..MaxEntries],
          tail \in {<<>>, <<ShortTorn>>, <<LongTorn>>} :
          /\ \A k \in Unsynced : synced[k] <= keep[k] /\ keep[k] <= Len(segs[k].recs)
          /\ Reopen([k \in Ids |-> IF k \in Unsynced THEN Survivor(k, keep[k], tail)
                                   ELSE segs[k]])
    /\ doomed' = doomed \cup (OnDisk \ OnDisk')
    /\ UNCHANGED <<next, acked, cleaned, faults, crashes>>

-----------------------------------------------------------------------------
(* Wal::cleanup_old_segments, concurrent with the writer.                   *)

\* The segments are listed once, oldest first.
CleanupStart ==
    /\ todo = {} /\ Cardinality(Ids) > MinKeep
    /\ todo' = Ids /\ left' = Cardinality(Ids)
    /\ UNCHANGED <<writer, cleaned, doomed, budget>>

\* The list is sorted by creation time.
Oldest == CHOOSE k \in todo : \A j \in todo : k <= j

\* Seeded fault: the test for the minimum is off by one.
CleanupDeleteOneMore ==
    /\ todo # {} /\ left >= MinKeep
    /\ cleaned' = cleaned \cup (IF Oldest \in Ids THEN Entries(segs[Oldest].recs) ELSE {})
    /\ segs' = [k \in Ids \ {Oldest} |-> segs[k]]
    /\ synced' = [k \in Ids \ {Oldest} |-> synced[k]]
    /\ todo' = todo \ {Oldest} /\ left' = left - 1
    /\ UNCHANGED <<cur, seg, count, phase, entry, next, acked, doomed, budget>>

\* The oldest listed segment exceeds the age or the size limit.
CleanupDelete ==
    /\ todo # {} /\ left > MinKeep
    /\ cleaned' = cleaned \cup (IF Oldest \in Ids THEN Entries(segs[Oldest].recs) ELSE {})
    /\ segs' = [k \in Ids \ {Oldest} |-> segs[k]]
    /\ synced' = [k \in Ids \ {Oldest} |-> synced[k]]
    /\ todo' = todo \ {Oldest} /\ left' = left - 1
    /\ UNCHANGED <<cur, seg, count, phase, entry, next, acked, doomed, budget>>

\* remove_file fails: the segment stays and is not counted.
CleanupDeleteFails ==
    /\ todo # {} /\ left > MinKeep /\ faults < MaxFaults
    /\ faults' = faults + 1
    /\ todo' = todo \ {Oldest}
    /\ UNCHANGED <<writer, left, cleaned, doomed, crashes, powerFailures>>

\* Only the minimum is left, or neither limit is exceeded; then neither is
\* for any later segment, which is younger.
CleanupStop ==
    /\ todo # {}
    /\ todo' = {} /\ left' = 0
    /\ UNCHANGED <<writer, cleaned, doomed, budget>>

-----------------------------------------------------------------------------

Next ==
    \/ LogBegin \/ LogEnd \/ LogFails
    \/ RotateCall \/ RotateCreate \/ RotateHeader \/ RotateFails \/ Sync
    \/ Crash \/ PowerFailure
    \/ CleanupStart \/ CleanupDelete \/ CleanupDeleteFails \/ CleanupStop

Spec == Init /\ [][Next]_vars

-----------------------------------------------------------------------------
(* WalReader and Wal::recover.                                              *)

\* The first incomplete record of a sequence, or one past its end.
FirstTorn(recs) ==
    LET T == {i \in 1..Len(recs) : recs[i] <= 0}
    IN  IF T = {} THEN Len(recs) + 1 ELSE CHOOSE i \in T : \A j \in T : i <= j

\* The entries read_segment is certain to return: all, if every record is
\* complete; those before a last record that ends within its sequence bytes.
\* In every other case it may return an error, and recover then skips the
\* segment: it meets the end of the file inside the record, or it takes the
\* bytes that follow for the rest of it.
read_segment(s) ==
    LET t == FirstTorn(s.recs) IN
    IF s.hdr # "ok" THEN {}
    ELSE IF t > Len(s.recs) THEN Entries(s.recs)
    ELSE IF t = Len(s.recs) /\ s.recs[t] = ShortTorn THEN Entries(SubSeq(s.recs, 1, t - 1))
    ELSE {}

recover == UNION {read_segment(segs[k]) : k \in Ids}

\* Segments that hold something recover cannot parse.
Damaged == {k \in Ids : segs[k].hdr = "torn" \/ FirstTorn(segs[k].recs) <= Len(segs[k].recs)}

-----------------------------------------------------------------------------

\* The writer, the cleanup and the files have the shape the code gives them.
TypeOK ==
    /\ Ids \subseteq Nat /\ DOMAIN synced = Ids
    /\ \A k \in Ids : /\ segs[k].hdr \in {"ok", "none", "torn"}
                      /\ segs[k].recs \in Seq(-1..MaxEntries)
                      /\ synced[k] \in -1..Len(segs[k].recs)
    /\ cur \in Nat /\ seg \in Nat /\ count \in Nat /\ next \in 0..MaxEntries
    /\ entry \in 0..MaxEntries
    /\ phase \in {"free", "data", "rotate", "header"}
    /\ acked \cup cleaned \cup doomed \subseteq 1..MaxEntries
    /\ todo \subseteq Nat /\ left \in Nat

\* create_new in rotate never meets an existing file, whatever rotations and
\* crashes came before: no segment has an id above current_segment.
NoCollision == \A k \in Ids : k <= seg

\* Entries stand in the files, segment by segment and record by record, in
\* the order in which they were logged: reopening never goes back to an
\* older segment, so recover need not reorder anything.
RecoveredInOrder ==
    \A j, k \in Ids :
        \A x \in 1..Len(segs[j].recs), y \in 1..Len(segs[k].recs) :
            (j < k \/ (j = k /\ x < y)) /\ segs[j].recs[x] > 0 /\ segs[k].recs[y] > 0
              => segs[j].recs[x] < segs[k].recs[y]

\* As long as no file operation fails, every segment the writer has left is
\* on stable storage as a whole: a power failure can only cost entries of the
\* current segment.
RotatedIsSynced ==
    faults = 0 => \A k \in Ids : k < cur => synced[k] = Len(segs[k].recs)

\* Cleanup, which neither takes the mutex nor knows the current segment,
\* does not delete the file being written, unless at least as many file
\* operations have failed as segments are kept: each failed rotation leaves
\* one younger empty file behind that counts among those kept, and so does a
\* rotation under way.
CurrentKept ==
    faults + (IF phase = "header" THEN 1 ELSE 0) < MinKeep => cur \in Ids

\* An entry whose log_write returned Ok is read back by recover, or cleanup
\* deleted it, or a power failure took it before a sync, or its segment has
\* an unreadable record.
AckedAccounted ==
    faults < MinKeep =>
      acked \subseteq recover \cup cleaned \cup doomed
                      \cup UNION {Entries(segs[k].recs) : k \in Damaged}

\* Each crash or failed operation spoils one segment at most, besides the
\* record that is just being written.
DamageBound ==
    Cardinality(Damaged) <=
      faults + crashes + powerFailures + (IF phase = "data" THEN 1 ELSE 0)

\* While no file operation fails, the segment ids are an interval that ends
\* with the current one: cleanup removes the oldest and never leaves a gap.
Contiguous == faults = 0 => Ids = (seg + 1 - Cardinality(Ids))..seg

\* What recover finds is in order, without gaps and without two segments of
\* one id, after any rotations, failures, crashes and cleanups.
LogReadable == NoCollision /\ RecoveredInOrder /\ Contiguous

\* Every acknowledged entry can be accounted for, and damage is bounded by what
\* went wrong.
EntriesAccounted == TypeOK /\ AckedAccounted /\ DamageBound

\* The files the writer relies on: rotated segments are on stable storage, and
\* cleanup spares the one being written.
FilesKept == RotatedIsSynced /\ CurrentKept
=============================================================================
