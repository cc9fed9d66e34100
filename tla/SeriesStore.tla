---------------------------- MODULE SeriesStore ----------------------------
(***************************************************************************)
(* What a query reads: the head block (memstore/chunk.rs, head.rs and       *)
(* store.rs), its inverted index (index/inverted.rs) and the downsampling   *)
(* levels (columnstore/mod.rs).  The series are lists of frozen chunks and  *)
(* a current chunk; writes and removals change them, and the operators      *)
(* below are the reads that the executor makes.                             *)
(*                                                                         *)
(* Time is counted in ticks of ten seconds, the interval of level L0; every *)
(* duration in this code is a multiple of it.  Hash maps iterate in an      *)
(* unspecified order: `flip' selects between two orders, fixed for a run.   *)
(***************************************************************************)
EXTENDS Ratio, FiniteSets

CONSTANTS
  Ids,           \* series ids, the hashes of the label sets
  LabelsOf,      \* [Ids -> set of <<name, value>>]
  Written,       \* the samples that are written, as <<time, value>>
  ChunkCapacity, \* DEFAULT_CHUNK_CAPACITY
  MaxWrites      \* bound on the samples stored at one time

VARIABLES
  entries,   \* HeadBlock.series: id -> [frozen, current], for the ids present
  postings,  \* InvertedIndex.label_name_to_values: <<name, value>> -> ids
  labelled,  \* the keys of InvertedIndex.series_labels
  flip

storeVars == <<entries, postings, labelled, flip>>

Sample(t, v) == [t |-> t, v |-> v]
Series(id, labels, samples) == [id |-> id, labels |-> labels, samples |-> samples]

Ascending(S) == [k \in 1..Cardinality(S) |-> CHOOSE x \in S : Cardinality({y \in S : y < x}) = k - 1]
HashOrder(S) == IF flip THEN Reverse(Ascending(S)) ELSE Ascending(S)

-----------------------------------------------------------------------------
(* The head block and its index.                                            *)

Times == {w[1] : w \in Written}
AllPairs == UNION {LabelsOf[i] : i \in Ids}

\* Chunk::add appends and sorts by timestamp when the sample is not the newest.
Chunk_add(chunk, s) == InsertBy(chunk, s, LAMBDA a, b : a.t < b.t)

is_full(chunk) == Len(chunk) >= ChunkCapacity

\* TimeSeriesEntry::add_sample freezes a full chunk before it adds.
entry_add_sample(e, s) ==
  IF is_full(e.current)
  THEN [frozen |-> Append(e.frozen, e.current), current |-> Chunk_add(<<>>, s)]
  ELSE [e EXCEPT !.current = Chunk_add(@, s)]

chunk_in_range(chunk, start, end) == SelectSeq(chunk, LAMBDA s : s.t >= start /\ s.t <= end)

\* TimeSeriesEntry::samples_in_range: the frozen chunks in order, then the current one.
samples_in_range(e, start, end) ==
  FlattenSeq(MapSeq(Append(e.frozen, e.current), LAMBDA c : chunk_in_range(c, start, end)))

Stored(e) == FlattenSeq(Append(e.frozen, e.current))

index_add_series(id) ==
  /\ labelled' = labelled \cup {id}
  /\ postings' = [p \in AllPairs |-> IF p \in LabelsOf[id] THEN postings[p] \cup {id} ELSE postings[p]]

index_remove_series(id) ==
  /\ labelled' = labelled \ {id}
  /\ postings' = [p \in AllPairs |-> IF p \in LabelsOf[id] THEN postings[p] \ {id} ELSE postings[p]]

EmptyEntry == [frozen |-> <<>>, current |-> <<>>]

StoreInit ==
  /\ entries = <<>>
  /\ postings = [p \in AllPairs |-> {}]
  /\ labelled = {}
  /\ flip \in BOOLEAN

SampleCount == FoldSet(LAMBDA i, n : n + Len(Stored(entries[i])), 0, DOMAIN entries)

\* MemStore::write of one sample: the series is created on its first write.
Write(id, t, v) ==
  /\ SampleCount < MaxWrites
  /\ LET old == IF id \in DOMAIN entries THEN entries[id] ELSE EmptyEntry
     IN  entries' = [i \in DOMAIN entries \cup {id} |->
                       IF i = id THEN entry_add_sample(old, Sample(t, v)) ELSE entries[i]]
  /\ IF id \in DOMAIN entries THEN UNCHANGED <<postings, labelled>> ELSE index_add_series(id)
  /\ UNCHANGED flip

RemoveSeries(id) ==
  /\ id \in DOMAIN entries
  /\ entries' = [i \in DOMAIN entries \ {id} |-> entries[i]]
  /\ index_remove_series(id)
  /\ UNCHANGED flip

-----------------------------------------------------------------------------
(* Matching and downsampling.                                               *)

lookup(name, value) == IF <<name, value>> \in AllPairs THEN postings[<<name, value>>] ELSE {}

\* The values under which the index has seen a label; an emptied set stays.
LabelValues(name) == {p[2] : p \in {q \in AllPairs : q[1] = name}}

\* InvertedIndex::lookup_by_matcher; a pattern is the set of values it matches.
lookup_by_matcher(name, kind, value, pattern) ==
  CASE kind = "Equal"    -> lookup(name, value)
    [] kind = "NotEqual" -> labelled \ lookup(name, value)
    [] kind = "Regex"    -> UNION {lookup(name, v) : v \in LabelValues(name) \cap pattern}
    [] kind = "NotRegex" -> UNION {lookup(name, v) : v \in LabelValues(name) \ pattern}

\* MemStore::find_series: all series for no matcher, else the intersection.
find_series(matchers) ==
  IF matchers = {} THEN labelled
  ELSE {i \in labelled : \A m \in matchers : i \in lookup(m[1], m[2])}

Hour == 360

\* DownsampleLevel::from_query_range, which divides before it compares.
from_query_range(range) ==
  LET hours == range \div Hour
  IN  IF hours < 1 THEN 0 ELSE IF hours < 24 THEN 1 ELSE IF hours < 168 THEN 2
      ELSE IF hours < 720 THEN 3 ELSE 4

\* MemStore::auto_select_downsample_level, for a range that does not overflow.
auto_select_downsample_level(start, end) ==
  LET d == end - start
  IN  IF d < Hour THEN 0 ELSE IF d < 24 * Hour THEN 1 ELSE IF d < 7 * 24 * Hour THEN 2
      ELSE IF d < 30 * 24 * Hour THEN 3 ELSE 4

resolution(level) == <<1, 6, 30, Hour, 24 * Hour>>[level + 1]

WindowOf(t, res) == t - (t % res)

\* MemStore::apply_downsampling keeps a sum and a count; a sample of another
\* window closes the current one.
apply_downsampling(samples, level) ==
  IF samples = <<>> \/ level = 0 THEN samples
  ELSE LET res == resolution(level)
           Close(acc) == IF acc.n = 0 THEN acc.out
                         ELSE Append(acc.out, Sample(acc.win, RDiv(acc.sum, Whole(acc.n))))
           Step(acc, s) ==
             IF WindowOf(s.t, res) = acc.win
             THEN [acc EXCEPT !.sum = RAdd(@, s.v), !.n = @ + 1]
             ELSE [out |-> Close(acc), win |-> WindowOf(s.t, res), sum |-> s.v, n |-> 1]
       IN  Close(FoldLeft(Step, [out |-> <<>>, win |-> WindowOf(samples[1].t, res),
                                 sum |-> Zero, n |-> 0], samples))

\* Mutant: the last window is not closed.
DownsampleDropsLast(samples, level) ==
  LET d == apply_downsampling(samples, level)
  IN  IF samples = <<>> \/ level = 0 THEN d ELSE Front(d)

\* QueryExecutor::apply_downsampling_to_samples, the copy of the parallel path,
\* keeps the samples of the window and averages them at its end.
apply_downsampling_to_samples(samples, level) ==
  IF samples = <<>> \/ level = 0 THEN samples
  ELSE LET res == resolution(level)
           Close(acc) == IF acc.vals = <<>> THEN acc.out
                         ELSE Append(acc.out, Sample(acc.win, RMean(acc.vals)))
           Step(acc, s) ==
             IF WindowOf(s.t, res) = acc.win
             THEN [acc EXCEPT !.vals = Append(@, s.v)]
             ELSE [out |-> Close(acc), win |-> WindowOf(s.t, res), vals |-> <<s.v>>]
       IN  Close(FoldLeft(Step, [out |-> <<>>, win |-> WindowOf(samples[1].t, res),
                                 vals |-> <<>>], samples))

query_with_downsample(matchers, start, end, level) ==
  LET one(i) == Series(i, LabelsOf[i],
                       apply_downsampling(samples_in_range(entries[i], start, end), level))
  IN  SelectSeq(MapSeq(HashOrder(find_series(matchers) \cap DOMAIN entries), one),
                LAMBDA s : s.samples # <<>>)

=============================================================================
