------------------------------- MODULE Columns -------------------------------
(***************************************************************************)
(* A block from BlockWriter (columnstore/writer.rs) through its columns to   *)
(* BlockReader (columnstore/reader.rs), with its Bloom filter (index/        *)
(* bloom.rs), and the bitmap index of index/bitmap.rs.  The series of a block *)
(* lie one behind another in columns they share, in the order of a hash map. *)
(***************************************************************************)
EXTENDS Codec

CONSTANTS
  CTimes, CValues,   \* timestamps and values of samples
  CLabels,           \* series -> its labels, a set
  BloomBits,         \* set of labels -> the bits insert sets
  CAdds,             \* bound on the samples of a block
  WordBits,          \* 64 in the code
  BitIds             \* series ids given to the bitmap index

VARIABLES
  series_data,   \* BlockWriter.series_data: series -> its samples
  bitmaps,       \* BitmapIndex.index: label -> [words, ids]
  series_count   \* BitmapIndex.series_count
columnVars == <<series_data, bitmaps, series_count>>

ColumnsInit == series_data = <<>> /\ bitmaps = <<>> /\ series_count = 0

SamplesOf(s) == IF s \in DOMAIN series_data THEN series_data[s] ELSE <<>>
TotalSamples == MapThenSumSet(LAMBDA s : Len(series_data[s]), DOMAIN series_data)

add_series(s, t, v) ==
  /\ TotalSamples < CAdds
  /\ series_data' = [r \in DOMAIN series_data \cup {s} |->
                       IF r = s THEN Append(SamplesOf(s), [t |-> t, v |-> v]) ELSE series_data[r]]
  /\ UNCHANGED <<bitmaps, series_count>>

-----------------------------------------------------------------------------
\* BlockWriter::write with the series in the given order.
AllSamples(order) == FlattenSeq([i \in DOMAIN order |-> series_data[order[i]]])
build_index(order) ==
  [i \in DOMAIN order |->
     [series |-> order[i], labels |-> CLabels[order[i]], count |-> Len(series_data[order[i]]),
      offset |-> MapThenSumSet(LAMBDA j : Len(series_data[order[j]]), 1..(i - 1))]]
Times(order) == [i \in DOMAIN AllSamples(order) |-> AllSamples(order)[i].t]
WrittenBlock(order) ==
  LET all == AllSamples(order)
  IN  [time |-> build_timestamp_column(Times(order)),
       value |-> build_value_column([i \in DOMAIN all |-> all[i].v]),
       index |-> build_index(order),
       bloom |-> UNION {BloomBits[CLabels[s]] : s \in ToSet(order)},
       min |-> Min(ToSet(Times(order))), max |-> Max(ToSet(Times(order)))]

\* BlockBuilder of columnstore/block.rs: the first and the last timestamp of each
\* series stand for its least and greatest.
builder_range(order) ==
  [min |-> Min({Head(series_data[s]).t : s \in ToSet(order)}),
   max |-> Max({Last(series_data[s]).t : s \in ToSet(order)})]

\* BlockBuilder of columnstore/block_format.rs, and what its reader gives back.
format_build(order) ==
  [series_count |-> Len(order), sample_count |-> Len(Times(order)),
   min |-> Min(ToSet(Times(order))), max |-> Max(ToSet(Times(order))),
   timestamps |-> encode_timestamps(Times(order))]
read_timestamps(f) == decode_timestamps(f.timestamps)

\* An index file that ends early is read up to its last whole entry.
read_index(b, entries) == SubSeq(b.index, 1, Min({entries, Len(b.index)}))

\* BlockReader::query over all times: the slice of the shared columns.
Slice(e, n) == {i \in 1..n : e.offset < i /\ i <= e.offset + e.count}
query(b, e) ==
  LET times == decode_timestamp_column(b.time)
      values == decode_value_column(b.value)
  IN  [panics |-> times = Panic,
       samples |-> IF times = Panic THEN {}
                   ELSE {[at |-> i, t |-> times[i], v |-> values[i]] :
                           i \in Slice(e, Min({Len(times), Len(values)}))}]

\* A block of downsampled points has its columns cut by the time column alone; a
\* place a value column does not have reads 0.
read_downsample_points(b, e) ==
  LET times == decode_timestamp_column(b.time)
      values == decode_value_column(b.value)
  IN  IF times = Panic THEN {}
      ELSE {[at |-> i, t |-> times[i], v |-> IF i <= Len(values) THEN values[i] ELSE <<0>>] :
              i \in Slice(e, Len(times))}

contains_series(b, labels) == BloomBits[labels] \subseteq b.bloom
\* The filter holds whole label sets, and is asked for the labels of the query.
query_by_labels(b, labels) ==
  IF ~contains_series(b, labels) THEN {}
  ELSE {e \in ToSet(b.index) : labels \subseteq e.labels}

find_blocks_in_range(b, start, end) == b.min <= end /\ b.max >= start

-----------------------------------------------------------------------------
\* RoaringBitmap: its length in words and the values in it.
EmptyBitmap == [words |-> 0, ids |-> {}]
bitmap_add(m, v) == [words |-> Max({m.words, (v \div WordBits) + 1}), ids |-> m.ids \cup {v}]
bitmap_and(m, n) == [words |-> Min({m.words, n.words}), ids |-> m.ids \cap n.ids]

\* `1 << 64` is `1 << 0` in the release build: a maximum at the end of a word
\* leaves nothing of that word.
bitmap_not(m, max) ==
  LET words == (max \div WordBits) + 1
      kept == (max % WordBits) + 1
  IN  [words |-> words,
       ids |-> {v \in 0..(words * WordBits - 1) :
                  /\ v \notin m.ids
                  /\ v \div WordBits = words - 1 => kept < WordBits /\ v % WordBits < kept}]

query_equal(label) == IF label \in DOMAIN bitmaps THEN bitmaps[label] ELSE EmptyBitmap
get_all_series == FoldSet(LAMBDA v, m : bitmap_add(m, v), EmptyBitmap, 0..(series_count - 1))
query_not_equal(label) == bitmap_and(get_all_series, bitmap_not(query_equal(label), series_count))

bitmap_add_series(id, labels) ==
  /\ bitmaps' = [l \in DOMAIN bitmaps \cup labels |->
                   IF l \in labels THEN bitmap_add(query_equal(l), id) ELSE bitmaps[l]]
  /\ series_count' = Max({series_count, id + 1})
  /\ UNCHANGED series_data

ColumnsNext == \E s \in DOMAIN CLabels, t \in CTimes, v \in CValues : add_series(s, t, v)
BitmapNext == \E id \in BitIds, s \in DOMAIN CLabels : bitmap_add_series(id, CLabels[s])

-----------------------------------------------------------------------------
Orders == IF DOMAIN series_data = {} THEN {} ELSE SetToSeqs(DOMAIN series_data)
Gaps(ts) == {Wrap(Wrap(ts[i] - ts[i - 1]) - Wrap(ts[i - 1] - ts[i - 2])) : i \in 3..Len(ts)}

\* What the encoders of delta.rs accept their decoders give back, whatever order
\* and signs the timestamps have and however near they are to the ends of a word.
DeltasInvert ==
  \A order \in Orders :
    LET ts == Times(order)
    IN  /\ delta_encode_batch(ts) # Failed => delta_decode(delta_encode_batch(ts)) = ts
        /\ dod_encode_batch(ts) # Failed => dod_decode(dod_encode_batch(ts)) = ts

\* The format of block_format.rs gives back two or more timestamps unless a change
\* of the distance is one of the two bytes it uses as flags.
FormatInverts ==
  \A order \in Orders :
    LET ts == Times(order)
        f == format_build(order)
    IN  Len(ts) >= 2 /\ Gaps(ts) \cap {-128, -127} = {} =>
          /\ read_timestamps(f) = ts
          /\ f.sample_count = TotalSamples /\ {f.min, f.max} \subseteq ToSet(ts)

\* Packing never makes a value larger, and no value that has its bits is changed.
PackingLoses ==
  \A order \in Orders :
    LET zs == [i \in DOMAIN Times(order) |-> zigzag_encode(Wrap(Deltas(Deltas(Times(order)))[i]))]
        bits == ClassOf(Max(ToSet(zs))).bits
        out == FlattenSeq([w \in DOMAIN encode_batch_optimized(Times(order)) |->
                             decode_simple8b(encode_batch_optimized(Times(order))[w])])
    IN  \A i \in DOMAIN zs :
          i <= ClassOf(Max(ToSet(zs))).count =>
            out[i] <= zs[i] /\ (bits < 16 /\ zs[i] < 2 ^ bits => out[i] = zs[i])

\* The reader finds for a series the values that were written for it, in the same
\* places whatever the order of the hash map, unless a NaN lies before them in the
\* block, be it in another series; with wrong times, or none (decode panics).
SlicesExact ==
  \A order \in Orders :
    LET b == WrittenBlock(order)
        all == AllSamples(order)
    IN  b.time # Failed => \A e \in ToSet(read_index(b, Len(order))) :
          \A r \in query(b, e).samples \cup read_downsample_points(b, e) :
            (\A i \in 1..r.at : all[i].v # NaN) =>
              r.v = series_data[e.series][r.at - e.offset].v

\* A block's range covers its samples, and so does the range BlockBuilder keeps when
\* every series is in the order of time.
RangesCover ==
  \A order \in Orders :
    LET b == WrittenBlock(order)
        r == builder_range(order)
        ordered == \A s \in DOMAIN series_data : \A i \in 2..Len(series_data[s]) :
                     series_data[s][i - 1].t <= series_data[s][i].t
    IN  \A i \in DOMAIN AllSamples(order) :
          LET t == AllSamples(order)[i].t
          IN  /\ find_blocks_in_range(b, t, t)
              /\ ordered => r.min <= t /\ t <= r.max

\* By its whole label set a series is found although the filter was filled sample
\* by sample; by a part of it only when the filter errs.
LabelsFound ==
  \A order \in Orders :
    \A e \in ToSet(WrittenBlock(order).index) : e \in query_by_labels(WrittenBlock(order), e.labels)

\* Equality and inequality on a label part the ids below series_count, those never
\* added included, unless series_count is the last bit of a word.
BitmapsPart ==
  \A l \in DOMAIN bitmaps :
    series_count % WordBits # WordBits - 1 =>
      /\ query_equal(l).ids \cup query_not_equal(l).ids = 0..(series_count - 1)
      /\ query_equal(l).ids \cap query_not_equal(l).ids = {}

\* Columns, index, filter and bitmaps of a block, over every order of its series.
ColumnsSound ==
  /\ DeltasInvert /\ FormatInverts /\ PackingLoses
  /\ SlicesExact /\ RangesCover /\ LabelsFound /\ BitmapsPart

\* The timestamps of a block are read as they were written.
TimesReadBack ==
  \A order \in Orders :
    WrittenBlock(order).time # Failed =>
      decode_timestamp_column(WrittenBlock(order).time) = Times(order)
=============================================================================
