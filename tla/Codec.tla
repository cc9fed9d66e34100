-------------------------------- MODULE Codec --------------------------------
(***************************************************************************)
(* The codecs of columns: delta and delta-of-delta (compression/delta.rs),   *)
(* linear prediction (compression/prediction.rs), the time and value columns  *)
(* of columnstore/column.rs and the format of columnstore/block_format.rs.    *)
(* A word is an i64 of WordBytes bytes; zstd gives back what it was given and *)
(* is left out.  A float is <<n>>, or <<>> for NaN; rounding is left out.     *)
(***************************************************************************)
EXTENDS Integers, Sequences, SequencesExt, FiniteSets, FiniteSetsExt

CONSTANT WordBytes   \* 8 in the code

Full == 2 ^ (8 * WordBytes)
Half == Full \div 2
IsWord(x) == -Half <= x /\ x < Half
Wrap(x) == ((x + Half) % Full) - Half
Signed(x, size) == IF 2 * x >= size THEN x - size ELSE x

\* What the operations give instead of bytes or words.
Failed == <<-1>>     \* Err
Panic == <<-2>>      \* an index out of bounds, or a buffer that is used up

-----------------------------------------------------------------------------
zigzag_encode(v) == IF v >= 0 THEN 2 * v ELSE -2 * v - 1
zigzag_decode(z) == IF z % 2 = 0 THEN z \div 2 ELSE -((z + 1) \div 2)

\* Seven bits to a byte, the lowest first; all but the last have the high bit.
encode_varint(v) ==
  LET z == zigzag_encode(v)
      n == Min({k \in 1..((8 * WordBytes + 6) \div 7) : z < 128 ^ k})
  IN  [i \in 1..n |-> ((z \div 128 ^ (i - 1)) % 128) + (IF i < n THEN 128 ELSE 0)]

\* decode_varint over the whole of the data.
decode_varints(bytes) ==
  LET step(a, b) == IF b >= 128 THEN [a EXCEPT !.z = @ + (b - 128) * a.unit, !.unit = @ * 128]
                    ELSE [z |-> 0, unit |-> 1, out |-> Append(a.out, zigzag_decode(a.z + b * a.unit))]
      end == FoldLeft(step, [z |-> 0, unit |-> 1, out |-> <<>>], bytes)
  IN  IF end.unit = 1 THEN end.out ELSE Failed

Deltas(vs) == [i \in DOMAIN vs |-> IF i = 1 THEN vs[1] ELSE vs[i] - vs[i - 1]]
Totals(ds) == FoldLeft(LAMBDA out, d : Append(out, IF out = <<>> THEN d ELSE Last(out) + d), <<>>, ds)
Varints(vs) == FlattenSeq([i \in DOMAIN vs |-> encode_varint(vs[i])])
AllWords(vs) == \A i \in DOMAIN vs : IsWord(vs[i])

\* DeltaEncoder and DeltaOfDeltaEncoder: overflowing_sub is an error.
delta_encode_batch(vs) == IF AllWords(Deltas(vs)) THEN Varints(Deltas(vs)) ELSE Failed
delta_decode(bytes) == Totals(decode_varints(bytes))

dod_encode_batch(vs) ==
  LET ds == Deltas(vs)
  IN  IF AllWords(ds) /\ AllWords(Deltas(ds)) THEN Varints(Deltas(ds)) ELSE Failed
dod_decode(bytes) == Totals(Totals(decode_varints(bytes)))

-----------------------------------------------------------------------------
\* Simple8b as it is written: the selector is shifted out of the word from 16
\* bits on, and values keep half the bits their size needs, or fewer.
ClassOf(most) ==
  CASE most <= 1     -> [bits |-> 0, count |-> 60]
    [] most <= 3     -> [bits |-> 1, count |-> 30]
    [] most <= 15    -> [bits |-> 2, count |-> 20]
    [] most <= 255   -> [bits |-> 4, count |-> 15]
    [] most <= 65535 -> [bits |-> 8, count |-> 7]
    [] OTHER         -> [bits |-> 16, count |-> 3]

encode_simple8b_chunk(vs) ==
  LET c == ClassOf(Max(ToSet(vs)))
  IN  [selector |-> c.bits % 16,
       slots |-> [j \in 1..Min({c.count, Len(vs)}) |-> vs[j] % 2 ^ c.bits]]

encode_simple8b(vs) ==
  LET from[i \in 1..(Len(vs) + 1)] ==
        IF i > Len(vs) THEN <<>>
        ELSE LET w == encode_simple8b_chunk(SubSeq(vs, i, Len(vs)))
             IN  <<w>> \o from[i + Len(w.slots)]
  IN  from[1]

decode_simple8b(w) ==
  LET count == CHOOSE n \in {60, 30, 20, 15, 7} :
                 \E most \in {0, 2, 4, 16, 256} : ClassOf(most) = [bits |-> w.selector, count |-> n]
  IN  [i \in 1..count |-> IF w.selector = 0 \/ i > Len(w.slots) THEN 0 ELSE w.slots[i]]

encode_batch_optimized(vs) ==
  LET dods == Deltas(Deltas(vs))
  IN  encode_simple8b([i \in DOMAIN dods |-> zigzag_encode(Wrap(dods[i]))])

-----------------------------------------------------------------------------
\* Floats.
NaN == <<>>
Plus(a, b) == IF a = NaN \/ b = NaN THEN NaN ELSE <<a[1] + b[1]>>
Minus(a, b) == IF a = NaN \/ b = NaN THEN NaN ELSE <<a[1] - b[1]>>
Predicted(before, last) == Minus(Plus(last, last), before)

prediction_encode(vs) ==
  [i \in DOMAIN vs |-> IF i <= 2 THEN vs[i] ELSE Minus(vs[i], Predicted(vs[i - 2], vs[i - 1]))]
\* Mutant: the first prediction is made from one value.
MutPredictionDecode(rs) ==
  FoldLeft(LAMBDA out, r :
             Append(out, IF Len(out) = 0 THEN r
                         ELSE IF Len(out) = 1 THEN Plus(Last(out), r)
                         ELSE Plus(Predicted(out[Len(out) - 1], Last(out)), r)), <<>>, rs)

prediction_decode(rs) ==
  FoldLeft(LAMBDA out, r :
             Append(out, IF Len(out) < 2 THEN r
                         ELSE Plus(Predicted(out[Len(out) - 1], Last(out)), r)), <<>>, rs)

-----------------------------------------------------------------------------
\* columnstore/column.rs: the time column is written as variable-length numbers
\* and read as words, from which sums are taken that wrap in the release build.
build_timestamp_column(ts) == dod_encode_batch(ts)
WordAt(bytes, k) ==
  Signed(FoldRight(LAMBDA i, n : 256 * n + bytes[k * WordBytes + i],
                   [i \in 1..WordBytes |-> i], 0), Full)
decode_timestamp_column(bytes) ==
  IF Len(bytes) % WordBytes # 0 THEN Panic
  ELSE LET words == [k \in 1..(Len(bytes) \div WordBytes) |-> WordAt(bytes, k - 1)]
           sums(s) == FoldLeft(LAMBDA out, d :
                        Append(out, IF out = <<>> THEN d ELSE Wrap(Last(out) + d)), <<>>, s)
       IN  sums(sums(words))

build_value_column(vs) == prediction_encode(vs)
decode_value_column(rs) == prediction_decode(rs)

-----------------------------------------------------------------------------
\* columnstore/block_format.rs, whose numbers are big-endian.  Differences and
\* sums wrap in the release build.
Bytes(x, n) == [i \in 1..n |-> ((x % 256 ^ n) \div 256 ^ (n - i)) % 256]

EncodedGap(d) ==
  IF d \in -128..127 THEN Bytes(d, 1)
  ELSE IF d \in -32768..32767 THEN <<128>> \o Bytes(d, 2)
  ELSE <<129>> \o Bytes(d, WordBytes)

encode_timestamps(ts) ==
  LET ds == [i \in DOMAIN ts |-> Wrap(Deltas(ts)[i])]
  IN  IF Len(ts) < 2 THEN FlattenSeq([i \in DOMAIN ts |-> Bytes(ts[i], WordBytes)])
      ELSE Bytes(ts[1], WordBytes) \o Bytes(ds[2], WordBytes)
             \o FlattenSeq([i \in 1..(Len(ts) - 2) |-> EncodedGap(Wrap(ds[i + 2] - ds[i + 1]))])

NumberOf8(bytes) == Signed(FoldLeft(LAMBDA n, b : 256 * n + b, 0, bytes), 256 ^ Len(bytes))

\* The byte after a flag is a flag or a gap of its own.
decode_timestamps(bytes) ==
  LET first == NumberOf8(SubSeq(bytes, 1, WordBytes))
      gap == NumberOf8(SubSeq(bytes, WordBytes + 1, 2 * WordBytes))
      gapped(a, d) == [a EXCEPT !.gap = Wrap(@ + d), !.rest = <<>>,
                                !.out = Append(@, Wrap(Last(@) + a.gap + d))]
      step(a, b) ==
        IF a.need > 0
        THEN IF a.need = 1 THEN [gapped(a, NumberOf8(Append(a.rest, b))) EXCEPT !.need = 0]
             ELSE [a EXCEPT !.need = @ - 1, !.rest = Append(@, b)]
        ELSE IF b = 128 THEN [a EXCEPT !.need = 2]
        ELSE IF b = 129 THEN [a EXCEPT !.need = WordBytes]
        ELSE gapped(a, Signed(b, 256))
      end == FoldLeft(step, [need |-> 0, rest |-> <<>>, gap |-> gap, out |-> <<first, Wrap(first + gap)>>],
                      SubSeq(bytes, 2 * WordBytes + 1, Len(bytes)))
  IN  IF Len(bytes) < 2 * WordBytes THEN Failed
      ELSE IF end.need > 0 THEN Panic ELSE end.out
=============================================================================
