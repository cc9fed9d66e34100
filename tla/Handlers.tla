------------------------------ MODULE Handlers ------------------------------
(***************************************************************************)
(* The HTTP API over the store, server/src/api/handlers.rs, and the writes   *)
(* of admin.rs.  These handlers do not use the PromQL parser and executor:   *)
(* they search the text of a query for parentheses, braces and equal signs   *)
(* and ask the store for equal labels.                                       *)
(*                                                                         *)
(* A text is a sequence of tokens (names, punctuation and quotes; blanks are *)
(* left out).  A parameter of a request is the set of its value, empty when  *)
(* it is missing or cannot be read as a number.  Time is in ticks.           *)
(***************************************************************************)
EXTENDS Executor, Promql

CONSTANTS
  NameLabel, \* the label "__name__"
  BatchSize  \* bound on the series of a batch put

Quote == "'"
Shown(data) == [st |-> "success", data |-> data]
BadData == [st |-> "bad_data", data |-> <<>>]
Aborted == [st |-> "panic", data |-> <<>>]

FindLast(q, t) == IF t \in Range(q) THEN Max({i \in DOMAIN q : q[i] = t}) ELSE 0

\* Mutant: trim_start_matches.
UnquotedAtStart(q) == IF q # <<>> /\ q[1] = Quote THEN Tail(q) ELSE q

\* trim_matches of quotes.
Unquoted(q) ==
  LET kept == {i \in DOMAIN q : q[i] # Quote}
  IN  IF kept = {} THEN <<>> ELSE SubSeq(q, Min(kept), Max(kept))

\* A name or value of several tokens is no label of the store.
Word(q) == IF Len(q) = 1 THEN q[1] ELSE ""

\* What is between the first opening and the last closing parenthesis.
Inner(q) ==
  LET Cut(open, close) == IF open = 0 \/ close = 0 THEN Good(q)
                          ELSE IF open > close THEN Panic ELSE Good(SubSeq(q, open + 1, close - 1))
  IN  Cut(Find(q, "("), FindLast(q, ")"))

\* A piece with one equal sign is a matcher; any other piece is dropped.
label_matcher(piece) ==
  LET Of(parts) == IF Len(parts) = 2 THEN {<<Word(parts[1]), Word(Unquoted(parts[2]))>>} ELSE {}
  IN  Of(Split(piece, "=", FALSE))

parse_label_matchers(q) ==
  LET Matchers(name, body) == (IF name = <<>> THEN {} ELSE {<<NameLabel, Word(name)>>})
                                \cup UNION {label_matcher(p) : p \in Range(Split(body, ",", FALSE))}
      Braced(text, open, close) ==
        IF open > 0 /\ close > 0 /\ close < open THEN Panic
        ELSE Good(Matchers(Upto(text, open),
                           IF open = 0 \/ close = 0 THEN <<>> ELSE SubSeq(text, open + 1, close - 1)))
      Parsed(r) == IF r.st = "panic" THEN Panic ELSE Braced(r.e, Find(r.e, "{"), Find(r.e, "}"))
  IN  Parsed(Inner(q))

-----------------------------------------------------------------------------
(* Queries.                                                                 *)

ShownAggregations == {"sum", "avg", "max", "min"}

\* The aggregation and the text it is applied to.
AggregationOf(q) ==
  IF Len(q) >= 3 /\ q[1] \in ShownAggregations /\ q[2] = "(" /\ Last(q) = ")"
  THEN [fn |-> q[1], text |-> SubSeq(q, 3, Len(q) - 1)]
  ELSE [fn |-> "none", text |-> q]

aggregated_value(fn, vals) ==
  CASE fn = "sum" -> RSum(vals)
    [] fn = "avg" -> RDiv(RSum(vals), Whole(Len(vals)))
    [] fn = "max" -> FoldLeft(RMax, vals[1], vals)
    [] fn = "min" -> FoldLeft(RMin, vals[1], vals)

\* One element per sample; the grouping of an aggregation is by time, which is a
\* whole number of days here, so that the key's way through seconds is exact.
aggregated_vectors(fn, vectors) ==
  MapSeq(HashOrder({x.t : x \in Range(vectors)}), LAMBDA t :
    [labels |-> {}, t |-> t,
     v |-> aggregated_value(fn, MapSeq(SelectSeq(vectors, LAMBDA x : x.t = t), LAMBDA x : x.v))])

BeforeAllTime == -1

\* The parameters of a request; the clock of a request without a time.
QueryParams(query, time) == [query |-> query, time |-> time]
RangeParams(query, start, end, step) == [query |-> query, start |-> start, end |-> end, step |-> step]
NoParams(params) == \A k \in DOMAIN params : params[k] = {}
Now == Max(Times)
Value(param) == CHOOSE x \in param : TRUE

\* The range of an instant query begins at i64::MIN, and `end - start' overflows
\* or is larger than a month: the level is L4, the averages of whole days.
handle_query_internal(params) ==
  LET Vectors(found) == FlattenSeq(MapSeq(found, LAMBDA s : MapSeq(s.samples, LAMBDA x :
                          [labels |-> s.labels, t |-> x.t, v |-> x.v])))
      Aggregated(fn, vectors) == IF fn = "none" THEN vectors ELSE aggregated_vectors(fn, vectors)
      time == IF params.time = {} THEN Now ELSE Value(params.time)
      Answer(fn, matchers) ==
        IF matchers.st = "panic" THEN Aborted
        ELSE Shown(Aggregated(fn, Vectors(query_with_downsample(matchers.e, BeforeAllTime, time, 4))))
      Asking(agg) == Answer(agg.fn, parse_label_matchers(agg.text))
  IN  IF params.query \in {{}, {<<>>}} THEN BadData ELSE Asking(AggregationOf(Value(params.query)))

handle_query_get(url) == handle_query_internal(url)

\* A POST takes the parameters of the body, and those of the URL when the body
\* has none at all.
handle_query_post(url, body) == handle_query_internal(IF NoParams(body) THEN url ELSE body)

Million == 1000000

\* format!("{:.6}"): six decimals.
SixDecimals(v) == Frac(RFloor(RAdd(RMul(v, Whole(Million)), Frac(1, 2))), Million)

LongestRange == 30 * 24 * Hour

\* The step is checked and not used.
handle_query_range_internal(params) ==
  LET Answer(matchers, from, to) ==
        IF matchers.st = "panic" THEN Aborted
        ELSE Shown(WithValues(query_with_downsample(matchers.e, from, to, auto_select_downsample_level(from, to)),
                              SixDecimals))
      Over(from, to) ==
        IF \/ from < 0 \/ to < 0 \/ from > to
           \/ Value(params.step) <= 0
           \/ to - from > LongestRange THEN BadData
        ELSE Answer(parse_label_matchers(Value(params.query)), from, to)
  IN  IF params.query = {<<>>} \/ \E k \in DOMAIN params : params[k] = {} THEN BadData
      ELSE Over(Value(params.start), Value(params.end))

handle_query_range_get(url) == handle_query_range_internal(url)

handle_query_range_post(url, body) == handle_query_range_internal(IF NoParams(body) THEN url ELSE body)

\* The range of the three queries below: a negative start is taken as 0.
ShownRange(start, end, now) ==
  LET Checked(from, to) == [ok |-> to >= 0 /\ from <= to, from |-> from, to |-> to]
  IN  Checked(Max({0} \cup start), IF end = {} THEN now ELSE Value(end))

MaxMatchers == 100

\* match[] is cut at every comma, also at those between braces, and a series is
\* listed once for every piece that finds it.
handle_series(match, start, end, now) ==
  LET Found(p, range) ==
        MapSeq(query_with_downsample(p.e, range.from, range.to, auto_select_downsample_level(range.from, range.to)),
               LAMBDA s : s.labels)
      ListOf(parsed, range) == IF \E p \in Range(parsed) : p.st = "panic" THEN Aborted
                                ELSE Shown(FlattenSeq(MapSeq(parsed, LAMBDA p : Found(p, range))))
      Over(pieces, range) == IF pieces = <<>> \/ Len(pieces) > MaxMatchers \/ ~range.ok THEN BadData
                             ELSE ListOf(MapSeq(pieces, parse_label_matchers), range)
  IN  Over(SelectSeq(Split(match, ",", FALSE), LAMBDA p : p # <<>>), ShownRange(start, end, now))

\* Both check their parameters and answer an empty list.
handle_labels(start, end, now) == IF ShownRange(start, end, now).ok THEN Shown(<<>>) ELSE BadData

handle_label_values(name, match, start, end, now) ==
  IF \/ name = "" \/ ~ShownRange(start, end, now).ok
     \/ Len(SelectSeq(Split(match, ",", FALSE), LAMBDA p : p # <<>>)) > MaxMatchers
  THEN BadData ELSE Shown(<<>>)

\* A metric that is asked for is described as a counter, stored or not.
handle_metadata(metric) == Shown(SetToSeq(metric))

-----------------------------------------------------------------------------
(* Writes.                                                                  *)

handle_data_put(id, t, v) == Write(id, t, v)

\* The series of a batch are written one after the other.
handle_batch_data_put(ids, t, v) ==
  /\ Cardinality(ids) \in 2..BatchSize
  /\ SampleCount + Cardinality(ids) <= MaxWrites
  /\ entries' = [i \in DOMAIN entries \cup ids |->
       LET old == IF i \in DOMAIN entries THEN entries[i] ELSE EmptyEntry
       IN  IF i \in ids THEN entry_add_sample(old, Sample(t, v)) ELSE old]
  /\ labelled' = labelled \cup ids
  /\ postings' = [p \in AllPairs |-> postings[p] \cup {i \in ids : p \in LabelsOf[i]}]
  /\ UNCHANGED flip

HandlersNext ==
  \/ \E id \in Ids, w \in Written : handle_data_put(id, w[1], w[2])
  \/ \E ids \in SUBSET Ids, w \in Written : handle_batch_data_put(ids, w[1], w[2])
  \/ \E id \in Ids : RemoveSeries(id)

-----------------------------------------------------------------------------
(* Properties.                                                              *)

\* The text of a matcher, and of a selector with the matchers of a list.
MatcherText(p) == <<p[1], "=", Quote, p[2], Quote>>
SelectorText(name, ps) ==
  <<name>> \o (CASE Len(ps) = 0 -> <<>>
                 [] Len(ps) = 1 -> <<"{">> \o MatcherText(ps[1]) \o <<"}">>
                 [] Len(ps) = 2 -> <<"{">> \o MatcherText(ps[1]) \o <<",">> \o MatcherText(ps[2]) \o <<"}">>)
Wrapped(f, q) == <<f, "(">> \o q \o <<")">>

NameValues == {p[2] : p \in {q \in AllPairs : q[1] = NameLabel}}
OtherPairs == {p \in AllPairs : p[1] # NameLabel}

Meant(name, ps) == {<<NameLabel, name>>} \cup Range(ps)

\* The series that have all the labels, with their samples up to a time.
Having(ms, time) ==
  {i \in DOMAIN entries : ms \subseteq LabelsOf[i] /\ samples_in_range(entries[i], 0, time) # <<>>}

DayMean(i, day, time) ==
  RMean(ValuesOf(SelectSeq(samples_in_range(entries[i], 0, time), LAMBDA x : WindowOf(x.t, 24 * Hour) = day)))
DaysOf(i, time) == {WindowOf(x.t, 24 * Hour) : x \in Range(samples_in_range(entries[i], 0, time))}

\* The value an answer has at a time.
At(answer, d) == (CHOOSE x \in Range(answer.data) : x.t = d).v
Seen(answer) == {<<x.labels, x.t, x.v>> : x \in Range(answer.data)}

Selectors == {<<>>} \cup {<<p>> : p \in OtherPairs}

\* What the API shows for a text: as it is, inside a function that the handler
\* does not know, and inside each aggregation, sent in the URL or in a form.
InstantTexts(q) ==
  {q, Wrapped("rate", q)} \cup {Wrapped(f, q) : f \in ShownAggregations}
    \cup {Wrapped(f, Wrapped("rate", q)) : f \in ShownAggregations}

\* An instant query for a selector with equal labels answers the day averages of
\* exactly the series that have them, each once, inside any function that the
\* handler does not know as well as without it, and the four aggregations are
\* those of these averages, inside another function or not; a form answers what
\* the URL answers.  (handlers.rs:47)
InstantQueriesSound ==
  \A name \in NameValues, ps \in Selectors, time \in {Min(Times), Max(Times)} :
    \A q \in {SelectorText(name, ps)}, ids \in {Having(Meant(name, ps), time)} :
      \A shown \in {[text \in InstantTexts(q) |-> handle_query_get(QueryParams({text}, {time}))]} :
        /\ Seen(shown[q]) = UNION {{<<LabelsOf[i], d, DayMean(i, d, time)>> : d \in DaysOf(i, time)} : i \in ids}
        /\ shown[Wrapped("rate", q)] = shown[q]
        /\ \A f \in ShownAggregations : shown[Wrapped(f, Wrapped("rate", q))] = shown[Wrapped(f, q)]
        /\ \A d \in UNION {DaysOf(i, time) : i \in ids} :
             \A of \in {[f \in ShownAggregations |-> At(shown[Wrapped(f, q)], d)]},
                day \in {SelectSeq(shown[q].data, LAMBDA x : x.t = d)} :
               /\ of["sum"] = RMul(of["avg"], Whole(Len(day)))
               /\ \A x \in Range(day) : RLe(of["min"], x.v) /\ RLe(x.v, of["max"])
               /\ {of["min"], of["max"]} \subseteq {x.v : x \in Range(day)}
        /\ handle_query_post(QueryParams({Wrapped("sum", q)}, {time}), QueryParams({}, {})) = shown[Wrapped("sum", q)]

AskedEnds == {Max(Times), Hour, 24 * Hour, LongestRange}

\* A range query of the API, which the store answers at a level of its own
\* choice, is what the query engine answers for the parsed selector, at every
\* level; /series lists the series that it answers, each once, for a selector
\* with one label; and all ranges above thirty days are refused (handlers.rs:254).
RangeQueriesSound ==
  \A name \in NameValues, ps \in Selectors, end \in AskedEnds :
    \A q \in {SelectorText(name, ps)} :
      \A shown \in {handle_query_range_get(RangeParams({q}, {0}, {end}, {1}))},
         listed \in {handle_series(q, {}, {end}, end).data} :
        /\ shown.st = "success"
        /\ Points(shown.data) = Points(execute_vector_query(Vec(Meant(name, ps)), [start |-> 0, end |-> end, step |-> 1]))
        /\ Len(listed) = Len(shown.data)
        /\ Range(listed) = {LabelsOf[i] : i \in Having(Meant(name, ps), end)}
        /\ handle_query_range_post(RangeParams({}, {}, {}, {}), RangeParams({q}, {0}, {LongestRange + 1}, {1})) = BadData

\* The handlers, which have a reader of query texts of their own, agree with the
\* query engine and with what is stored, for instant and for range queries.
HandlersSound == entries # <<>> => InstantQueriesSound /\ RangeQueriesSound
=============================================================================
