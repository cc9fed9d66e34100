------------------------------- MODULE Planner -------------------------------
(***************************************************************************)
(* What stands between a plan and its execution: QueryOptimizer               *)
(* (storage/src/query/optimizer.rs), DownsampleRouter and                     *)
(* DownsampleQueryExecutor (query/downsample_router.rs), and the points that  *)
(* DownsampleProcessor computes (downsample/mod.rs).  A selector's plan keeps *)
(* its matchers as the list that the parser wrote.                            *)
(***************************************************************************)
EXTENDS Executor

\* A selector with the list of its matchers; the executor reads the set.
Listed(list) == Vec(Range(list)) @@ [list |-> list]

\* The last matcher of a name is kept.
eliminate_redundant_conditions(list) ==
  SelectSeq([k \in DOMAIN list |->
               IF \E j \in DOMAIN list : j > k /\ list[j][1] = list[k][1] THEN <<>> ELSE list[k]],
            LAMBDA m : m # <<>>)

\* By name; the names of the model are ordered by an enumeration of them.
sort_matchers(list) ==
  LET rank == SetToSeq({m[1] : m \in Range(list)})
      Pos(n) == CHOOSE k \in DOMAIN rank : rank[k] = n
  IN  SortBy(list, LAMBDA a, b : Pos(a[1]) < Pos(b[1]))

optimize_vector_query(v) ==
  LET With(list) == [v EXCEPT !.list = list, !.matchers = Range(list)]
  IN  With(sort_matchers(eliminate_redundant_conditions(v.list)))

optimize_time_range(range) == IF range > 1 THEN range ELSE 1

RECURSIVE optimize(_)

optimize_matrix_query(m) ==
  [m EXCEPT !.vector = optimize_vector_query(@), !.range = optimize_time_range(@)]

optimize_subquery(q) ==
  [q EXCEPT !.expr = optimize(@), !.range = optimize_time_range(@), !.resolution = Max({@, 1})]

optimize_call(c) == [c EXCEPT !.args = MapSeq(@, optimize)]

\* constant_fold_binary never folds.
optimize_binary(b) == [b EXCEPT !.lhs = optimize(@), !.rhs = optimize(@)]

optimize_unary(u) == [u EXCEPT !.expr = optimize(@)]

\* optimize_grouping removes duplicates, and the grouping here is a set.
optimize_aggregation(a) == [a EXCEPT !.expr = optimize(@)]

optimize(plan) ==
  CASE plan.kind = "vector" -> optimize_vector_query(plan)
    [] plan.kind = "matrix" -> optimize_matrix_query(plan)
    [] plan.kind = "subquery" -> optimize_subquery(plan)
    [] plan.kind = "call" -> optimize_call(plan)
    [] plan.kind = "binary" -> optimize_binary(plan)
    [] plan.kind = "unary" -> optimize_unary(plan)
    [] plan.kind = "aggregation" -> optimize_aggregation(plan)

-----------------------------------------------------------------------------
(* The router.                                                              *)

Policies == {"Auto", "Conservative", "Aggressive"}

\* The last hours of the levels raw, L1, L2 and L3.
LastHours(policy) == IF policy = "Aggressive" THEN <<1, 12, 72, 336>> ELSE <<1, 24, 168, 720>>

\* A level; 0 is the raw data.  A negative range is above all of them.
select_by_time_range(policy, hours) ==
  LET fits == {k \in 1..4 : hours >= 0 /\ hours <= LastHours(policy)[k]}
  IN  IF fits = {} THEN 4 ELSE Min(fits) - 1

adjust_by_function(level, func) ==
  CASE func \in {"rate", "irate", "delta", "increase"} -> IF level = 0 THEN 0 ELSE level - 1
    [] func \in {"quantile", "histogram_quantile"} -> 0
    [] OTHER -> level

\* The first of these words that the name of a function contains.
infer_function_type(func) ==
  CASE func \in {"rate", "irate"} -> "rate"
    [] func \in {"delta", "idelta"} -> "delta"
    [] func \in {"quantile", "histogram_quantile"} -> "quantile"
    [] func \in {"count", "count_values"} -> "count"
    [] func \in {"min", "clamp_min"} -> "min"
    [] func \in {"max", "clamp_max"} -> "max"
    [] func \in {"increase", "sum", "avg", "group"} -> func
    [] OTHER -> "unknown"

select_level(on, policy, range, func) ==
  IF on THEN adjust_by_function(select_by_time_range(policy, range \div Hour), func) ELSE 0

query_raw(ids, start, end) ==
  NonEmpty(MapSeq(HashOrder(ids \cap DOMAIN entries), LAMBDA i :
    Series(i, LabelsOf[i], chunk_in_range(Stored(entries[i]), start, end))))

\* The average of every window, by a list of its values.
downsample_series(samples, res) ==
  LET Win(x) == WindowOf(x.t, res)
      Mean(acc) == Append(acc.out, Sample(acc.win, RMean(acc.vals)))
      Step(acc, x) ==
        IF Win(x) = acc.win THEN [acc EXCEPT !.vals = Append(@, x.v)]
        ELSE [win |-> Win(x), vals |-> <<x.v>>, out |-> IF acc.vals = <<>> THEN acc.out ELSE Mean(acc)]
  IN  IF samples = <<>> THEN samples
      ELSE Mean(FoldLeft(Step, [win |-> Win(samples[1]), vals |-> <<>>, out |-> <<>>], samples))

\* The files of a level, id -> samples: the rows that are found have no labels.
query_from_columnstore(ids, start, end, files) ==
  NonEmpty(MapSeq(HashOrder(ids \cap DOMAIN files), LAMBDA i :
    Series(i, {}, chunk_in_range(files[i], start, end))))

\* One row in the files is answer enough; only none falls back to the raw data.
query_downsampled(ids, start, end, level, files) ==
  LET stored == query_from_columnstore(ids, start, end, files)
  IN  IF stored # <<>> THEN stored
      ELSE WithSamples(query_raw(ids, start, end), LAMBDA q : downsample_series(q, resolution(level)))

routed_query(on, policy, ids, start, end, func, files) ==
  LET level == select_level(on, policy, end - start, func)
  IN  IF level = 0 THEN query_raw(ids, start, end) ELSE query_downsampled(ids, start, end, level, files)

-----------------------------------------------------------------------------
(* The points of a downsampling task.                                       *)

NewPoint(t) == [t |-> t, min |-> MaxF, max |-> MinF, avg |-> Zero, sum |-> Zero, count |-> 0, last |-> Zero]

add_sample_to_point(p, v) ==
  LET sum == RAdd(p.sum, v)
  IN  [t |-> p.t, min |-> RMin(p.min, v), max |-> RMax(p.max, v), sum |-> sum, count |-> p.count + 1,
       avg |-> RDiv(sum, Whole(p.count + 1)), last |-> v]

downseries(samples, res) ==
  LET Step(out, x) ==
        LET win == WindowOf(x.t, res)
            open == out # <<>> /\ Last(out).t = win
        IN  IF open THEN Append(Front(out), add_sample_to_point(Last(out), x.v))
            ELSE Append(out, add_sample_to_point(NewPoint(win), x.v))
  IN  FoldLeft(Step, <<>>, samples)

get_value_by_function(p, f) ==
  CASE f = "min" -> p.min [] f = "max" -> p.max [] f = "sum" -> p.sum
    [] f = "count" -> Whole(p.count) [] f = "last" -> p.last [] OTHER -> p.avg

\* All six values of a window, as samples of one time.
to_samples(p) ==
  IF p.count = 0 THEN <<>>
  ELSE MapSeq(<<"min", "max", "avg", "sum", "count", "last">>, LAMBDA f : Sample(p.t, get_value_by_function(p, f)))

-----------------------------------------------------------------------------
(* Properties.                                                              *)

Lists == {<<p>> : p \in AllPairs} \cup {<<p, q>> : p \in AskedPairs, q \in AllPairs}
PlansOver(list) ==
  LET x == Listed(list)
  IN  {Agg("sum", x, {}, FALSE), Call("sum", <<[kind |-> "matrix", vector |-> x, range |-> 0]>>),
       [kind |-> "subquery", expr |-> x, range |-> 2, resolution |-> 1],
       [kind |-> "binary", op |-> "or", lhs |-> [kind |-> "unary", op |-> "-", expr |-> x], rhs |-> Listed(<<>>)]}

\* An optimized plan answers what the plan answers as long as no label is
\* matched twice; with a label matched twice it answers at least that, and a
\* plan that is optimized stays as it is (optimizer.rs:95).
OptimizerSound ==
  \A list \in Lists :
    /\ find_series(Range(list)) \subseteq find_series(optimize(Listed(list)).matchers)
    /\ \A p \in PlansOver(list) : \A better \in {optimize(p)} :
         /\ optimize(better) = better
         /\ Len(list) = Cardinality({m[1] : m \in Range(list)}) =>
              Cardinality({execute_plan(x, FullCtx) : x \in {p, better}}) = 1

AskedRanges == {0, Hour - 1, Hour, 2 * Hour, 12 * Hour, 13 * Hour, 24 * Hour, 25 * Hour, 168 * Hour,
                336 * Hour, 720 * Hour, 721 * Hour}

\* The router never takes a coarser level than the store would, unless it is
\* told to be aggressive, and never a coarser one for a rate than for a sum;
\* what it answers without files is what the store answers at that level.
\* (downsample_router.rs:78)
RouterSound ==
  /\ \A range \in AskedRanges, policy \in Policies, f \in {"irate", "sum", "quantile"} :
       LET level == select_level(TRUE, policy, range, infer_function_type(f))
       IN  /\ level <= select_level(TRUE, policy, range, "sum")
           /\ policy # "Aggressive" => level <= auto_select_downsample_level(0, range)
  /\ \A range \in {Hour, 25 * Hour, 721 * Hour}, f \in {"irate", "sum"}, on \in BOOLEAN :
       routed_query(on, "Auto", labelled, 0, range, infer_function_type(f), <<>>)
         = query_with_downsample({}, 0, range, select_level(on, "Auto", range, infer_function_type(f)))

\* The points of a task stand for the samples: their averages are the samples
\* the store's own downsampling answers, every sample is counted in one point,
\* and the sum, the least, the greatest and the last value belong to the same
\* window (downsample/mod.rs:151).
PointsSound ==
  \A q \in {Stored(entries[i]) : i \in DOMAIN entries}, level \in 1..4 :
    \A ps \in {downseries(q, resolution(level))} :
      /\ MapSeq(ps, LAMBDA p : Sample(p.t, p.avg)) = apply_downsampling(q, level)
      /\ FoldLeft(LAMBDA n, p : n + p.count, 0, ps) = Len(q)
      /\ \A p \in Range(ps) :
           /\ {p.min, p.max, p.last} \subseteq {x.v : x \in {y \in Range(q) : WindowOf(y.t, resolution(level)) = p.t}}
           /\ RLe(p.min, p.avg) /\ RLe(p.avg, p.max)
           /\ p.sum = RMul(p.avg, Whole(p.count))
           /\ Len(to_samples(p)) = 6

\* Optimizing a plan, routing it to a level and reading the points of a
\* downsampling task leave the answer of a query as it is.
PlannerSound == entries # <<>> => OptimizerSound /\ RouterSound /\ PointsSound
=============================================================================
