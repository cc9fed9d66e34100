------------------------------ MODULE Executor ------------------------------
(***************************************************************************)
(* The query executor, storage/src/query/executor.rs, with the batching of  *)
(* storage/src/query/parallel.rs.  A plan is a record with a kind; a result  *)
(* is an error or a sequence of series.  Rates and slopes are per tick where *)
(* the code has them per millisecond.                                       *)
(***************************************************************************)
EXTENDS SeriesStore

CONSTANTS
  MinSeriesForParallel, \* ParallelConfig.min_series_for_parallel
  ParallelSumAbove,     \* the series count above which sum() is batched
  MaxConcurrency,       \* ParallelConfig.max_concurrency
  AskedPairs,           \* the labels that the queries of the properties ask for
  RealFn(_, _)          \* the functions of f64 without a rational value

Ok(s) == [ok |-> TRUE, series |-> s]
Err == [ok |-> FALSE, series |-> <<>>]

\* The `?' operator.
Then(r, Op(_)) == IF r.ok THEN Ok(Op(r.series)) ELSE Err

AllSamples(s) == FlattenSeq(MapSeq(s, LAMBDA x : x.samples))
ValuesOf(samples) == MapSeq(samples, LAMBDA x : x.v)
NonEmpty(s) == SelectSeq(s, LAMBDA x : x.samples # <<>>)
WithSamples(s, F(_)) == MapSeq(s, LAMBDA x : [x EXCEPT !.samples = F(x.samples)])
WithValues(s, F(_)) ==
  WithSamples(s, LAMBDA q : MapSeq(q, LAMBDA x : Sample(x.t, F(x.v))))
OnePoint(s, F(_), t) == MapSeq(s, LAMBDA x : Series(x.id, x.labels, <<Sample(t, F(x.samples))>>))

RECURSIVE execute_plan(_, _)

Arg(plan, i, ctx) == execute_plan(plan.args[i], ctx)
Arity(plan, n, r) == IF Len(plan.args) # n THEN Err ELSE r

-----------------------------------------------------------------------------
(* Selectors.                                                               *)

\* ParallelContext::should_use_parallel with everything enabled.
should_use_parallel(n, range) == n >= MinSeriesForParallel \/ range >= Hour

\* The parallel path reads whole series and filters them; its results come in
\* the order in which the tasks end.
execute_vector_query_parallel(ids, start, end, level) ==
  LET one(i) == Series(i, LabelsOf[i], apply_downsampling_to_samples(
                         chunk_in_range(Stored(entries[i]), start, end), level))
  IN  NonEmpty(MapSeq(HashOrder(ids \cap DOMAIN entries), one))

AtStart == -1
AtEnd == -2

\* The @ modifier makes the range one point, and the offset moves it.
QueryRange(plan, ctx) ==
  LET at == IF plan.at = {} THEN <<ctx.start, ctx.end>>
            ELSE LET a == CHOOSE x \in plan.at : TRUE
                     t == CASE a = AtStart -> ctx.start [] a = AtEnd -> ctx.end [] OTHER -> a
                 IN  <<t, t>>
  IN  <<at[1] - plan.offset, at[2] - plan.offset>>

execute_vector_query(plan, ctx) ==
  LET read(ids, r, level) ==
        IF ids = {} THEN <<>>
        ELSE IF should_use_parallel(Cardinality(ids), r[2] - r[1])
             THEN execute_vector_query_parallel(ids, r[1], r[2], level)
             ELSE query_with_downsample(plan.matchers, r[1], r[2], level)
      over(r) == read(find_series(plan.matchers), r, from_query_range(r[2] - r[1]))
  IN  over(QueryRange(plan, ctx))

\* The range of a matrix selector is not used.
execute_matrix_query(plan, ctx) == execute_vector_query(plan.vector, ctx)

\* One evaluation per step; every series of every step is a series of the result.
execute_subquery(plan, ctx) ==
  LET steps == plan.range \div plan.resolution
      time(i) == ctx.end - plan.range + i * plan.resolution
      at(i) == execute_plan(plan.expr, [start |-> time(i), end |-> time(i), step |-> plan.resolution])
      stamped(i) == MapSeq(at(i).series, LAMBDA s : Series(s.id, s.labels,
                           MapSeq(s.samples, LAMBDA x : Sample(time(i), x.v))))
  IN  IF \E i \in 0..steps : ~at(i).ok THEN Err
      ELSE Ok(FlattenSeq([i \in 1..(steps + 1) |-> stamped(i - 1)]))

-----------------------------------------------------------------------------
(* Functions of the samples of one series.                                  *)

Pairs(samples) == [i \in 1..(Len(samples) - 1) |-> <<samples[i], samples[i + 1]>>]

calculate_rate(samples) ==
  LET kept == SelectSeq(Pairs(samples), LAMBDA p : p[2].t > p[1].t /\ RLe(p[1].v, p[2].v))
  IN  IF Len(samples) < 2 THEN <<>>
      ELSE MapSeq(kept, LAMBDA p : Sample(p[2].t, RDiv(RSub(p[2].v, p[1].v), Whole(p[2].t - p[1].t))))

calculate_irate(samples) ==
  IF Len(samples) < 2 THEN <<>>
  ELSE LET prev == samples[Len(samples) - 1]
           curr == Last(samples)
       IN  IF curr.t <= prev.t THEN <<>>
           ELSE <<Sample(curr.t, RDiv(RSub(curr.v, prev.v), Whole(curr.t - prev.t)))>>

calculate_increase(samples) ==
  IF Len(samples) < 2 \/ Last(samples).t <= Head(samples).t THEN <<>>
  ELSE <<Sample(Last(samples).t, RSub(Last(samples).v, Head(samples).v))>>

calculate_delta(samples) ==
  IF Len(samples) < 2 THEN <<>>
  ELSE <<Sample(Last(samples).t, RSub(Last(samples).v, Head(samples).v))>>

calculate_idelta(samples) ==
  IF Len(samples) < 2 THEN <<>>
  ELSE <<Sample(Last(samples).t, RSub(Last(samples).v, samples[Len(samples) - 1].v))>>

calculate_resets(samples) ==
  IF Len(samples) < 2 THEN 0 ELSE Len(SelectSeq(Pairs(samples), LAMBDA p : RLt(p[2].v, p[1].v)))

calculate_changes(samples) ==
  IF Len(samples) < 2 THEN 0 ELSE Len(SelectSeq(Pairs(samples), LAMBDA p : p[2].v # p[1].v))

\* The sums of the linear regression: of the times, the values and their products.
SumsOf(samples) ==
  FoldLeft(LAMBDA k, s : [n |-> k.n + 1, x |-> k.x + s.t, y |-> RAdd(k.y, s.v),
                          xy |-> RAdd(k.xy, RMul(Whole(s.t), s.v)), x2 |-> k.x2 + s.t * s.t],
           [n |-> 0, x |-> 0, y |-> Zero, xy |-> Zero, x2 |-> 0], samples)

Denominator(k) == k.n * k.x2 - k.x * k.x
Slope(k) == RDiv(RSub(RMul(Whole(k.n), k.xy), RMul(Whole(k.x), k.y)), Whole(Denominator(k)))
Intercept(k, slope) == RDiv(RSub(k.y, RMul(slope, Whole(k.x))), Whole(k.n))

\* The slope, as an option: no value or one.
SlopeOption(k) == IF Denominator(k) = 0 THEN <<>> ELSE <<Slope(k)>>

calculate_deriv(samples) ==
  IF Len(samples) < 2 THEN <<>>
  ELSE MapSeq(SlopeOption(SumsOf(samples)), LAMBDA slope : Sample(Last(samples).t, slope))

PredictionTicks == 6

\* The line of the sums k at the time t.
Predicted(k, t) == MapSeq(SlopeOption(k), LAMBDA slope : RAdd(RMul(slope, Whole(t)), Intercept(k, slope)))

calculate_predict_linear(samples) ==
  IF Len(samples) < 2 THEN <<>> ELSE Predicted(SumsOf(samples), Last(samples).t + PredictionTicks)

calculate_holt_winters(samples, alpha, beta) ==
  LET Mix(c, a, b) == RAdd(RMul(c, a), RMul(RSub(Whole(1), c), b))
      Next2(acc, t, level, trend) ==
        [level |-> level, trend |-> trend, out |-> Append(acc.out, Sample(t, RAdd(level, trend)))]
      At(acc, t, level) == Next2(acc, t, level, Mix(beta, RSub(level, acc.level), acc.trend))
      Step(acc, s) == At(acc, s.t, Mix(alpha, s.v, RAdd(acc.level, acc.trend)))
  IN  IF Len(samples) < 2 THEN <<>>
      ELSE FoldLeft(Step, [level |-> samples[1].v, trend |-> RSub(samples[2].v, samples[1].v),
                           out |-> <<>>], Tail(samples)).out

execute_rate(plan, ctx) ==
  Arity(plan, 1, Then(Arg(plan, 1, ctx), LAMBDA s : NonEmpty(WithSamples(s, calculate_rate))))

execute_irate(plan, ctx) ==
  Arity(plan, 1, Then(Arg(plan, 1, ctx), LAMBDA s : NonEmpty(WithSamples(s, calculate_irate))))

execute_increase(plan, ctx) ==
  Arity(plan, 1, Then(Arg(plan, 1, ctx), LAMBDA s : NonEmpty(WithSamples(s, calculate_increase))))

execute_delta(plan, ctx) ==
  Arity(plan, 1, Then(Arg(plan, 1, ctx), LAMBDA s : NonEmpty(WithSamples(s, calculate_delta))))

execute_idelta(plan, ctx) ==
  Arity(plan, 1, Then(Arg(plan, 1, ctx), LAMBDA s : NonEmpty(WithSamples(s, calculate_idelta))))

execute_deriv(plan, ctx) ==
  Arity(plan, 1, Then(Arg(plan, 1, ctx), LAMBDA s : NonEmpty(WithSamples(s, calculate_deriv))))

execute_resets(plan, ctx) ==
  Arity(plan, 1, Then(Arg(plan, 1, ctx),
                      LAMBDA s : OnePoint(s, LAMBDA q : Whole(calculate_resets(q)), ctx.end)))

execute_changes(plan, ctx) ==
  Arity(plan, 1, Then(Arg(plan, 1, ctx),
                      LAMBDA s : OnePoint(s, LAMBDA q : Whole(calculate_changes(q)), ctx.end)))

\* The horizon is sixty seconds, whatever the second argument says.
execute_predict_linear(plan, ctx) ==
  LET one(x) == Series(x.id, x.labels,
                  MapSeq(calculate_predict_linear(x.samples), LAMBDA v : Sample(ctx.end, v)))
  IN  Arity(plan, 2, Then(Arg(plan, 1, ctx), LAMBDA s : NonEmpty(MapSeq(s, one))))

execute_holt_winters(plan, ctx) ==
  Arity(plan, 3, Then(Arg(plan, 1, ctx), LAMBDA s : NonEmpty(WithSamples(s,
    LAMBDA q : calculate_holt_winters(q, Frac(3, 10), Frac(1, 10))))))

-----------------------------------------------------------------------------
(* Aggregation over all series, as a call.                                  *)

\* The sums by timestamp, in time order; the labels are those of the first series.
SumsByTime(all) ==
  MapSeq(Ascending({x.t : x \in Range(all)}),
         LAMBDA t : Sample(t, RSum(ValuesOf(SelectSeq(all, LAMBDA x : x.t = t)))))

SumSeries(batch) == Series(0, batch[1].labels, SumsByTime(AllSamples(batch)))

Batches(list, size) ==
  LET n == (Len(list) + size - 1) \div size
  IN  [i \in 1..n |-> SubSeq(list, (i - 1) * size + 1, IF i * size < Len(list) THEN i * size ELSE Len(list))]

\* ParallelQueryExecutor::parallel_aggregate: the batches' aggregates, in the
\* order in which they arrive, are aggregated again.  Its only caller passes the
\* sums by timestamp.
parallel_aggregate(list) ==
  LET size == (Len(list) + MaxConcurrency - 1) \div MaxConcurrency
      Arrived(partial) == IF flip THEN Reverse(partial) ELSE partial
      Merged(partial) == IF Len(partial) = 1 THEN partial[1] ELSE SumSeries(Arrived(partial))
  IN  IF Len(list) = 1 THEN list[1] ELSE Merged(MapSeq(Batches(list, size), SumSeries))

execute_sum(plan, ctx) ==
  Arity(plan, 1, Then(Arg(plan, 1, ctx), LAMBDA s :
    IF s = <<>> THEN <<>>
    ELSE IF Len(s) > ParallelSumAbove THEN <<parallel_aggregate(s)>>
    ELSE <<SumSeries(s)>>))

\* avg, min, max, count, stddev, stdvar and quantile answer one sample at ctx.start.
Single(s, t, v) == <<Series(0, s[1].labels, <<Sample(t, v)>>)>>

execute_avg(plan, ctx) ==
  Arity(plan, 1, Then(Arg(plan, 1, ctx), LAMBDA s :
    IF AllSamples(s) = <<>> THEN <<>> ELSE Single(s, ctx.start, RMean(ValuesOf(AllSamples(s))))))

execute_min(plan, ctx) ==
  Arity(plan, 1, Then(Arg(plan, 1, ctx), LAMBDA s :
    IF s = <<>> THEN <<>> ELSE Single(s, ctx.start, FoldLeft(RMin, MaxF, ValuesOf(AllSamples(s))))))

execute_max(plan, ctx) ==
  Arity(plan, 1, Then(Arg(plan, 1, ctx), LAMBDA s :
    IF s = <<>> THEN <<>> ELSE Single(s, ctx.start, FoldLeft(RMax, MinF, ValuesOf(AllSamples(s))))))

execute_count(plan, ctx) ==
  Arity(plan, 1, Then(Arg(plan, 1, ctx), LAMBDA s :
    IF AllSamples(s) = <<>> THEN <<>> ELSE Single(s, ctx.start, Whole(Len(AllSamples(s))))))

Square(v) == RMul(v, v)
MeanSquare(values, mean) == RMean(MapSeq(values, LAMBDA v : Square(RSub(v, mean))))
Variance(values) == MeanSquare(values, RMean(values))

execute_stddev(plan, ctx) ==
  Arity(plan, 1, Then(Arg(plan, 1, ctx), LAMBDA s :
    IF AllSamples(s) = <<>> THEN <<>>
    ELSE Single(s, ctx.start, RealFn("sqrt", Variance(ValuesOf(AllSamples(s)))))))

execute_stdvar(plan, ctx) ==
  Arity(plan, 1, Then(Arg(plan, 1, ctx), LAMBDA s :
    IF AllSamples(s) = <<>> THEN <<>> ELSE Single(s, ctx.start, Variance(ValuesOf(AllSamples(s))))))

\* The samples as series of one sample each, sorted by value, the first k.
FirstK(s, k, descending) ==
  LET before(a, b) == IF descending THEN RLt(b, a) ELSE RLt(a, b)
      each(x) == MapSeq(x.samples, LAMBDA q : Series(x.id, x.labels, <<q>>))
      Truncated(sorted) == SubSeq(sorted, 1, IF k < Len(sorted) THEN k ELSE Len(sorted))
  IN  Truncated(SortBy(FlattenSeq(MapSeq(s, each)), LAMBDA a, b : before(a.samples[1].v, b.samples[1].v)))

\* k is 0 when the planner found none, and then the answer is empty.
execute_topk(plan, ctx) ==
  Arity(plan, 2, Then(Arg(plan, 2, ctx), LAMBDA s :
    IF plan.k = 0 THEN <<>> ELSE FirstK(s, plan.k, TRUE)))

execute_bottomk(plan, ctx) ==
  Arity(plan, 2, Then(Arg(plan, 2, ctx), LAMBDA s : IF plan.k = 0 THEN <<>> ELSE FirstK(s, plan.k, FALSE)))

\* Linear interpolation between the closest ranks.
Between(low, high, fraction) == RAdd(RMul(low, RSub(Whole(1), fraction)), RMul(high, fraction))

AtPosition(sorted, position, lo, hi) ==
  IF lo = hi THEN sorted[lo + 1] ELSE Between(sorted[lo + 1], sorted[hi + 1], RSub(position, Whole(lo)))

AtQuantile(sorted, q, position) ==
  IF Len(sorted) = 1 \/ q = Zero THEN sorted[1]
  ELSE IF q = Whole(1) THEN Last(sorted)
  ELSE AtPosition(sorted, position, RFloor(position), RCeil(position))

QuantileOf(values, q) == AtQuantile(SortBy(values, RLt), q, RMul(q, Whole(Len(values) - 1)))

InUnit(q) == RLe(Zero, q) /\ RLe(q, Whole(1))

\* The quantile is checked after the argument has been evaluated.
execute_quantile(plan, ctx) ==
  Arity(plan, 2, IF ~InUnit(plan.quantile) THEN Err
                 ELSE Then(Arg(plan, 2, ctx), LAMBDA s : IF AllSamples(s) = <<>> THEN <<>>
                        ELSE Single(s, ctx.start, QuantileOf(ValuesOf(AllSamples(s)), plan.quantile))))

\* One series per distinct value; the label is named by the value of the only
\* matcher of the first argument.
execute_count_values(plan, ctx) ==
  LET first == plan.args[1]
      label == IF first.kind = "vector" /\ Cardinality(first.matchers) = 1
               THEN (CHOOSE m \in first.matchers : TRUE)[2] ELSE "value"
      count(all, v) == Len(SelectSeq(all, LAMBDA x : x = v))
      distinct(all) == SetToSeq(Range(all))
  IN  Arity(plan, 2, Then(Arg(plan, 2, ctx), LAMBDA s :
        LET all == ValuesOf(AllSamples(s))
        IN  MapSeq(distinct(all), LAMBDA v :
              Series(0, {<<label, v>>}, <<Sample(ctx.start, Whole(count(all, v)))>>))))

-----------------------------------------------------------------------------
(* Aggregation with grouping labels.                                        *)

\* Mutant: `without' groups by the labels it names.
GroupKeyBy(labels, grouping, without) == {l \in labels : l[1] \in grouping}

GroupKey(labels, grouping, without) ==
  {l \in labels : IF without THEN l[1] \notin grouping ELSE l[1] \in grouping}

Supported == {"sum", "avg", "min", "max", "count", "stddev", "stdvar"}

Aggregate(op, values) ==
  CASE op = "sum"    -> RSum(values)
    [] op = "avg"    -> RMean(values)
    [] op = "min"    -> FoldLeft(RMin, MaxF, values)
    [] op = "max"    -> FoldLeft(RMax, MinF, values)
    [] op = "count"  -> Whole(Len(values))
    [] op = "stddev" -> RealFn("sqrt", Variance(values))
    [] op = "stdvar" -> Variance(values)

\* One sample per timestamp of the group, in hash order.
AggregatesByTime(op, all) ==
  MapSeq(HashOrder({x.t : x \in Range(all)}),
         LAMBDA t : Sample(t, Aggregate(op, ValuesOf(SelectSeq(all, LAMBDA x : x.t = t)))))

aggregate_group(op, key, group) == Series(0, key, AggregatesByTime(op, AllSamples(group)))

\* The groups come out in hash order; a group without samples keeps its series,
\* and an operator that is not supported is only noticed at a sample.
execute_aggregation(plan, ctx) ==
  LET key(x) == GroupKey(x.labels, plan.grouping, plan.without)
      keys(s) == [i \in DOMAIN s |-> key(s[i])]
      first(ks) == {i \in DOMAIN ks : \A j \in 1..(i - 1) : ks[j] # ks[i]}
      members(s, ks, i) == [j \in DOMAIN s |-> IF ks[j] = ks[i] THEN <<s[j]>> ELSE <<>>]
      groups(s, ks) == MapSeq(HashOrder(first(ks)), LAMBDA i :
                         aggregate_group(plan.op, ks[i], FlattenSeq(members(s, ks, i))))
      answer(r) == IF r.ok /\ AllSamples(r.series) # <<>> /\ plan.op \notin Supported THEN Err
                   ELSE Then(r, LAMBDA s : groups(s, keys(s)))
  IN  answer(execute_plan(plan.expr, ctx))

-----------------------------------------------------------------------------
(* Operators.                                                               *)

Truth(b) == IF b THEN Whole(1) ELSE Zero

\* `%' of f64 takes the sign of the dividend.
FMod(a, b) ==
  LET Truncated(q) == IF RLt(q, Zero) THEN RCeil(q) ELSE RFloor(q)
  IN  RSub(a, RMul(Whole(Truncated(RDiv(a, b))), b))

Scalar2(op, a, b) ==
  CASE op = "+" -> RAdd(a, b)
    [] op = "-" -> RSub(a, b)
    [] op = "*" -> RMul(a, b)
    [] op = "/" -> IF b = Zero THEN NaN ELSE RDiv(a, b)
    [] op = "%" -> IF b = Zero THEN NaN ELSE FMod(a, b)
    [] op = "^" -> RealFn("pow", <<a, b>>)
    [] op = "==" -> Truth(REq(a, b))
    [] op = "!=" -> Truth(~REq(a, b))
    [] op = "<" -> Truth(RLt(a, b))
    [] op = "<=" -> Truth(RLt(a, b) \/ REq(a, b))
    [] op = ">" -> Truth(RLt(b, a))
    [] op = ">=" -> Truth(RLt(b, a) \/ REq(a, b))

apply_binary_op_to_samples(lhs, rhs, op) ==
  LET partner(x) == SelectSeq(rhs, LAMBDA y : y.t = x.t)
      kept == SelectSeq(lhs, LAMBDA x : partner(x) # <<>>)
  IN  MapSeq(kept, LAMBDA x : Sample(x.t, Scalar2(op, x.v, partner(x)[1].v)))

\* Series are matched by id; when that gives nothing, by position.
execute_binary_op(lhs, rhs, op) ==
  LET on(x, y) == [x EXCEPT !.samples = apply_binary_op_to_samples(x.samples, y.samples, op)]
      same(x) == MapSeq(SelectSeq(rhs, LAMBDA y : y.id = x.id), LAMBDA y : on(x, y))
      Otherwise(byId) == IF byId = <<>> /\ Len(lhs) = Len(rhs)
                         THEN NonEmpty([i \in DOMAIN lhs |-> on(lhs[i], rhs[i])]) ELSE byId
  IN  Otherwise(NonEmpty(FlattenSeq(MapSeq(lhs, same))))

execute_set_op(lhs, rhs, op) ==
  LET lids == {x.id : x \in Range(lhs)}
      rids == {x.id : x \in Range(rhs)}
      result == CASE op = "and" -> lids \cap rids
                  [] op = "or" -> lids \cup rids
                  [] op = "unless" -> lids \ rids
  IN  SelectSeq(lhs, LAMBDA x : x.id \in result) \o
      IF op = "or" THEN SelectSeq(rhs, LAMBDA x : x.id \in result \ lids) ELSE <<>>

execute_binary_expr(plan, ctx) ==
  LET of(l, r) == IF ~l.ok \/ ~r.ok THEN Err
                  ELSE IF plan.op \in {"and", "or", "unless"} THEN Ok(execute_set_op(l.series, r.series, plan.op))
                  ELSE Ok(execute_binary_op(l.series, r.series, plan.op))
  IN  of(execute_plan(plan.lhs, ctx), execute_plan(plan.rhs, ctx))

execute_unary_expr(plan, ctx) ==
  Then(execute_plan(plan.expr, ctx), LAMBDA s :
    WithValues(s, LAMBDA v : IF plan.op = "-" THEN RNeg(v) ELSE v))

-----------------------------------------------------------------------------
(* Functions of the value, of the time and of the labels.                   *)

\* f64::round, half away from zero.
RoundOf(v) ==
  LET up == RFloor(RAdd(<<AbsI(v[1]), v[2]>>, Frac(1, 2)))
  IN  Whole(IF v[1] < 0 THEN -up ELSE up)

\* The function of a value that each arm of execute_call passes.
OfValue(f, v) ==
  CASE f = "abs" -> <<AbsI(v[1]), v[2]>>
    [] f = "ceil" -> Whole(RCeil(v))
    [] f = "floor" -> Whole(RFloor(v))
    [] f = "round" -> RoundOf(v)
    [] OTHER -> RealFn(f, v)

execute_math_unary(plan, ctx, f) ==
  Arity(plan, 1, Then(Arg(plan, 1, ctx), LAMBDA s : WithValues(s, LAMBDA v : OfValue(f, v))))

\* A second argument is announced and then rejected by execute_math_unary.
execute_round(plan, ctx) == execute_math_unary(plan, ctx, "round")

ClampLow == Zero
ClampHigh == Whole(100)

\* The bounds are fixed, whatever the arguments say.
execute_clamp(plan, ctx) ==
  Arity(plan, 3, Then(Arg(plan, 1, ctx), LAMBDA s :
    WithValues(s, LAMBDA v : RMin(RMax(v, ClampLow), ClampHigh))))

execute_clamp_max(plan, ctx) ==
  Arity(plan, 2, Then(Arg(plan, 1, ctx), LAMBDA s : WithValues(s, LAMBDA v : RMin(v, ClampHigh))))

execute_clamp_min(plan, ctx) ==
  Arity(plan, 2, Then(Arg(plan, 1, ctx), LAMBDA s : WithValues(s, LAMBDA v : RMax(v, ClampLow))))

Seconds(t) == Whole(10 * t)

execute_time(ctx) == Ok(<<Series(0, {}, <<Sample(ctx.start, Seconds(ctx.start))>>)>>)

execute_timestamp(plan, ctx) ==
  Arity(plan, 1, Then(Arg(plan, 1, ctx), LAMBDA s :
    WithSamples(s, LAMBDA q : MapSeq(q, LAMBDA x : Sample(x.t, Seconds(x.t))))))

\* The label functions check the number of arguments and change nothing.
execute_label_replace(plan, ctx) == Arity(plan, 5, Arg(plan, 1, ctx))

execute_label_join(plan, ctx) == IF Len(plan.args) < 4 THEN Err ELSE Arg(plan, 1, ctx)

execute_sort(plan, ctx, descending) ==
  LET first(x) == IF x.samples = <<>> THEN Zero ELSE x.samples[1].v
  IN  Arity(plan, 1, Then(Arg(plan, 1, ctx), LAMBDA s :
        SortBy(s, LAMBDA a, b : IF descending THEN RLt(first(b), first(a)) ELSE RLt(first(a), first(b)))))

execute_absent(plan, ctx) ==
  Arity(plan, 1, Then(Arg(plan, 1, ctx), LAMBDA s :
    IF AllSamples(s) = <<>> THEN <<Series(0, {}, <<Sample(ctx.start, Whole(1))>>)>> ELSE <<>>))

execute_absent_over_time(plan, ctx) ==
  Arity(plan, 1, Then(Arg(plan, 1, ctx), LAMBDA s :
    OnePoint(SelectSeq(s, LAMBDA x : x.samples = <<>>), LAMBDA q : Whole(1), ctx.end)))

execute_present_over_time(plan, ctx) ==
  Arity(plan, 1, Then(Arg(plan, 1, ctx), LAMBDA s : OnePoint(s, LAMBDA q : Whole(Len(q)), ctx.end)))

\* The rank is 0.99 of the last index, whatever the first argument says.
execute_histogram_quantile(plan, ctx) ==
  LET rank(q) == SortBy(ValuesOf(q), RLt)[((99 * (Len(q) - 1)) \div 100) + 1]
  IN  Arity(plan, 2, Then(Arg(plan, 2, ctx), LAMBDA s : OnePoint(NonEmpty(s), rank, ctx.end)))

execute_scalar(plan, ctx) ==
  Arity(plan, 1, Then(Arg(plan, 1, ctx), LAMBDA s :
    <<Series(0, {}, <<Sample(ctx.start, IF Len(s) = 1 /\ Len(s[1].samples) = 1
                                        THEN s[1].samples[1].v ELSE NaN)>>)>>))

execute_vector(plan, ctx) ==
  Arity(plan, 1, Then(Arg(plan, 1, ctx), LAMBDA s :
    IF Len(s) = 1 /\ s[1].labels # {} /\ Len(s[1].samples) = 1
    THEN <<Series(0, {}, <<Sample(ctx.start, s[1].samples[1].v)>>)>> ELSE s))

RealFunctions == {"exp", "ln", "log2", "log10", "sqrt", "sin", "cos", "tan", "asin", "acos",
                  "atan", "sinh", "cosh", "tanh", "atanh"}

\* A function the parser knows and this match does not is an error.
execute_call(plan, ctx) ==
  LET f == plan.func
  IN CASE f = "rate" -> execute_rate(plan, ctx)
       [] f = "irate" -> execute_irate(plan, ctx)
       [] f = "increase" -> execute_increase(plan, ctx)
       [] f = "delta" -> execute_delta(plan, ctx)
       [] f = "idelta" -> execute_idelta(plan, ctx)
       [] f = "resets" -> execute_resets(plan, ctx)
       [] f = "changes" -> execute_changes(plan, ctx)
       [] f = "deriv" -> execute_deriv(plan, ctx)
       [] f = "predict_linear" -> execute_predict_linear(plan, ctx)
       [] f = "holt_winters" -> execute_holt_winters(plan, ctx)
       [] f = "sum" -> execute_sum(plan, ctx)
       [] f = "avg" -> execute_avg(plan, ctx)
       [] f = "min" -> execute_min(plan, ctx)
       [] f = "max" -> execute_max(plan, ctx)
       [] f = "count" -> execute_count(plan, ctx)
       [] f = "stddev" -> execute_stddev(plan, ctx)
       [] f = "stdvar" -> execute_stdvar(plan, ctx)
       [] f = "topk" -> execute_topk(plan, ctx)
       [] f = "bottomk" -> execute_bottomk(plan, ctx)
       [] f = "quantile" -> execute_quantile(plan, ctx)
       [] f = "count_values" -> execute_count_values(plan, ctx)
       [] f \in {"abs", "ceil", "floor"} -> execute_math_unary(plan, ctx, f)
       [] f = "round" -> execute_round(plan, ctx)
       [] f = "clamp" -> execute_clamp(plan, ctx)
       [] f = "clamp_max" -> execute_clamp_max(plan, ctx)
       [] f = "clamp_min" -> execute_clamp_min(plan, ctx)
       [] f \in RealFunctions -> execute_math_unary(plan, ctx, f)
       [] f = "time" -> execute_time(ctx)
       [] f = "timestamp" -> execute_timestamp(plan, ctx)
       [] f = "label_replace" -> execute_label_replace(plan, ctx)
       [] f = "label_join" -> execute_label_join(plan, ctx)
       [] f = "sort" -> execute_sort(plan, ctx, FALSE)
       [] f = "sort_desc" -> execute_sort(plan, ctx, TRUE)
       [] f = "absent" -> execute_absent(plan, ctx)
       [] f = "absent_over_time" -> execute_absent_over_time(plan, ctx)
       [] f = "present_over_time" -> execute_present_over_time(plan, ctx)
       [] f = "histogram_quantile" -> execute_histogram_quantile(plan, ctx)
       [] f = "scalar" -> execute_scalar(plan, ctx)
       [] f = "vector" -> execute_vector(plan, ctx)
       [] OTHER -> Err

execute_plan(plan, ctx) ==
  CASE plan.kind = "vector" -> Ok(execute_vector_query(plan, ctx))
    [] plan.kind = "matrix" -> Ok(execute_matrix_query(plan, ctx))
    [] plan.kind = "subquery" -> execute_subquery(plan, ctx)
    [] plan.kind = "call" -> execute_call(plan, ctx)
    [] plan.kind = "binary" -> execute_binary_expr(plan, ctx)
    [] plan.kind = "unary" -> execute_unary_expr(plan, ctx)
    [] plan.kind = "aggregation" -> execute_aggregation(plan, ctx)

-----------------------------------------------------------------------------
(* Properties.                                                              *)

Vec(matchers) == [kind |-> "vector", matchers |-> matchers, offset |-> 0, at |-> {}]
Call(f, args) == [kind |-> "call", func |-> f, args |-> args, k |-> 0, quantile |-> Frac(1, 2)]
Agg(op, expr, grouping, without) ==
  [kind |-> "aggregation", op |-> op, expr |-> expr, grouping |-> grouping, without |-> without]

Names == {p[1] : p \in AllPairs}
MatcherSets == SUBSET AskedPairs
Spans == {<<a, b>> \in (Times \cup {0}) \X Times : a <= b}
FullCtx == [start |-> 0, end |-> Max(Times), step |-> 1]
Read(m) == execute_vector_query(Vec(m), FullCtx)

\* What an aggregation answers, whatever the order: the value at each label set and time.
Points(s) == UNION {{<<x.labels, q.t, q.v>> : q \in Range(x.samples)} : x \in Range(s)}

InTimeOrder(q) == \A i \in 1..(Len(q) - 1) : q[i].t < q[i + 1].t

\* The parallel path of the executor, which reads whole series and downsamples
\* them itself, answers what the sequential path of the store answers, raw
\* and at the finest and the coarsest level, for every range; and the level the store chooses by itself is the
\* one the executor chooses (executor.rs:191, store.rs:131).
ParallelAgrees ==
  \A m \in MatcherSets, r \in Spans :
    /\ \A level \in {0, 1, 4} :
         execute_vector_query_parallel(find_series(m), r[1], r[2], level)
           = query_with_downsample(m, r[1], r[2], level)
    /\ auto_select_downsample_level(Hour * r[1], Hour * r[2]) = from_query_range(Hour * (r[2] - r[1]))

\* A downsampled point stands on the grid of its level and its value lies
\* between the least and the greatest stored value of its window; a series whose
\* samples are stored in time order has one point per window, in time order.
WindowsFaithful ==
  \A kept \in {Stored(entries[i]) : i \in DOMAIN entries}, level \in 1..4 :
    \A out \in {apply_downsampling(kept, level)}, res \in {resolution(level)} :
      /\ \A x \in Range(out) :
           /\ x.t % res = 0
           /\ \E y \in Range(kept) : WindowOf(y.t, res) = x.t /\ RLe(y.v, x.v)
           /\ \E y \in Range(kept) : WindowOf(y.t, res) = x.t /\ RLe(x.v, y.v)
      /\ {x.t : x \in Range(out)} = {WindowOf(x.t, res) : x \in Range(kept)}
      /\ InTimeOrder(kept) => InTimeOrder(out)

\* sum() computed in batches, whose partial sums arrive in any order, is sum()
\* computed at once, and both are `sum by ()' (executor.rs:440, parallel.rs:312).
BatchedSumAgrees ==
  \A m \in MatcherSets :
    \A s \in {Read(m)},
       sums \in {[p \in {Call("sum", <<Vec(m)>>), Agg("sum", Vec(m), {}, FALSE)} |-> execute_plan(p, FullCtx).series]} :
      s # <<>> =>
        \A once \in {SumSeries(s).samples} :
          /\ Len(s) > 1 => parallel_aggregate(s).samples = once
          /\ InTimeOrder(once)
          /\ sums[Call("sum", <<Vec(m)>>)][1].samples = once
          /\ Range(sums[Agg("sum", Vec(m), {}, FALSE)][1].samples) = Range(once)

-----------------------------------------------------------------------------
(* The laws of the functions.  LawPlans are the plans that the laws compare;  *)
(* `ask' is what the executor answers to each of them.                        *)

AskTop(m, k) == [Call("topk", <<Vec({}), Vec(m)>>) EXCEPT !.k = k]
AskBottom(m, k) == [Call("bottomk", <<Vec({}), Vec(m)>>) EXCEPT !.k = k]
AskQuantile(m, q) == [Call("quantile", <<Vec({}), Vec(m)>>) EXCEPT !.quantile = q]
AskSub(m, range, res) == [kind |-> "subquery", expr |-> Vec(m), range |-> range, resolution |-> res]

Ranks == 0..MaxWrites
Resolutions == 1..2
Quantiles == <<Zero, Frac(1, 4), Frac(1, 3), Frac(1, 2), Frac(3, 4), Whole(1)>>
NoQuantiles == {Frac(-1, 4), Frac(5, 4)}
\* The groupings with one label less.
Coarser(g) == {g \ {n} : n \in g}
\* An aggregation, and the one it is made from.
Additive == {<<op, op>> : op \in {"sum", "min", "max"}} \cup {<<"sum", "count">>}

LawPlans ==
  UNION {{Vec(m)}
         \cup {Agg(op, Vec(m), g, FALSE) : op \in {"sum", "min", "max", "count"}, g \in SUBSET Names}
         \cup {Agg("sum", Vec(m), g, TRUE) : g \in SUBSET Names}
         \cup UNION {{Agg(o[1], Agg(o[2], Vec(m), g, FALSE), h, FALSE) : o \in Additive, h \in Coarser(g)}
                     : g \in SUBSET Names}
         \cup {Call(f, <<Vec(m)>>) : f \in {"min", "max", "absent", "count", "scalar"}}
         \cup {AskTop(m, k) : k \in Ranks} \cup {AskBottom(m, k) : k \in Ranks}
         \cup {AskQuantile(m, q) : q \in Range(Quantiles) \cup NoQuantiles}
         \cup {AskSub(m, range, res) : range \in Times, res \in Resolutions}
         : m \in MatcherSets}

\* Aggregating by more labels and then by fewer is aggregating by fewer, for
\* sum, min and max, and counts add up; `without' the other labels is `by'
\* these (executor.rs:741).
AggregationComposes(ask) ==
  \A m \in MatcherSets, g \in SUBSET Names :
    /\ \A h \in Coarser(g), o \in Additive :
         Points(ask[Agg(o[1], Agg(o[2], Vec(m), g, FALSE), h, FALSE)].series)
           = Points(ask[Agg(o[2], Vec(m), h, FALSE)].series)
    /\ Points(ask[Agg("sum", Vec(m), Names \ g, TRUE)].series) = Points(ask[Agg("sum", Vec(m), g, FALSE)].series)

\* `and' and `unless' split the left operand, and `or' adds to it the series
\* the left one does not have, none of them twice (executor.rs:681).
SetOpsPartition(ask) ==
  \A a, b \in {ask[Vec(m)].series : m \in MatcherSets} :
    \A set \in {[op \in {"and", "or", "unless"} |-> execute_set_op(a, b, op)]} :
      /\ Range(set["and"]) \cup Range(set["unless"]) = Range(a)
      /\ Range(set["and"]) \cap Range(set["unless"]) = {}
      /\ Len(set["and"]) + Len(set["unless"]) = Len(a)
      /\ Range(set["or"]) = Range(a) \cup Range(b)
      /\ \A i, j \in DOMAIN set["or"] : set["or"][i].id = set["or"][j].id => i = j

Answered(r) == ValuesOf(AllSamples(r.series))
Occurrences(v, s) == Len(SelectSeq(s, LAMBDA x : x = v))

\* topk and bottomk answer k samples, or all of them, no sample left out lies
\* beyond one that is in, and topk of k with bottomk of the rest is everything.
TopkDominates(ask) ==
  \A m \in MatcherSets, k \in Ranks \ {0} :
    \A all \in {Answered(ask[Vec(m)])}, top \in {Answered(ask[AskTop(m, k)])} :
      /\ Len(top) = (IF k < Len(all) THEN k ELSE Len(all))
      /\ k < Len(all) =>
           \A rest \in {Answered(ask[AskBottom(m, Len(all) - k)])} :
             /\ \A i \in DOMAIN top, j \in DOMAIN rest : RLe(rest[j], top[i])
             /\ \A v \in Range(all) : Occurrences(v, all) = Occurrences(v, top \o rest)

FirstValue(r) == r.series[1].samples[1].v

\* A quantile lies between min() and max() and does not fall as q grows; q = 0
\* and q = 1 are the extremes, and a q outside [0, 1] is refused.
QuantileMonotone(ask) ==
  \A m \in MatcherSets :
    /\ \A q \in NoQuantiles : ~ask[AskQuantile(m, q)].ok
    /\ ask[Call("min", <<Vec(m)>>)].series # <<>> =>
         /\ FirstValue(ask[AskQuantile(m, Zero)]) = FirstValue(ask[Call("min", <<Vec(m)>>)])
         /\ FirstValue(ask[AskQuantile(m, Whole(1))]) = FirstValue(ask[Call("max", <<Vec(m)>>)])
         /\ \A k \in 1..(Len(Quantiles) - 1) :
              RLe(FirstValue(ask[AskQuantile(m, Quantiles[k])]), FirstValue(ask[AskQuantile(m, Quantiles[k + 1])]))

\* Without a counter reset and with the samples in time order, the rates times
\* the intervals add up to the increase; the rate over the last interval is
\* irate's; and for two samples the regression of deriv is the same line.
RatesAddUp ==
  \A q \in {Stored(entries[i]) : i \in DOMAIN entries} :
    (Len(q) > 1 /\ InTimeOrder(q)) =>
      \A rates \in {calculate_rate(q)}, irate \in {calculate_irate(q)[1]} :
        /\ calculate_resets(q) = 0 =>
             /\ Len(rates) = Len(q) - 1
             /\ RSum([k \in DOMAIN rates |-> RMul(rates[k].v, Whole(q[k + 1].t - q[k].t))])
                  = calculate_increase(q)[1].v
             /\ Last(rates) = irate
        /\ \A k \in DOMAIN rates : RLe(Zero, rates[k].v)
        /\ Len(q) = 2 => /\ calculate_deriv(q) = <<irate>>
                         /\ calculate_predict_linear(q)[1] = RAdd(q[2].v, RMul(irate.v, Whole(PredictionTicks)))

\* A subquery answers every stored sample that lies on one of its steps once
\* and nothing else, and no step lies beyond the end of the query.
SubqueryGrid(ask) ==
  \A m \in MatcherSets, range \in Times, res \in Resolutions :
    \A sub \in {ask[AskSub(m, range, res)].series},
       grid \in {{FullCtx.end - range + k * res : k \in 0..(range \div res)}} :
      /\ UNION {{<<x.id, q.t, q.v>> : q \in Range(x.samples)} : x \in Range(sub)}
           = UNION {{<<i, x.t, x.v>> : x \in {y \in Range(Stored(entries[i])) : y.t \in grid}}
                     : i \in find_series(m) \cap DOMAIN entries}
      /\ \A q \in Range(AllSamples(sub)) : q.t <= FullCtx.end

\* The matchers of the index split the live series: those equal to a value and
\* those not, and, among the series with the label, those that match a pattern
\* and those that do not; no matcher finds a series that was removed.
MatchersPartition ==
  \A name \in Names : \A value \in LabelValues(name), pattern \in SUBSET LabelValues(name) :
    \A by \in {[kind \in {"Equal", "NotEqual", "Regex", "NotRegex"} |-> lookup_by_matcher(name, kind, value, pattern)]} :
      /\ by["Equal"] \cap by["NotEqual"] = {} /\ by["Equal"] \cup by["NotEqual"] = DOMAIN entries
      /\ by["Regex"] \cap by["NotRegex"] = {}
      /\ by["Regex"] \cup by["NotRegex"] = {i \in DOMAIN entries : \E p \in LabelsOf[i] : p[1] = name}
      /\ find_series({<<name, value>>}) = by["Equal"]

\* absent() answers exactly when its argument has no sample, and scalar() is a
\* number exactly when its argument is one sample (executor.rs:1453, 1741).
AbsentOrPresent(ask) ==
  \A m \in MatcherSets :
    \A n \in {Len(AllSamples(ask[Vec(m)].series))} :
      /\ (ask[Call("absent", <<Vec(m)>>)].series = <<>>) = (n > 0)
      /\ (ask[Call("count", <<Vec(m)>>)].series = <<>>) = (n = 0)
      /\ (FirstValue(ask[Call("scalar", <<Vec(m)>>)]) = NaN) = (n # 1)

\* The ways to read and sum the same series agree: by matcher or by its
\* negation, at once or in windows, in sequence or in parallel batches.
ReadPathsAgree ==
  entries # <<>> => MatchersPartition /\ WindowsFaithful /\ ParallelAgrees /\ BatchedSumAgrees

\* The laws that PromQL's operators and functions obey on every small store.
FunctionsSound ==
  entries # <<>> =>
    /\ RatesAddUp
    /\ \A ask \in {[p \in LawPlans |-> execute_plan(p, FullCtx)]} :
         /\ AggregationComposes(ask) /\ SetOpsPartition(ask) /\ TopkDominates(ask)
         /\ QuantileMonotone(ask) /\ SubqueryGrid(ask) /\ AbsentOrPresent(ask)
=============================================================================
