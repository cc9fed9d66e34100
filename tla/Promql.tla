------------------------------- MODULE Promql -------------------------------
(***************************************************************************)
(* The query parser and planner, storage/src/query/parser.rs and            *)
(* planner.rs.  A query text is a sequence of tokens: names, durations,      *)
(* numbers and punctuation; blanks and quotes are left out.  The parser is a *)
(* set of searches in the text (the first parenthesis, the matching one, the *)
(* first bracket that closes at depth 0), and what it does not look for is   *)
(* part of a name or is dropped.                                            *)
(*                                                                         *)
(* The state is an expression that grows by the constructs the parser knows; *)
(* Render writes it as text, and the properties are about reading it back.   *)
(***************************************************************************)
EXTENDS Integers, Sequences, SequencesExt, FiniteSets

CONSTANTS
  Metrics, LabelNames, LabelValues_, \* names in queries
  RangeFunctions, Aggregators,       \* Function::from_name, by kind
  DurationOf,                        \* [duration tokens -> ticks]
  NumberOf,                          \* [number tokens -> integer]
  MaxDepth                           \* bound on the constructs of an expression

VARIABLE expr

Good(e) == [st |-> "ok", e |-> e]
Bad == [st |-> "err", e |-> <<>>]
Panic == [st |-> "panic", e |-> <<>>]
Get(S) == CHOOSE x \in S : TRUE

\* The least of a set of positions, 0 for none.
First(S) == IF S = {} THEN 0 ELSE CHOOSE i \in S : \A j \in S : i <= j

\* The position of the first token t of q, 0 for none.
Find(q, t) == First({i \in DOMAIN q : q[i] = t})

From(q, i) == SubSeq(q, i, Len(q))

Depth(q, i, open, close) ==
  Cardinality({j \in 1..i : q[j] \in open}) - Cardinality({j \in 1..i : q[j] \in close})

\* The parenthesis that closes the one at position p, 0 for none.
Matching(q, p) ==
  First({i \in (p + 1)..Len(q) : q[i] = ")" /\ Depth(From(q, p), i - p + 1, {"("}, {")"}) = 0})

\* The parts of q between the positions of an ascending list.
Parts(q, at) == [k \in 1..(Len(at) - 1) |-> SubSeq(q, at[k] + 1, at[k + 1] - 1)]

Split(q, sep, nested) ==
  LET cuts == {i \in DOMAIN q : q[i] = sep /\ (nested => Depth(q, i, {"(", "[", "{"}, {")", "]", "}"}) = 0)}
  IN  Parts(q, SelectSeq([i \in 1..(Len(q) + 2) |-> i - 1], LAMBDA i : i \in cuts \cup {0, Len(q) + 1}))

Vector(name, matchers, offset, at) ==
  [kind |-> "vector", name |-> name, matchers |-> matchers, offset |-> offset, at |-> at]
Matrix(v, range) == [kind |-> "matrix", vector |-> v, range |-> range]
Subquery(e, range, res) == [kind |-> "subquery", expr |-> e, range |-> range, resolution |-> res]
CallOf(f, args) == [kind |-> "call", func |-> f, args |-> args]
Aggregation(op, e, grouping, without) ==
  [kind |-> "aggregation", op |-> op, expr |-> e, grouping |-> grouping, without |-> without]

-----------------------------------------------------------------------------
(* The parser.                                                              *)

RECURSIVE parse_promql(_)

parse_duration(q) ==
  IF Len(q) = 1 /\ q[1] \in DOMAIN DurationOf THEN Good(DurationOf[q[1]]) ELSE Bad

parse_offset_modifier(q) ==
  LET Signed(r) == IF r.st # "ok" THEN Bad ELSE Good(IF q[1] = "-" THEN -r.e ELSE r.e)
  IN  Signed(parse_duration(IF q # <<>> /\ q[1] \in {"-", "+"} THEN Tail(q) ELSE q))

\* start() and end() are the timestamps -1 and -2.
parse_at_modifier(q) ==
  IF q = <<"start", "(", ")">> THEN Good(-1)
  ELSE IF q = <<"end", "(", ")">> THEN Good(-2)
  ELSE IF Len(q) = 1 /\ q[1] \in DOMAIN NumberOf THEN Good(NumberOf[q[1]])
  ELSE Bad

\* Every part with an `=' is an equality: what stands before it is the name,
\* what stands behind it the value; a part without one is dropped.
parse_matchers(q) ==
  LET Named(p) == Find(p, "=") # 0
      Pair(p, i) == <<SubSeq(p, 1, i - 1), From(p, i + 1)>>
      Each(parts) == [k \in DOMAIN parts |-> Pair(parts[k], Find(parts[k], "="))]
  IN  Each(SelectSeq(Split(q, ",", FALSE), Named))

\* What stands before and behind position i; nothing is behind position 0.
Upto(q, i) == IF i = 0 THEN q ELSE SubSeq(q, 1, i - 1)
Option(r, found) == IF found THEN {r.e} ELSE {}

\* The name and the matchers in braces.
ParseBase(base, b, offset, at) ==
  IF b = 0 THEN Good(Vector({base}, <<>>, offset, at))
  ELSE IF b = Len(base) THEN Panic
  ELSE Good(Vector(IF b > 1 THEN {SubSeq(base, 1, b - 1)} ELSE {},
                   parse_matchers(SubSeq(base, b + 1, Len(base) - 1)), offset, at))

\* The @ of the text before the offset; a is its position.
ParseAt(rest, a, offset) ==
  LET Based(base, at) == IF at.st # "ok" THEN Bad ELSE ParseBase(base, Find(base, "{"), offset, Option(at, a # 0))
  IN  Based(Upto(rest, a), IF a = 0 THEN Good({}) ELSE parse_at_modifier(From(rest, a + 1)))

\* The offset at position o cuts the text; an @ behind it only ends it.
ParseOffset(q, o) ==
  LET Value(after) == Upto(after, Find(after, "@"))
      Placed(rest, r) == IF r.st # "ok" THEN Bad ELSE ParseAt(rest, Find(rest, "@"), Option(r, o # 0))
  IN  Placed(Upto(q, o), IF o = 0 THEN Good({}) ELSE parse_offset_modifier(Value(From(q, o + 1))))

\* The offset is looked for first, between other tokens.
parse_vector_selector(q) ==
  LET Inside(o) == IF o > 1 /\ o < Len(q) THEN o ELSE 0
  IN  ParseOffset(q, Inside(Find(q, "offset")))

\* The bracket that opens the first `]' at depth 0.
find_outermost_bracket(q) ==
  LET Opens(end) == {j \in 1..end : q[j] = "[" /\ Depth(SubSeq(q, j, end), end - j + 1, {"["}, {"]"}) = 0}
      Latest(S) == IF S = {} THEN 0 ELSE CHOOSE j \in S : \A k \in S : k <= j
  IN  Latest(Opens(First({i \in DOMAIN q : q[i] = "]" /\ Depth(q, i, {"(", "["}, {")", "]"}) = 0})))

\* [range:resolution] with exactly one colon.
RangeAndResolution(parts) ==
  LET Both(range, res) == IF range.st # "ok" \/ res.st # "ok" THEN Bad ELSE Good(<<range.e, res.e>>)
  IN  IF Len(parts) # 2 THEN Bad ELSE Both(parse_duration(parts[1]), parse_duration(parts[2]))

\* e over the range and resolution that were read.
SubqueryOf(e, r) == IF r.st # "ok" THEN Bad ELSE Good(Subquery(e, r.e[1], r.e[2]))

parse_subquery_suffix(e, q) ==
  IF q[1] # "[" \/ Last(q) # "]" THEN Bad
  ELSE SubqueryOf(e, RangeAndResolution(Split(SubSeq(q, 2, Len(q) - 1), ":", FALSE)))

HasSuffix(q) == q # <<>> /\ q[1] = "[" /\ Find(q, ":") # 0

\* What follows an expression and is not a subquery suffix is dropped.
WithSuffix(e, q) == IF HasSuffix(q) THEN parse_subquery_suffix(e, q) ELSE Good(e)

\* "(labels) rest": the labels and the rest, or an error.
parse_grouping_labels(q) ==
  LET Labels(close) ==
        IF close = 0 THEN Bad
        ELSE Good([labels |-> SelectSeq(Split(SubSeq(q, 2, close - 1), ",", FALSE), LAMBDA l : l # <<>>),
                   rest |-> From(q, close + 1)])
  IN  Labels(IF q = <<>> \/ q[1] # "(" THEN 0 ELSE Matching(q, 1))

\* The clause of the labels g.
ClauseOf(g, without) ==
  IF g.st # "ok" THEN Bad ELSE Good([labels |-> g.e.labels, without |-> without, rest |-> g.e.rest])

\* Mutant: `without' is read as `by'.
ClauseBy(q, default) ==
  IF q # <<>> /\ q[1] \in {"by", "without"} THEN ClauseOf(parse_grouping_labels(Tail(q)), FALSE)
  ELSE Good([default EXCEPT !.rest = q])

\* An optional by or without clause at the front of q.
Clause(q, default) ==
  IF q # <<>> /\ q[1] \in {"by", "without"} THEN ClauseOf(parse_grouping_labels(Tail(q)), q[1] = "without")
  ELSE Good([default EXCEPT !.rest = q])

\* A clause behind the expression replaces the one in front of it.
parse_aggregation(q, op) ==
  LET Joined_(inner, back) ==
        IF inner.st # "ok" THEN inner
        ELSE IF back.st # "ok" THEN Bad
        ELSE WithSuffix(Aggregation(op, inner.e, back.e.labels, back.e.without), back.e.rest)
      Closed(front, body, close) ==
        IF close = 0 THEN Bad
        ELSE Joined_(parse_promql(SubSeq(body, 2, close - 1)), Clause(From(body, close + 1), front))
      Body(front, body) == Closed(front, body, IF body = <<>> \/ body[1] # "(" THEN 0 ELSE Matching(body, 1))
      Fronted(front) == IF front.st # "ok" THEN Bad ELSE Body(front.e, front.e.rest)
  IN  Fronted(Clause(Tail(q), [labels |-> <<>>, without |-> FALSE, rest |-> <<>>]))

\* The arguments, cut at the commas of depth 0; the first error is the answer.
parse_args(q) ==
  LET Args(parsed, bad) == IF bad # 0 THEN parsed[bad] ELSE Good([i \in DOMAIN parsed |-> parsed[i].e])
      Checked(parsed) == Args(parsed, First({i \in DOMAIN parsed : parsed[i].st # "ok"}))
      Each(parts) == Checked([i \in DOMAIN parts |-> parse_promql(parts[i])])
  IN  IF q = <<>> THEN Good(<<>>) ELSE Each(Split(q, ",", TRUE))

\* A call whose parenthesis does not close has no arguments, and the text
\* behind it starts one character too late.
ParseCall(q) ==
  LET Called(args, rest) == IF args.st # "ok" THEN args ELSE WithSuffix(CallOf(q[1], args.e), rest)
      Closed(close) ==
        IF close = 0 /\ Len(q) = 2 THEN Panic
        ELSE Called(IF close = 0 THEN Good(<<>>) ELSE parse_args(SubSeq(q, 3, close - 1)),
                    From(q, IF close = 0 THEN 4 ELSE close + 1))
  IN  Closed(Matching(q, 2))

ParseBracket(q, b) ==
  LET OfExpr(r, e) == IF r.st # "ok" THEN Bad ELSE IF e.st # "ok" THEN e ELSE SubqueryOf(e.e, r)
      OfVector(range, v) == IF range.st # "ok" THEN Bad ELSE IF v.st # "ok" THEN v ELSE Good(Matrix(v.e, range.e))
      Read(inner, parts, before) ==
        IF Len(parts) = 2 THEN OfExpr(RangeAndResolution(parts), parse_promql(before))
        ELSE OfVector(parse_duration(inner), parse_vector_selector(before))
      Inside(inner) == Read(inner, Split(inner, ":", FALSE), SubSeq(q, 1, b - 1))
  IN  Inside(SubSeq(q, b + 1, Len(q) - 1))

\* In this order: an aggregation, a call, a bracket, a selector.
parse_promql(q) ==
  LET Other(b) == IF b # 0 THEN ParseBracket(q, b) ELSE parse_vector_selector(q)
      Opened(p) == IF p > 1 /\ q[1] \in Aggregators THEN parse_aggregation(q, q[1])
                   ELSE IF p = 2 /\ q[1] \in RangeFunctions THEN ParseCall(q)
                   ELSE Other(find_outermost_bracket(q))
  IN  Opened(Find(q, "("))

-----------------------------------------------------------------------------
(* The planner.                                                             *)

RECURSIVE plan_expr(_)

\* The name is a matcher on __name__; an absent offset is an offset of 0.
plan_vector_selector(v) ==
  [kind |-> "vector",
   matchers |-> {<<<<"__name__">>, n>> : n \in v.name} \cup Range(v.matchers),
   offset |-> IF v.offset = {} THEN 0 ELSE Get(v.offset), at |-> v.at]

plan_matrix_selector(m) == [kind |-> "matrix", vector |-> plan_vector_selector(m.vector), range |-> m.range]

plan_subquery(s) ==
  [kind |-> "subquery", expr |-> plan_expr(s.expr), range |-> s.range, resolution |-> s.resolution]

\* The parser makes no literal, so there is no k and no quantile to extract.
extract_k_value(e) == 0
extract_quantile_value(e) == {}

plan_call(c) ==
  [kind |-> "call", func |-> c.func, args |-> [i \in DOMAIN c.args |-> plan_expr(c.args[i])],
   k |-> IF c.func \in {"topk", "bottomk"} /\ c.args # <<>> THEN extract_k_value(c.args[1]) ELSE 0,
   quantile |-> IF c.func = "quantile" /\ c.args # <<>> THEN extract_quantile_value(c.args[1]) ELSE {}]

plan_aggregation(a) ==
  [kind |-> "aggregation", op |-> a.op, expr |-> plan_expr(a.expr), grouping |-> Range(a.grouping),
   without |-> a.without]

plan_expr(e) ==
  CASE e.kind = "vector" -> plan_vector_selector(e)
    [] e.kind = "matrix" -> plan_matrix_selector(e)
    [] e.kind = "subquery" -> plan_subquery(e)
    [] e.kind = "call" -> plan_call(e)
    [] e.kind = "aggregation" -> plan_aggregation(e)

-----------------------------------------------------------------------------
(* Expressions and their text.                                              *)

TokenOf(f, x) == CHOOSE t \in DOMAIN f : f[t] = x

RenderOffset(o) == IF o >= 0 THEN <<"offset", TokenOf(DurationOf, o)>> ELSE <<"offset", "-", TokenOf(DurationOf, -o)>>

RenderAt(a) ==
  <<"@">> \o (CASE a = -1 -> <<"start", "(", ")">> [] a = -2 -> <<"end", "(", ")">> [] OTHER -> <<TokenOf(NumberOf, a)>>)

Joined(parts, sep) ==
  FlattenSeq([i \in DOMAIN parts |-> IF i = 1 THEN parts[i] ELSE <<sep>> \o parts[i]])

RenderVector(v) ==
  (IF v.name = {} THEN <<>> ELSE Get(v.name))
  \o (IF v.matchers = <<>> /\ v.name # {} THEN <<>>
      ELSE <<"{">> \o Joined([i \in DOMAIN v.matchers |-> v.matchers[i][1] \o <<"=">> \o v.matchers[i][2]], ",") \o <<"}">>)
  \o (IF v.at = {} THEN <<>> ELSE RenderAt(Get(v.at)))
  \o (IF v.offset = {} THEN <<>> ELSE RenderOffset(Get(v.offset)))

RECURSIVE Render(_)

\* The clause of an aggregation stands in front of the parentheses or behind them.
Render(e) ==
  CASE e.kind = "vector" -> RenderVector(e)
    [] e.kind = "matrix" -> RenderVector(e.vector) \o <<"[", TokenOf(DurationOf, e.range), "]">>
    [] e.kind = "subquery" ->
         Render(e.expr) \o <<"[", TokenOf(DurationOf, e.range), ":", TokenOf(DurationOf, e.resolution), "]">>
    [] e.kind = "call" -> <<e.func, "(">> \o Joined([i \in DOMAIN e.args |-> Render(e.args[i])], ",") \o <<")">>
    [] e.kind = "aggregation" ->
         LET clause == IF e.grouping = <<>> /\ ~e.without THEN <<>>
                       ELSE <<IF e.without THEN "without" ELSE "by", "(">> \o Joined(e.grouping, ",") \o <<")">>
             body == <<"(">> \o Render(e.expr) \o <<")">>
         IN  <<e.op>> \o (IF Len(e.grouping) = 1 THEN body \o clause ELSE clause \o body)

RECURSIVE Constructs(_)
Constructs(e) ==
  CASE e.kind = "vector" -> Len(e.matchers) + Cardinality(e.at) + Cardinality(e.offset)
    [] e.kind = "matrix" -> 1 + Constructs(e.vector)
    [] e.kind = "call" -> 1 + FoldLeft(LAMBDA n, a : n + Constructs(a), Len(e.args) - 1, e.args)
    [] OTHER -> 1 + Constructs(e.expr)

Plain(m) == Vector({<<m>>}, <<>>, {}, {})

PromqlInit == \/ \E m \in Metrics : expr = Plain(m)
              \/ \E l \in LabelNames, v \in LabelValues_ : expr = Vector({}, <<<<<<l>>, <<v>>>>>>, {}, {})

Room == Constructs(expr) < MaxDepth

AddMatcher == /\ Room /\ expr.kind = "vector"
              /\ \E l \in LabelNames, v \in LabelValues_ :
                   expr' = [expr EXCEPT !.matchers = Append(@, <<<<l>>, <<v>>>>)]

AddAt == /\ Room /\ expr.kind = "vector" /\ expr.at = {}
         /\ \E a \in {-1, -2} \cup Range(NumberOf) : expr' = [expr EXCEPT !.at = {a}]

AddOffset == /\ Room /\ expr.kind = "vector" /\ expr.offset = {}
             /\ \E d \in Range(DurationOf), s \in {1, -1} : expr' = [expr EXCEPT !.offset = {s * d}]

MakeMatrix == /\ Room /\ expr.kind = "vector"
              /\ \E d \in Range(DurationOf) : expr' = Matrix(expr, d)

MakeSubquery == /\ Room
                /\ \E r, d \in Range(DurationOf) : expr' = Subquery(expr, r, d)

MakeCall == /\ Room
            /\ \E f \in RangeFunctions : \/ expr' = CallOf(f, <<expr>>)
                                         \/ \E m \in Metrics : expr' = CallOf(f, <<expr, Plain(m)>>)

MakeAggregation ==
  /\ Room
  /\ \E op \in Aggregators, w \in BOOLEAN,
        g \in {<<>>} \cup {<<<<l>>>> : l \in LabelNames} \cup {<<<<l>>, <<k>>>> : l, k \in LabelNames} :
       expr' = Aggregation(op, expr, g, w)

PromqlNext == AddMatcher \/ AddAt \/ AddOffset \/ MakeMatrix \/ MakeSubquery \/ MakeCall \/ MakeAggregation

\* A suffix behind a suffix, at the top or inside.
RECURSIVE DoubleSuffix(_)
DoubleSuffix(e) ==
  CASE e.kind \in {"vector", "matrix"} -> FALSE
    [] e.kind = "subquery" -> e.expr.kind \in {"matrix", "subquery"} \/ DoubleSuffix(e.expr)
    [] e.kind = "call" -> \E i \in DOMAIN e.args : DoubleSuffix(e.args[i])
    [] OTHER -> DoubleSuffix(e.expr)

RECURSIVE PlanNames(_)
PlanNames(p) ==
  CASE p.kind = "vector" -> UNION {Range(m[1]) \cup Range(m[2]) : m \in p.matchers}
    [] p.kind = "matrix" -> PlanNames(p.vector)
    [] p.kind = "subquery" -> PlanNames(p.expr)
    [] p.kind = "call" -> {p.func} \cup UNION {PlanNames(p.args[i]) : i \in DOMAIN p.args}
    [] p.kind = "aggregation" -> {p.op} \cup UNION {Range(g) : g \in p.grouping} \cup PlanNames(p.expr)

\* Every expression of selectors, ranges, calls, aggregations and subqueries is
\* read back as itself from its text, except that a suffix behind a suffix,
\* which PromQL allows, is refused, never read as something else (parser.rs:489).
RoundTrip(r) == r = IF DoubleSuffix(expr) THEN Bad ELSE Good(expr)

\* Every metric, label, value, function and aggregation that the text names is
\* named by the plan made from the text: nothing the user restricts a query by
\* is lost between the text and the executor (planner.rs:107).
NothingDropped(q, r) ==
  r.st = "ok" => Range(q) \cap (Metrics \cup LabelNames \cup LabelValues_ \cup RangeFunctions \cup Aggregators)
                   \subseteq PlanNames(plan_expr(r.e))

\* Text, expression and plan say the same (parser.rs, planner.rs).
ParsedWhole == \A q \in {Render(expr)} : \A r \in {parse_promql(q)} : RoundTrip(r) /\ NothingDropped(q, r)
=============================================================================
