------------------------------- MODULE Ratio -------------------------------
(***************************************************************************)
(* The f64 values of the code as exact ratios <<n, d>> in lowest terms      *)
(* with d > 0, so that sums, averages and slopes can be compared.  NaN is   *)
(* <<0, 0>> and f64::MAX and f64::MIN, the starting points of the folds of  *)
(* min and max, are <<1, 0>> and <<-1, 0>>.  Rounding is left out.          *)
(***************************************************************************)
EXTENDS Integers, Sequences, SequencesExt

NaN == <<0, 0>>
MaxF == <<1, 0>>
MinF == <<-1, 0>>

AbsI(n) == IF n < 0 THEN -n ELSE n

RECURSIVE Gcd(_, _)
Gcd(a, b) == IF b = 0 THEN a ELSE Gcd(b, a % b)

\* n/d with both divided by g and the sign in the numerator.
Reduced(n, d, g) == IF d < 0 THEN <<-(n \div g), -(d \div g)>> ELSE <<n \div g, d \div g>>

Frac(n, d) == IF d = 0 THEN NaN ELSE IF d = 1 THEN <<n, 1>> ELSE Reduced(n, d, Gcd(AbsI(n), AbsI(d)))

Whole(n) == <<n, 1>>
Zero == Whole(0)

RAdd(a, b) == Frac(a[1] * b[2] + b[1] * a[2], a[2] * b[2])
RNeg(a) == <<-a[1], a[2]>>
RSub(a, b) == RAdd(a, RNeg(b))
RMul(a, b) == Frac(a[1] * b[1], a[2] * b[2])
RDiv(a, b) == Frac(a[1] * b[2], a[2] * b[1])
RLt(a, b) == a[1] * b[2] < b[1] * a[2]
RLe(a, b) == ~RLt(b, a)
REq(a, b) == a = b /\ a # NaN
RMin(a, b) == IF RLt(b, a) THEN b ELSE a
RMax(a, b) == IF RLt(a, b) THEN b ELSE a
RFloor(a) == a[1] \div a[2]
RCeil(a) == -((-a[1]) \div a[2])

RSum(s) == FoldLeft(RAdd, Zero, s)
RMean(s) == RDiv(RSum(s), Whole(Len(s)))

\* The stable sort of Vec::sort_by: x goes behind everything it is not less than.
InsertBy(s, x, Lt(_, _)) == InsertAt(s, Len(SelectSeq(s, LAMBDA y : ~Lt(x, y))) + 1, x)

SortBy(s, Lt(_, _)) == FoldLeft(LAMBDA acc, x : InsertBy(acc, x, Lt), <<>>, s)

MapSeq(s, Op(_)) == [i \in DOMAIN s |-> Op(s[i])]
=============================================================================
