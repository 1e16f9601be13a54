------------------------------ MODULE Statistics ------------------------------
(* The statistics of libpilotcpp.h and libpilot.cc in exact arithmetic: a number is
   a pair of numerator and positive denominator in lowest terms. Quantiles of the
   t distribution are parameters (t2 is one squared), a width is squared where the
   code takes a root. For a harmonic mean a caller passes the reciprocals of the data,
   which are positive; the scale of the delta method, by which the code multiplies
   their variances and divides them again, is left out. *)
EXTENDS Integers, Sequences, FiniteSetsExt, FiniteSets

-----------------------------------------------------------------------------
(* Rational numbers. *)

Abs(i) == IF i < 0 THEN -i ELSE i

gcd[p \in Nat \X Nat] == IF p[2] = 0 THEN p[1] ELSE gcd[<<p[2], p[1] % p[2]>>]
Gcd(a, b) == gcd[<<Abs(a), Abs(b)>>]

Over(a, b, g) == IF b < 0 THEN <<-a \div g, -b \div g>> ELSE <<a \div g, b \div g>>
Rat(a, b) == Over(a, b, Gcd(a, b))
Whole(i) == <<i, 1>>
Zero == Whole(0)
One == Whole(1)

AddOver(x, y, g) == Rat(x[1] * (y[2] \div g) + y[1] * (x[2] \div g), x[2] * (y[2] \div g))
Add(x, y) == AddOver(x, y, Gcd(x[2], y[2]))
Neg(x) == <<-x[1], x[2]>>
Sub(x, y) == Add(x, Neg(y))
Times(x, y) == <<x[1] * y[1], x[2] * y[2]>>
Mul(x, y) == Times(Rat(x[1], y[2]), Rat(y[1], x[2]))
Inv(x) == Over(x[2], x[1], 1)
Div(x, y) == Mul(x, Inv(y))
Square(x) == Times(x, x)
AbsRat(x) == <<Abs(x[1]), x[2]>>
Leq(x, y) == Sub(x, y)[1] <= 0
Less(x, y) == Sub(x, y)[1] < 0
FloorRat(x) == x[1] \div x[2]
Ceiling(x) == -((-x[1]) \div x[2])
Least(x, y) == IF Leq(x, y) THEN x ELSE y

Total(xs) == LET sum[i \in 0 .. Len(xs)] == IF i = 0 THEN Zero ELSE Add(sum[i - 1], xs[i])
             IN sum[Len(xs)]

-----------------------------------------------------------------------------
(* Subsession analysis (libpilotcpp.h). *)

Mean(xs) == Mul(Total(xs), <<1, Len(xs)>>)

\* The means of consecutive q values; what does not fill a subsession is left out.
SubsessionMeans(xs, q) == [i \in 1 .. Len(xs) \div q |-> Mean(SubSeq(xs, (i - 1) * q + 1, i * q))]

\* Deviations of the subsessions from the mean of all values, also of those left out.
From(means, m) == [i \in DOMAIN means |-> Sub(means[i], m)]
Deviations(xs, q) == From(SubsessionMeans(xs, q), Mean(xs))

\* pilot_subsession_var.
SumOfSquares(d) == Total([i \in DOMAIN d |-> Square(d[i])])
Variance(xs, q) == Mul(SumOfSquares(Deviations(xs, q)), <<1, Len(xs) \div q - 1>>)

\* pilot_subsession_auto_cov, of lag 1.
MeanProduct(d) == Mean([i \in 1 .. Len(d) - 1 |-> Mul(d[i], d[i + 1])])
AutoCov(xs, q) == MeanProduct(Deviations(xs, q))

\* pilot_subsession_autocorrelation_coefficient: 1 for a single subsession and for 0 / 0.
Coefficient(cov, var) == IF var = Zero THEN One ELSE Div(cov, var)
AutoCoef(xs, q) == IF Len(xs) \div q < 2 THEN One ELSE Coefficient(AutoCov(xs, q), Variance(xs, q))

\* pilot_optimal_subsession_size: the first size within the limit, or -1.
OptimalSubsession(xs, limit) ==
  LET fits == {q \in 1 .. Len(xs) \div 3 : Leq(AbsRat(AutoCoef(xs, q)), limit)}
  IN IF Len(xs) <= 1 \/ fits = {} THEN -1 ELSE Min(fits)

\* pilot_subsession_confidence_interval: the square of the width. ci is "mean" or "harmonic" for
\* SAMPLE_MEAN, by the method of the mean, or "proportion" for BINOMIAL_PROPORTION.
OfProportion(p) == Mul(p, Sub(One, p))

\* The interval of a harmonic mean is from 1 / (ybar + d) to 1 / (ybar - d), e being d squared.
Infinite == <<1, 0>>
HarmonicWidthSquared(ybar, e) ==
  IF Leq(Square(ybar), e) THEN Infinite ELSE Div(Mul(Whole(4), e), Square(Sub(Square(ybar), e)))

WidthSquared(xs, q, t2, ci) ==
  LET Scaled(x, v) == Mul(x, Mul(v, <<1, Len(xs) \div q>>))
  IN IF ci = "harmonic" THEN HarmonicWidthSquared(Mean(xs), Scaled(t2, Variance(xs, q)))
     ELSE Scaled(Mul(Whole(4), t2), IF ci = "mean" THEN Variance(xs, q) ELSE OfProportion(Mean(xs)))

\* The least whole number that is not below v / d^2, for d = ybar r / (1 + sqrt(1 + r^2)) and r = w ybar.
\* With k = v / (ybar r)^2 that is k (2 + r^2 + 2 sqrt(1 + r^2)), at most twice the part without the root.
RootAtMost(x, z) == Leq(Zero, z) /\ Leq(x, Square(z))
NotBelow(n, k, r2) == RootAtMost(Mul(Whole(4), Add(One, r2)), Sub(Div(Whole(n), k), Add(Whole(2), r2)))

LeastNotBelow(k, r2) ==
  Min({n \in 0 .. Ceiling(Mul(Mul(Whole(2), k), Add(Whole(2), r2))) : NotBelow(n, k, r2)})

SizeOfRatio(v, r2, y2) == IF Leq(v, Zero) THEN 0 ELSE LeastNotBelow(Div(v, Mul(r2, y2)), r2)
HarmonicSize(ybar, v, w) == SizeOfRatio(v, Square(Mul(w, ybar)), Square(ybar))

\* pilot_optimal_sample_size: <<q, sample size>>, -1 for what cannot be said. A width of 0 gives
\* an infinite size, or 0 / 0.
SizeFor(xs, q, width, t2, ci) ==
  IF q < 0 THEN <<-1, -1>>
  ELSE IF width = Zero THEN <<q, -1>>
  ELSE IF ci = "harmonic" THEN <<q, HarmonicSize(Mean(xs), Mul(t2, Variance(xs, q)), width)>>
  ELSE <<q, Ceiling(Mul(Variance(xs, q), Div(Mul(Whole(4), t2), Square(width))))>>
OptimalSampleSize(xs, width, limit, t2, ci) ==
  SizeFor(xs, IF ci = "proportion" THEN 1 ELSE OptimalSubsession(xs, limit), width, t2, ci)

\* _calc_required_num_of_readings: in readings, with the least sample size of the session.
\* Mutant: the sample size is taken for a number of readings.
RequiredOfUngrouped(n, opt, minSize) == IF n < 3 \/ opt[2] = -1 THEN -1 ELSE Max({opt[2], minSize})

RequiredOf(n, opt, minSize) == IF n < 3 \/ opt[2] = -1 THEN -1 ELSE opt[1] * Max({opt[2], minSize})

Required(xs, width, limit, t2, ci, minSize) ==
  RequiredOf(Len(xs), OptimalSampleSize(xs, width, limit, t2, ci), minSize)

-----------------------------------------------------------------------------
(* Comparison of two samples (libpilot.cc 1124-1219). *)

\* pilot_optimal_sample_size_for_eq_test: how many values of variance newVar are needed to tell
\* means that differ by d. The correction by 1e-9 is for rounding errors, of which there are none.
NewSize(room, newVar) == IF Leq(room, Zero) THEN -1 ELSE Ceiling(Div(newVar, room))
EqTestSize(d, n, var, newN, newVar, t2) ==
  IF n < 2 \/ newN < 2 THEN -1
  ELSE IF var = Zero /\ newVar = Zero THEN (IF d = Zero THEN -1 ELSE 0)
  ELSE NewSize(Sub(Div(Square(d), t2), Mul(var, <<1, n>>)), newVar)

-----------------------------------------------------------------------------
(* The tests of the changepoint detection (libpilot.cc 1277-1571). *)

\* best_split: the first place that takes the most from the sum of squares, 0 for none.
Taken(left, right) ==
  Mul(Rat(Len(left) * Len(right), Len(left) + Len(right)), Square(Sub(Mean(left), Mean(right))))

FirstGreatest(f) == Min({i \in DOMAIN f : \A j \in DOMAIN f : Leq(f[j], f[i])})
BestSplit(xs, minSize) ==
  IF Len(xs) < 2 * minSize THEN 0
  ELSE FirstGreatest([tau \in minSize .. Len(xs) - minSize |->
                        Taken(SubSeq(xs, 1, tau), SubSeq(xs, tau + 1, Len(xs)))])

\* rank_sum_exact_lower_tail: the coefficients of the Gaussian binomial, up to u, one factor of the
\* product at a time. Scaled, they are the chances of U = j.
Factor(p, u, m, i) ==
  LET divided == [j \in 0 .. u |-> Total([c \in 1 .. j \div i + 1 |-> p[j - (c - 1) * i]])]
  IN [j \in 0 .. u |-> Mul(Rat(i, m + i), IF j >= m + i THEN Sub(divided[j], divided[j - m - i]) ELSE divided[j])]
Coefficients(k, m, u) ==
  LET p[i \in 0 .. k] == IF i = 0 THEN [j \in 0 .. u |-> IF j = 0 THEN One ELSE Zero]
                         ELSE Factor(p[i - 1], u, m, i)
  IN p[k]

SumUpTo(p, u) == Total([j \in 1 .. u + 1 |-> p[j - 1]])
LowerTail(k, m, u) == SumUpTo(Coefficients(k, m, u), u)

\* rank_sum_p of small samples, two-sided. The normal approximation is for larger ones.
RankSumP(k, m, u) == Least(One, Mul(Whole(2), LowerTail(k, m, u)))

Ways(n, k) == Cardinality(kSubset(k, 1 .. n))

\* fisher_exact_test: all tables as far from the expectation as x, or further.
Distance(n, low, k, i) == Abs(n * i - k * low)
FisherTest(n, low, k, x) ==
  LET tables == {i \in Max({0, k + low - n}) .. Min({k, low}) : Distance(n, low, k, x) <= Distance(n, low, k, i)}
  IN Least(One, Rat(SumFunction([i \in tables |-> Ways(low, i) * Ways(n - low, k - i)]), Ways(n, k)))

\* rank_sum_test. A group is the values that are the same, in ascending order; tieFactor is the 0.99
\* below which they are too many.
SmallerOf(a, b) == IF Len(a) <= Len(b) THEN a ELSE b
CountIn(xs, x) == Cardinality({i \in DOMAIN xs : xs[i] = x})

Below(values, all, v) == SumFunctionOnSet(all, {w \in values : w < v})

\* The least and the greatest rank sum that the groups leave the smaller sample.
RankSums(values, inS, all) ==
  <<SumFunction([v \in values |-> SumSet({Below(values, all, v) + c : c \in 1 .. inS[v]})]),
    SumFunction([v \in values |-> SumSet({Below(values, all, v) + all[v] + 1 - c : c \in 1 .. inS[v]})])>>

\* Fisher's test at the value that makes the two classes most equal.
TestAt(values, inS, low, n, k) ==
  LET Smaller(v) == Min({low[v], n - low[v]})
      even == Min({v \in values : \A w \in values : Smaller(w) <= Smaller(v)})
  IN FisherTest(n, low[even], k, SumFunctionOnSet(inS, {w \in values : w <= even}))
ClassTest(values, inS, all, n, k) == TestAt(values, inS, [v \in values |-> Below(values, all, v) + all[v]], n, k)

\* The tail of the rank sum that is nearest to the expectation.
\* Mutant: the ranks of a group are dealt in favour of a difference.
TailOfEagerRanks(sums, k, m) ==
  LET least == (k * (k + 1)) \div 2
  IN IF 2 * sums[1] <= k * (k + m + 1) /\ k * (k + m + 1) <= 2 * sums[2] THEN One
     ELSE RankSumP(k, m, IF 2 * sums[2] < k * (k + m + 1) THEN sums[1] - least ELSE k * m - (sums[2] - least))

TailOfRanks(sums, k, m) ==
  LET least == (k * (k + 1)) \div 2
  IN IF 2 * sums[1] <= k * (k + m + 1) /\ k * (k + m + 1) <= 2 * sums[2] THEN One
     ELSE RankSumP(k, m, IF 2 * sums[2] < k * (k + m + 1) THEN sums[2] - least ELSE k * m - (sums[1] - least))

RankTestOf(values, inS, all, n, k, tieFactor) ==
  LET ties == SumFunction([v \in values |-> all[v] * all[v] * all[v] - all[v]])
  IN IF Cardinality(values) = 1 THEN One
     ELSE IF Less(Sub(One, Rat(ties, n * n * n - n)), tieFactor) THEN ClassTest(values, inS, all, n, k)
     ELSE TailOfRanks(RankSums(values, inS, all), k, n - k)

CountsOf(xs, values) == [v \in values |-> CountIn(xs, v)]
RankSumTest(a, b, tieFactor) ==
  LET s == SmallerOf(a, b)
      values == Range(a) \union Range(b)
  IN IF s = <<>> THEN One
     ELSE RankTestOf(values, CountsOf(s, values), CountsOf(a \o b, values), Len(a) + Len(b), Len(s), tieFactor)
=============================================================================
