-------------------------------- MODULE Samples --------------------------------
(* What the statistics say of two samples while readings come in: the rank-sum
   test of pilot_rank_sum_test, the place that is proposed first for a changepoint,
   and how many readings are needed for a confidence interval and a comparison. *)
EXTENDS Statistics

CONSTANTS
  Ranges,     \* what readings of both samples there may be together: <<values, most readings>>
  TieFactor,  \* the 0.99 of rank_sum_test, less for small samples
  Limit,      \* the greatest autocorrelation coefficient allowed
  TSquared,   \* the square of a quantile of the t distribution
  Width,      \* the required width of the confidence interval of a mean
  RateWidth,  \* of a harmonic mean
  ShareWidth, \* and of a proportion
  MinSample   \* min_sample_size_

VARIABLES a, b,     \* the samples
          outcome   \* what is said of them

samples == <<a, b, outcome>>

Readings(xs) == [i \in DOMAIN xs |-> Whole(xs[i])]
\* Readings that are the reciprocals of rates, which are positive.
AreRates(xs) == \A i \in DOMAIN xs : xs[i] > 0
Unknown == [p |-> One, split |-> 0, required |-> -1, rate |-> -1, proportion |-> -1, compare |-> -1]

Init == a = <<>> /\ b = <<>> /\ outcome = Unknown

\* A reading comes in, to the first sample or the second.
Read ==
  /\ \E r \in Ranges : \E x \in r[1] :
       /\ Len(a) + Len(b) < r[2] /\ Range(a) \union Range(b) \subseteq r[1]
       /\ (a' = Append(a, x) /\ UNCHANGED b) \/ (b' = Append(b, x) /\ UNCHANGED a)
  /\ outcome' = Unknown

\* The readings so far are analysed. Those of the second sample are compared with the first as the
\* baseline, those of both in turn are searched for a changepoint.
Analyse ==
  /\ outcome = Unknown /\ Len(a) + Len(b) >= 2
  /\ outcome' = [p |-> RankSumTest(a, b, TieFactor),
                 split |-> BestSplit(Readings(a \o b), 1),
                 required |-> Required(Readings(a), Width, Limit, TSquared, "mean", MinSample),
                 rate |-> IF AreRates(a) THEN Required(Readings(a), RateWidth, Limit, TSquared, "harmonic", MinSample)
                          ELSE -1,
                 proportion |-> Required(Readings(a), ShareWidth, Limit, TSquared, "proportion", MinSample),
                 compare |-> EqTestSize(Sub(Mean(Readings(a)), Mean(Readings(b))), Len(a), Variance(Readings(a), 1),
                                        Len(b), Variance(Readings(b), 1), TSquared)]
  /\ UNCHANGED <<a, b>>

Next == Read \/ Analyse

Spec == Init /\ [][Next]_samples
-----------------------------------------------------------------------------
(* References, by enumeration. *)

All == a \o b
Small == SmallerOf(a, b)
InOrder == Cardinality(DOMAIN All)

\* The ranks that values of All may have: those of a group are in any order.
RanksOf(v) == LET below == Cardinality({i \in DOMAIN All : All[i] < v})
              IN below + 1 .. below + CountIn(All, v)

\* All ways of dealing the ranks to the smaller sample that its values allow.
Dealings == {R \in kSubset(Len(Small), 1 .. InOrder) :
               \A v \in Range(All) : Cardinality(R \intersect RanksOf(v)) = CountIn(Small, v)}

\* The share of all samples of this size that are as far out as R, on the side of R, twice.
PValue(R) ==
  LET samplesOf == kSubset(Len(Small), 1 .. InOrder)
      low == {S \in samplesOf : SumSet(S) <= SumSet(R)}
      high == {S \in samplesOf : SumSet(S) >= SumSet(R)}
  IN Least(One, Rat(2 * Min({Cardinality(low), Cardinality(high)}), Cardinality(samplesOf)))

\* The share of all samples with as uneven a part of the lowest c values as the smaller one.
PClass(c) ==
  LET samplesOf == kSubset(Len(Small), 1 .. InOrder)
      Off(x) == Abs(InOrder * x - Len(Small) * c)
      mine == SumFunction([v \in {w \in Range(Small) : \A r \in RanksOf(w) : r <= c} |-> CountIn(Small, v)])
  IN Rat(Cardinality({S \in samplesOf : Off(Cardinality({r \in S : r <= c})) >= Off(mine)}), Cardinality(samplesOf))

SquaresAbout(xs) == LET d == Deviations(xs, 1) IN Total([i \in DOMAIN d |-> Square(d[i])])
SquaresSplit(tau) == Add(SquaresAbout(Readings(SubSeq(All, 1, tau))),
                         SquaresAbout(Readings(SubSeq(All, tau + 1, InOrder))))

-----------------------------------------------------------------------------
\* The p-value of the rank-sum test is what counting all samples gives (1381-1402). For values that
\* are the same it is that of the dealing that is least in favour of a difference (1461-1464), or
\* counts the tables of two classes (1434-1448). The order of the samples does not matter.
RankTestRight ==
  (outcome /= Unknown /\ a /= <<>> /\ b /= <<>>) =>
    /\ outcome.p = RankSumTest(b, a, TieFactor)
    /\ \/ Cardinality(Range(All)) = 1 /\ outcome.p = One
       \/ outcome.p = One /\ \E R, S \in Dealings : 2 * SumSet(R) <= Len(Small) * (InOrder + 1)
                                                  /\ Len(Small) * (InOrder + 1) <= 2 * SumSet(S)
       \/ \A R \in Dealings : Leq(PValue(R), outcome.p) /\ \E S \in Dealings : PValue(S) = outcome.p
       \/ \E v \in Range(All) : outcome.p = PClass(Max(RanksOf(v)))

\* The place proposed for a changepoint is the first that leaves the least squares about the means of
\* both sides (1274-1275).
SplitLeastSquares ==
  (outcome /= Unknown /\ InOrder >= 2) =>
    /\ \A tau \in 1 .. InOrder - 1 : Leq(SquaresSplit(outcome.split), SquaresSplit(tau))
    /\ \A tau \in 1 .. outcome.split - 1 : SquaresSplit(outcome.split) /= SquaresSplit(tau)

\* The number of readings that pilot_optimal_sample_size asks for (305-371) is reached exactly when the
\* confidence interval of pilot_subsession_confidence_interval (269-300) is narrow enough and there are
\* enough subsessions; a proportion is never reported to have enough too early.
SizeMeetsWidth ==
  LET q == OptimalSubsession(Readings(a), Limit)
      Narrow(size, ci, width) == LET square == WidthSquared(Readings(a), size, TSquared, ci)
                                 IN square /= Infinite /\ Leq(square, Square(width))
  IN outcome /= Unknown =>
       /\ outcome.required > 0 =>
            (Len(a) >= outcome.required <=> Narrow(q, "mean", Width) /\ Len(a) \div q >= MinSample)
       /\ outcome.rate > 0 =>
            (Len(a) >= outcome.rate <=> Narrow(q, "harmonic", RateWidth) /\ Len(a) \div q >= MinSample)
       /\ (outcome.proportion > 0 /\ Range(a) \subseteq {0, 1} /\ Len(a) >= outcome.proportion) =>
            Narrow(1, "proportion", ShareWidth)

\* With as many new readings as pilot_optimal_sample_size_for_eq_test says, and no fewer, a difference
\* of these means is significant (1197-1199); if it says there is no such number, there is none. The
\* error of the baseline alone must be less than the difference (1199-1206).
ComparisonDecides ==
  (outcome /= Unknown /\ Len(a) >= 2 /\ Len(b) >= 2) =>
    LET d == Sub(Mean(Readings(a)), Mean(Readings(b)))
        Error(n) == Add(Div(Variance(Readings(a), 1), Whole(Len(a))), Div(Variance(Readings(b), 1), Whole(n)))
        Significant(n) == /\ Less(Mul(TSquared, Div(Variance(Readings(a), 1), Whole(Len(a)))), Square(d))
                          /\ Leq(Mul(TSquared, Error(n)), Square(d))
    IN \A n \in 1 .. 40 : Significant(n) <=> (outcome.compare /= -1 /\ n >= outcome.compare)
=============================================================================
