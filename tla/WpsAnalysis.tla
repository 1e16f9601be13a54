------------------------------ MODULE WpsAnalysis ------------------------------
(* The work-per-second analysis: refresh_wps_analysis_results (workload.cc 675-798)
   and its regression, pilot_wps_warmup_removal_lr_method (libpilotcpp.h 400-540).
   A duration is a whole number of units, and ONE_SECOND is 1. *)
EXTENDS Statistics

CONSTANTS
  Patterns,   \* the work amounts of the rounds, as sequences
  Durations,  \* how long a round may take
  SwitchRounds, \* after how many rounds set_wps_analysis may be called
  ShortRound, \* short_round_detection_threshold_
  Limit,      \* autocorrelation_coefficient_limit_
  TSquared    \* the square of the quantile of the t distribution

VARIABLES pattern,
          rounds,     \* <<work amount, duration>> of each round
          enabled,    \* set_wps_analysis
          threshold,  \* duration_threshold of the analysis that runs
          fits,       \* how many regressions it did
          phase,
          wps         \* the wps_ fields of the analytical result, "of" the rounds they were computed from

wpsVars == <<pattern, rounds, enabled, threshold, fits, phase, wps>>

Missing == Whole(-1)
Amount(r) == Whole(r[1])
Duration(r) == Whole(r[2])

Blank == [has |-> FALSE, alpha |-> Missing, v |-> Missing, ci |-> "none", err |-> Missing, naive |-> Missing,
          h |-> 0, of |-> 0]

\* The rounds that are longer than a threshold, out of the first n.
Filtered(limit) ==
  LET kept[n \in 0 .. Len(rounds)] ==
        IF n = 0 THEN <<>> ELSE IF rounds[n][2] > limit THEN Append(kept[n - 1], rounds[n]) ELSE kept[n - 1]
  IN kept
Longer(limit) == Filtered(limit)[Len(rounds)]

\* simple_regression_model: <<alpha, slope>> of y over x.
Slope(dx, dy) == Div(Total([i \in DOMAIN dx |-> Mul(dx[i], dy[i])]), SumOfSquares(dx))
Through(mx, my, slope) == <<Sub(my, Mul(slope, mx)), slope>>
Regression(xs, ys) == Through(Mean(xs), Mean(ys), Slope(Deviations(xs, 1), Deviations(ys, 1)))

\* The squares of what a line leaves of some rounds, and of what a constant speed leaves.
Residuals(fit, xs, ys) ==
  Total([i \in DOMAIN xs |-> Square(Sub(Add(fit[1], Mul(fit[2], xs[i])), ys[i]))])

\* The rounds of which the error of the model is computed.
\* Mutant: all rounds, also those that were left out.
ModelRoundsAll(limit) == rounds

ModelRounds(limit) == Longer(limit)

\* A number of rounds is taken together as their mean.
Grouped(xs, q) == SubsessionMeans(xs, q)

AmountsOf(rs) == [i \in DOMAIN rs |-> Amount(rs[i])]
TimesOf(rs) == [i \in DOMAIN rs |-> Duration(rs[i])]

\* pilot_wps_warmup_removal_lr_method: what it says for a threshold, "none" if there is not enough
\* data. The confidence interval is infinite when that of the slope reaches 0.
SlopeErrorSquared(fit, xs, ys) ==
  Div(Mul(Residuals(fit, xs, ys), <<1, Len(xs) - 2>>), SumOfSquares(Deviations(xs, 1)))
Open(slope, errorSquared) == Less(Zero, slope) /\ Leq(Square(slope), Mul(TSquared, errorSquared))
Model(fit, xs, ys, model) ==
  IF fit[2] = Zero THEN [res |-> "none", h |-> Len(xs)]
  ELSE [res |-> IF Open(fit[2], SlopeErrorSquared(fit, xs, ys)) THEN "no ci" ELSE "ok", h |-> Len(xs),
        alpha |-> fit[1], v |-> Inv(fit[2]), err |-> Residuals(fit, AmountsOf(model), TimesOf(model))]
ModelOf(xs, ys, model) ==
  IF Len(xs) < 3 \/ Cardinality(Range(xs)) = 1 \/ SumOfSquares(Deviations(xs, 1))[1] <= 0
  THEN [res |-> "none", h |-> Len(xs)]
  ELSE Model(Regression(xs, ys), xs, ys, model)
Grouping(kept, q, model) ==
  IF q < 0 THEN [res |-> "none", h |-> wps.h] ELSE ModelOf(Grouped(AmountsOf(kept), q), Grouped(TimesOf(kept), q), model)
Regress(limit) ==
  LET kept == Longer(limit)
  IN IF Len(kept) < 3 THEN [res |-> "none", h |-> wps.h]
     ELSE Grouping(kept, OptimalSubsession([i \in DOMAIN kept |-> Rat(kept[i][2], kept[i][1])], Limit),
                   ModelRounds(limit))

\* The naive speed, of all rounds, as the time a unit of work takes; the squares it leaves of some rounds;
\* and its error, over the rounds longer than a threshold.
TimePerWork == Div(Total(TimesOf(rounds)), Total(AmountsOf(rounds)))
LeftAt(perWork, kept) ==
  Total([i \in DOMAIN kept |-> Square(Sub(Mul(Amount(kept[i]), perWork), Duration(kept[i])))])
NaiveError(limit) == LeftAt(TimePerWork, Longer(limit))

Init ==
  /\ pattern \in Patterns /\ rounds = <<>> /\ enabled = TRUE
  /\ threshold = 0 /\ fits = 0 /\ phase = "idle" /\ wps = Blank

\* A round ends and its data are imported.
Round ==
  /\ phase = "idle" /\ Len(rounds) < Len(pattern)
  /\ \E d \in Durations : rounds' = Append(rounds, <<pattern[Len(rounds) + 1], d>>)
  /\ phase' = "changed"
  /\ UNCHANGED <<pattern, enabled, threshold, fits, wps>>

\* set_wps_analysis. The analysis is looked at again after the next round.
Toggle ==
  /\ phase = "changed" /\ Len(rounds) \in SwitchRounds
  /\ enabled' = ~enabled /\ phase' = "switched"
  /\ UNCHANGED <<pattern, rounds, threshold, fits, wps>>

\* The analysis starts, if there is enough data and it is enabled.
Start ==
  /\ phase \in {"changed", "switched"}
  /\ IF Len(rounds) < 3 \/ ~enabled
     THEN /\ wps' = [wps EXCEPT !.has = FALSE] /\ phase' = "idle"
          /\ UNCHANGED <<threshold, fits>>
     ELSE /\ wps' = [wps EXCEPT !.naive = NaiveError(ShortRound)]
          /\ threshold' = ShortRound /\ fits' = 0 /\ phase' = "fit"
  /\ UNCHANGED <<pattern, rounds, enabled>>

\* What the analysis leaves when there is no model: no field of an earlier one.
Failed(h) == [wps EXCEPT !.has = FALSE, !.alpha = Missing, !.v = Missing, !.ci = "none", !.err = Missing, !.h = h]

\* The next threshold: rounds shorter than the warm-up time -alpha are left out too.
\* Mutant: the threshold follows alpha in both directions.
NextThresholdDown(alpha) == IF alpha[1] < 0 THEN FloorRat(Neg(alpha)) ELSE ShortRound

NextThreshold(alpha) ==
  IF alpha[1] < 0 /\ FloorRat(Neg(alpha)) > threshold THEN FloorRat(Neg(alpha)) ELSE threshold

\* One regression; with a longer threshold it is done again.
Fit ==
  /\ phase = "fit"
  /\ fits' = fits + 1
  /\ \E r \in {Regress(threshold)} :
        IF r.res = "none" \/ r.v[1] <= 0
        THEN wps' = Failed(r.h) /\ phase' = "idle" /\ UNCHANGED threshold
        ELSE IF NextThreshold(r.alpha) /= threshold
        THEN /\ threshold' = NextThreshold(r.alpha)
             /\ wps' = [wps EXCEPT !.alpha = r.alpha, !.v = r.v, !.err = r.err, !.h = r.h, !.of = Len(rounds),
                                   !.ci = IF r.res = "ok" THEN "width" ELSE "infinite"]
             /\ UNCHANGED phase
        ELSE /\ wps' = [has |-> TRUE, alpha |-> r.alpha, v |-> r.v, err |-> r.err, h |-> r.h, of |-> Len(rounds),
                        ci |-> IF r.res = "ok" THEN "width" ELSE "none", naive |-> NaiveError(threshold)]
             /\ phase' = "idle" /\ UNCHANGED threshold
  /\ UNCHANGED <<pattern, rounds, enabled>>

Next == Round \/ Toggle \/ Start \/ Fit

Spec == Init /\ [][Next]_wpsVars

-----------------------------------------------------------------------------
\* A model that is reported holds for the rounds it was made from: they are those longer than the
\* short round threshold and than -alpha, its speed is positive and it is of the rounds of now. When
\* these rounds lie on a line, the model is this line, however they are grouped (450-452).
ModelHolds ==
  wps.has =>
    LET kept == Longer(threshold)
        OnLine(alpha, slope) ==
          \A i \in DOMAIN kept : Duration(kept[i]) = Add(alpha, Mul(slope, Amount(kept[i])))
        i == CHOOSE k \in DOMAIN kept : kept[k][1] /= kept[1][1]
        slope == Rat(kept[i][2] - kept[1][2], kept[i][1] - kept[1][1])
        alpha == Sub(Duration(kept[1]), Mul(slope, Amount(kept[1])))
    IN phase = "idle" =>
         /\ wps.of = Len(rounds) /\ wps.v[1] > 0 /\ wps.h >= 3
         /\ \A k \in DOMAIN kept : Less(Neg(wps.alpha), Duration(kept[k]))
         /\ OnLine(alpha, slope) => wps.alpha = alpha /\ wps.v = Inv(slope)

\* The errors that are reported side by side are of the same rounds (693-697): the regression is never
\* worse than the naive speed, unless rounds were grouped.
ErrorsComparable ==
  (wps.has /\ phase = "idle" /\ wps.h = Len(Longer(threshold))) => Leq(wps.err, wps.naive)

\* A regression leaves rounds out or is the last: as many as there are rounds are
\* enough (722-725), so that the analysis ends.
RegressionsBounded == phase = "fit" => fits < Len(rounds)
=============================================================================
