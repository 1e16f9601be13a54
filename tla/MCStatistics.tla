----------------------------- MODULE MCStatistics -----------------------------
(* Changepoint, Samples and WpsAnalysis on small inputs. They share nothing: a
   behaviour is of one of them, its subject. *)
EXTENDS Changepoint

CONSTANTS Ranges, TieFactor, Width, RateWidth, ShareWidth, MinSample,  \* of Samples
          Patterns, Durations, ShortRound, SwitchRounds,      \* of WpsAnalysis
          Limit, TSquared                                     \* of both

ASSUME SamplesAssumption ==
  /\ \A r \in Ranges : r[1] \subseteq Int
  /\ TSquared \in (Nat \ {0}) \X (Nat \ {0}) /\ MinSample \in Nat
  /\ Width \in ((Nat \ {0}) \X (Nat \ {0})) \union {<<0, 1>>}
  /\ RateWidth \in ((Nat \ {0}) \X (Nat \ {0})) \union {<<0, 1>>}
  /\ ShareWidth \in ((Nat \ {0}) \X (Nat \ {0})) \union {<<0, 1>>}

ASSUME RoundsAssumption == Patterns \subseteq Seq(Nat) /\ Durations \subseteq Nat /\ ShortRound \in Nat

VARIABLES subject, sampleA, sampleB, outcome, pattern, rounds, enabled, threshold, fits, step, wps

SA == INSTANCE Samples WITH a <- sampleA, b <- sampleB
WA == INSTANCE WpsAnalysis WITH phase <- step

samples == <<sampleA, sampleB, outcome>>
speeds == <<pattern, rounds, enabled, threshold, fits, step, wps>>

\* Two values each for few distinct and many: with ties of all sizes, and without.
SomeRanges == {<<{0, 3}, 6>>, <<{0, 1, 3}, 5>>, <<{0, 1, 2, 4}, 4>>}
\* Below it is a group of three among six, above it are pairs.
SomeTies == <<9, 10>>
SomeWidth == <<3, 1>>
SomeRateWidth == <<1, 1>>
SomeShare == <<1, 1>>
SomeLimit == <<2, 5>>
SomeQuantile == <<4, 1>>
\* Amounts that vary, and the same amount three times in a row, which is correlated.
SomePatterns == {<<1, 2, 4, 4>>, <<2, 2, 2, 4, 4, 4>>}

MCInit == /\ subject \in {"changepoints", "samples", "rounds"}
          /\ Init /\ SA!Init /\ WA!Init
          /\ subject # "rounds" => Len(pattern) = 4

OfDetection(move) == subject = "changepoints" /\ move /\ UNCHANGED <<subject, samples, speeds>>

MCNext == \/ OfDetection(Next)
          \/ subject = "samples" /\ SA!Next /\ UNCHANGED <<subject, vars, speeds>>
          \/ subject = "rounds" /\ WA!Next /\ UNCHANGED <<subject, vars, samples>>

MCSpec == /\ MCInit /\ [][MCNext]_<<subject, vars, samples, speeds>>
          /\ WF_vars(OfDetection(Detect))

(* What changepoints are found by: the rank-sum test gives the p-value that counting
   all samples gives, and the place proposed is that of least squares. *)
ChangesFound == SA!RankTestRight /\ SA!SplitLeastSquares

(* How many readings are said to be needed, for a confidence interval and for a
   comparison with a baseline, is enough and no more. *)
EnoughAsked == SA!SizeMeetsWidth /\ SA!ComparisonDecides

(* A work-per-second model that is reported holds for the rounds of now, and its
   error is of the same rounds as the naive one. *)
ModelTrue == WA!ModelHolds /\ WA!ErrorsComparable

(* The work-per-second analysis, which is done again with a longer threshold, ends. *)
RegressionsEnd == WA!RegressionsBounded
=============================================================================
