----------------------------- MODULE WorkAmount -----------------------------
(***************************************************************************)
(* How much work the next round does: calc_next_round_work_amount, the     *)
(* analysis plugins it runs in their order of loading, and the limit on    *)
(* the growth of rounds.                                                   *)
(*                                                                         *)
(* What the statistics say of the data of a round is chosen when the round *)
(* ends: whether it was shorter than the threshold, how much work the      *)
(* analyses of (unit) readings ask for, and whether the WPS analysis has   *)
(* found a small enough interval.  The amounts are computed from it as     *)
(* the code does, in integers.                                             *)
(***************************************************************************)
EXTENDS Integers, FiniteSetsExt

CONSTANTS
  Ranges,        \* pairs <<init_work_amount_, max_work_amount_>> to explore
  WpsModes,      \* "off", "on" (enabled) or "must" (wps_must_satisfy_ as well)
  UnitDemands,   \* amounts of work the analysis of unit readings may ask for
  Comparisons,   \* those the comparison with a baseline may ask for
  SliceChoices,  \* numbers of slices the duration of a round may lead to
  Querying,      \* whether pilot_next_round_work_amount is called as well
  MaxRounds      \* bound on the number of rounds

\* round_work_amount_to_avg_amount_limit_
AvgLimit == 5

\* The fewest slices, and the most work left for which there is one for each.
FailSafeSlices == 5
FewSlices == 10

ASSUME WorkAmountAssumption ==
  /\ Ranges \subseteq Nat \X Nat
  /\ WpsModes \subseteq {"off", "on", "must"}
  /\ \A r \in Ranges : r[1] <= r[2] \/ WpsModes = {"off"}
  /\ UnitDemands \subseteq Nat
  /\ Comparisons \subseteq Nat
  /\ SliceChoices \subseteq {n \in Nat : n >= FailSafeSlices}
  /\ Querying \in BOOLEAN
  /\ MaxRounds \in Nat

VARIABLES
  init, limit,  \* init_work_amount_ and max_work_amount_, set once
  wps,          \* the WPS analysis, set once
  adjusted,     \* adjusted_min_work_amount_, -1 when not found
  lowerDone,    \* whether the lower bound plugin is finished
  slices,       \* wps_slices_
  asked,        \* history: what the duration of a round made it at first, 0 for nothing
  count, sum,   \* the number of rounds and the sum of their work amounts
  last, short,  \* the last of them, and whether it was too short
  demand,       \* what the analyses make of the data
  phase,        \* "ready", "running" a round, or "done"
  amount,       \* the work amount of the round being run, or the last
  promised,     \* history: the last answer of pilot_next_round_work_amount
  trap          \* history: a division by zero

settings == <<init, limit, wps>>
analysis == <<adjusted, lowerDone, slices, asked, trap>>
rounds == <<count, sum, last, short, demand>>
vars == <<settings, analysis, rounds, phase, amount, promised>>

\* Whether some PI needs more readings, how much work its unit readings and a
\* baseline ask for, if anything, and whether WPS has its result.
Satisfied == -1
Demand == [readings : BOOLEAN, units : UnitDemands \cup {Satisfied},
           baseline : Comparisons \cup {Satisfied}, wpsDone : BOOLEAN]
NoDemand == [readings |-> FALSE, units |-> Satisfied, baseline |-> Satisfied,
             wpsDone |-> FALSE]

Init ==
  /\ \E r \in Ranges : init = r[1] /\ limit = r[2]
  /\ wps \in WpsModes
  /\ adjusted = -1 /\ lowerDone = FALSE /\ slices = 0 /\ asked = 0
  /\ count = 0 /\ sum = 0 /\ last = 0 /\ short = FALSE
  /\ demand = NoDemand
  /\ phase = "ready" /\ amount = 0 /\ promised = -1 /\ trap = FALSE

Smaller(a, b) == IF a <= b THEN a ELSE b

\* Mutant: the new lower bound is left for the next round to pick up.
LowerBoundLate ==
  LET idle == [need |-> 0, more |-> FALSE, adjusted |-> adjusted, done |-> lowerDone]
  IN IF lowerDone \/ limit = 0 THEN idle
     ELSE IF count = 0 THEN [idle EXCEPT !.more = TRUE]
     ELSE IF short THEN [idle EXCEPT !.need = Smaller(2 * last, limit), !.more = TRUE]
     ELSE [idle EXCEPT !.adjusted = last, !.done = TRUE]

\* calc_next_round_work_amount_meet_lower_bound, until it is finished: twice
\* the work of a round that was too short, up to the limit, or else the lower
\* bound is found.
LowerBound ==
  LET idle == [need |-> 0, more |-> FALSE, adjusted |-> adjusted, done |-> lowerDone]
  IN IF lowerDone \/ limit = 0 THEN idle
     ELSE IF count = 0 THEN [idle EXCEPT !.more = TRUE]
     ELSE IF short THEN [idle EXCEPT !.need = Smaller(2 * last, limit), !.more = TRUE]
     ELSE [need |-> last, more |-> FALSE, adjusted |-> last, done |-> TRUE]

Idle == [need |-> 0, more |-> FALSE]

\* calc_next_round_work_amount_from_readings proposes init_work_amount_ whether
\* or not it needs another round.
FromReadings ==
  IF count = 0 THEN [need |-> 0, more |-> TRUE]
  ELSE [need |-> IF limit = 0 THEN 0 ELSE init, more |-> demand.readings]

\* calc_next_round_work_amount_from_unit_readings; the amount may be nothing
\* when the number of them is just what is required.
FromUnitReadings ==
  IF count = 0 THEN [need |-> 0, more |-> TRUE]
  ELSE IF demand.units = Satisfied THEN Idle
  ELSE [need |-> IF limit = 0 THEN 0 ELSE demand.units, more |-> TRUE]

\* calc_next_round_work_amount_for_comparison
ForComparison ==
  IF count = 0 \/ demand.baseline = Satisfied THEN Idle
  ELSE [need |-> IF limit = 0 THEN 0 ELSE demand.baseline, more |-> TRUE]

\* Mutant: a range too small for n slices is not looked for.
SlicesAnyRange(low, n) == IF slices # 0 THEN slices ELSE n

\* The initial number of slices, n being what the duration of a round gives,
\* which may be more than there are units of work.
Slices(low, n) ==
  IF slices # 0 THEN slices
  ELSE IF limit - low <= FewSlices THEN limit - low ELSE n

Asked(low, n) ==
  IF slices # 0 \/ limit - low <= FewSlices THEN asked ELSE n

\* The next slice border after the last round, or the first one at half of the
\* slice size once the limit is reached; with a slice of no size, a division
\* by zero.
NextSlice(low, n) ==
  LET k == Slices(low, n)
      s == (limit - low) \div k
      at(x) == [need |-> x, more |-> wps = "must", slices |-> k,
                asked |-> Asked(low, n), trap |-> FALSE]
  IN IF count > 3 /\ demand.wpsDone
       THEN [at(0) EXCEPT !.more = FALSE]
     ELSE IF last < low THEN at(low + s)
     ELSE IF last > limit - s THEN
       IF s = 1 THEN at(low + 1)
       ELSE [at(low + s \div 2) EXCEPT !.slices = 2 * k]
     ELSE IF s = 0 THEN [at(0) EXCEPT !.trap = TRUE]
     ELSE at(low + ((last - low) \div s + 1) * s)

\* calc_next_round_work_amount_from_wps, given the lower bound found by now
Wps(low, n) ==
  LET idle == [need |-> 0, more |-> FALSE, slices |-> slices, asked |-> asked,
               trap |-> FALSE]
  IN IF wps = "off" \/ limit = 0 THEN idle
     ELSE IF low < 0 THEN [idle EXCEPT !.need = init, !.more = TRUE]
     ELSE IF low = limit THEN idle
     ELSE NextSlice(low, n)

\* Mutant: the average counts the round to come.
SoftLimitOffByOne ==
  IF count = 0 THEN limit ELSE Smaller(AvgLimit * (sum \div (count + 1)), limit)

\* Mutant: too small a multiple of the average.
SoftLimitTight ==
  IF count = 0 THEN limit ELSE Smaller(2 * (sum \div count), limit)

SoftLimit ==
  IF count = 0 THEN limit ELSE Smaller(AvgLimit * (sum \div count), limit)

\* The work asked for: by the first round, or by the lower bound found in
\* earlier calls, and by the plugins.
Needed(lower, w) ==
  LET base == IF count = 0 THEN 1 ELSE IF limit = 0 THEN 0 ELSE Max({adjusted, 0})
  IN Max({base, lower.need, FromReadings.need, FromUnitReadings.need, w.need,
          ForComparison.need})

Proposal(lower, w) == Smaller(Smaller(Needed(lower, w), limit), SoftLimit)

\* What calc_next_round_work_amount may answer, with what it leaves behind; a
\* first round of a preset amount runs no plugin.
Answers ==
  IF count = 0 /\ (limit = 0 \/ init # 0)
    THEN {[amount |-> IF limit = 0 THEN 0 ELSE init, more |-> TRUE,
           adjusted |-> adjusted, done |-> lowerDone, slices |-> slices,
           asked |-> asked, trap |-> trap]}
    ELSE LET lower == LowerBound
             answer(w) == [amount |-> Proposal(lower, w),
                           more |-> count = 0 \/ lower.more \/ FromReadings.more
                                      \/ FromUnitReadings.more \/ w.more
                                      \/ ForComparison.more,
                           adjusted |-> lower.adjusted, done |-> lower.done,
                           slices |-> w.slices, asked |-> w.asked,
                           trap |-> w.trap]
         IN {answer(Wps(lower.adjusted, n)) : n \in SliceChoices}

Leave(a) ==
  /\ adjusted' = a.adjusted /\ lowerDone' = a.done
  /\ slices' = a.slices /\ asked' = a.asked /\ trap' = a.trap

\* pilot_next_round_work_amount, between the rounds
Query ==
  /\ Querying /\ phase = "ready" /\ ~trap
  /\ \E a \in Answers : Leave(a) /\ promised' = IF a.more THEN a.amount ELSE -1
  /\ UNCHANGED <<settings, rounds, phase, amount>>

\* The session loop's own call.
Decide ==
  /\ phase = "ready" /\ ~trap
  /\ \E a \in Answers :
       /\ Leave(a)
       /\ amount' = a.amount
       /\ phase' = IF a.more THEN "running" ELSE "done"
  /\ UNCHANGED <<settings, rounds, promised>>

FinishRound ==
  /\ phase = "running" /\ ~trap /\ count < MaxRounds
  /\ phase' = "ready"
  /\ count' = count + 1 /\ sum' = sum + amount /\ last' = amount
  /\ short' \in BOOLEAN
  /\ demand' \in Demand
  /\ promised' = -1
  /\ UNCHANGED <<settings, analysis, amount>>

Next == Query \/ Decide \/ FinishRound

Spec == Init /\ [][Next]_vars
-----------------------------------------------------------------------------
(* The types of the planner's fields.                                      *)
TypeOK ==
  /\ {init, limit, count, sum, last, amount, slices, asked} \subseteq Nat
  /\ {adjusted, promised} \subseteq Nat \cup {-1}
  /\ wps \in WpsModes
  /\ {lowerDone, short, trap} \subseteq BOOLEAN
  /\ demand \in Demand
  /\ phase \in {"ready", "running", "done"}

Running == phase = "running"

(* No round does more than work_amount_limit.                              *)
WithinLimit == Running => amount <= limit

(* Nor less than the amount the first round was set to do, and never no    *)
(* work at all.                                                            *)
WithinRange == Running /\ limit # 0 => amount >= Max({init, 1})

(* Once the smallest amount that makes a round long enough is found, every *)
(* round does at least as much, though the soft limit averages over all    *)
(* the short rounds that came before.                                      *)
SoftLimitKeepsMinimum == Running => amount >= adjusted

(* While the lower bound is not found, a round that was too short is       *)
(* followed by a longer one, until the limit: the search for the lower     *)
(* bound cannot get stuck below the limit.                                 *)
ShortRoundGrows ==
  Running /\ count > 0 /\ adjusted = -1 /\ last < limit => amount > last

(* The WPS analysis divides by a slice of no units of work only if a round *)
(* took so long for its work that more slices were asked for at first than *)
(* there are units (2200). Cutting them in halves again and again          *)
(* (2243-2247) never leads to it, nor does a small range (2189-2192).      *)
TrapOnlyAtFirst ==
  /\ slices # 0 /\ slices > limit - adjusted => slices = asked
  /\ trap => asked > limit - adjusted

(* What pilot_next_round_work_amount said is what the next round does.     *)
QueryPredicts == Running /\ promised # -1 => amount = promised
=============================================================================
