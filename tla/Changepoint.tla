------------------------------ MODULE Changepoint ------------------------------
(* The changepoint detection of libpilot.cc: binary segmentation proposes places,
   then the least significant one is taken out until all that are left are
   significant. Readings are left out: best_split may choose any place that leaves
   both sides long enough, and a test may say anything of two segments. A place
   stands for its own index in cps. *)
EXTENDS Integers, Sequences, FiniteSets, FiniteSetsExt, SequencesExt

CONSTANTS
  Sizes,      \* how many readings there may be
  MinSizes,   \* shortest segments a caller of pilot_find_dominant_segment asks for
  DetectMin,  \* MIN_CHANGEPOINT_DETECTION_SAMPLE_SIZE
  PLevels,    \* p-values by rank: 0 is one within the threshold, the greatest is 1
  TLevels     \* |t| by rank

ASSUMPTION DetectionAssumption ==
  /\ Sizes \subseteq Nat /\ MinSizes \subseteq Nat \ {0} /\ DetectMin \in Nat \ {0}
  /\ PLevels \subseteq Nat /\ 0 \in PLevels /\ TLevels \subseteq Nat /\ 0 \in TLevels
  /\ \E one \in PLevels : one > 0 /\ \A p \in PLevels : p <= one

VARIABLES
  call,    \* which function was called, with how many readings and what shortest segment
  phase,
  todo,    \* segments still to be split, the next one last
  cps,     \* the places proposed
  prev, next, res,  \* per place: its neighbours, 0 and n for none, and its test
  order,   \* the keys of the places that are left
  answer,  \* what the function returns
  seen     \* history: the segments a place was last tested on

vars == <<call, phase, todo, cps, prev, next, res, order, answer, seen>>

\* The p-value 1 of a test that cannot be done.
NoEvidence == CHOOSE one \in PLevels : \A p \in PLevels : p <= one

\* best_split: what the split of a segment of n readings may leave on the left, 0 for none.
\* Mutant: the right side may be empty.
SplitsWhole(n, min) == IF n < min THEN {0} ELSE min .. n

Splits(n, min) == IF n < 2 * min THEN {0} ELSE min .. n - min

\* changepoint_test: no evidence from a segment of a single reading.
Verdicts(b, i, e) ==
  IF i - b < 2 \/ e - i < 2 THEN {[p |-> NoEvidence, t |-> 0]} ELSE [p : PLevels, t : TLevels]

\* The key of a place: the greatest p comes first, then the smallest |t|, then the first place.
Key(tests, i) == <<tests[i].p, tests[i].t, i>>
Precedes(k, l) == \/ k[1] > l[1]
                  \/ k[1] = l[1] /\ k[2] < l[2]
                  \/ k[1] = l[1] /\ k[2] = l[2] /\ k[3] < l[3]
Worst == (CHOOSE k \in order : \A l \in order \ {k} : Precedes(k, l))[3]

\* There is a place left that is not significant.
Insignificant == order /= {} /\ res[Worst].p > 0

\* The segments of the readings between some places.
Bounds(places) == {0, call.n} \union places
Segments(places) == {s \in Bounds(places) \X Bounds(places) :
                       s[1] < s[2] /\ ~\E b \in places : s[1] < b /\ b < s[2]}

\* The segment that ends at cp is the longest so far, unless there is one longer than half.
\* Mutant: segments are measured from the last one that was longer.
VisitLate(s, cp) ==
  LET length == s.longest[2] - s.longest[1]
      longer == length <= call.n \div 2 /\ cp - s.begin > length
  IN [begin |-> IF longer THEN cp ELSE s.begin, longest |-> IF longer THEN <<s.begin, cp>> ELSE s.longest]

Visit(s, cp) ==
  LET length == s.longest[2] - s.longest[1]
      longer == length <= call.n \div 2 /\ cp - s.begin > length
  IN [begin |-> cp, longest |-> IF longer THEN <<s.begin, cp>> ELSE s.longest]

\* After the k-th reading: the places, and the last reading, are visited in ascending order.
Visits(places) ==
  LET visits[k \in 0 .. call.n] ==
        IF k = 0 THEN [begin |-> 0, longest |-> <<0, 0>>]
        ELSE IF k \in places \union {call.n} THEN Visit(visits[k - 1], k) ELSE visits[k - 1]
  IN visits

\* pilot_find_dominant_segment.
Dominant(places) ==
  LET longest == Visits(places)[call.n].longest
  IN IF longest[2] - longest[1] > call.n \div 2
     THEN <<"segment", longest>>
     ELSE <<"ERR_NO_DOMINANT_SEGMENT">>

\* pilot_changepoint_detection, pilot_find_dominant_segment, pilot_find_one_changepoint.
Reply(places) ==
  CASE call.name = "all" -> <<"places", places>>
    [] call.name = "dominant" -> Dominant(places)
    [] call.name = "last" -> IF places = {} THEN <<"ERR_NO_CHANGEPOINT">> ELSE <<"place", Max(places)>>

Idle == /\ phase = "idle" /\ todo = <<>> /\ cps = {} /\ order = {} /\ answer = <<>>
        /\ prev = <<>> /\ next = <<>> /\ res = <<>> /\ seen = <<>>

Init == Idle /\ call = [name |-> "all", n |-> 0, min |-> DetectMin]

\* A function is called; only pilot_find_dominant_segment takes a shortest segment.
Call ==
  /\ phase = "idle"
  /\ \E name \in {"all", "dominant", "last"}, n \in Sizes, min \in MinSizes \union {DetectMin} :
       /\ name /= "dominant" => min = DetectMin
       /\ call' = [name |-> name, n |-> n, min |-> min]
       /\ IF n < min
          THEN /\ phase' = "done" /\ answer' = <<"ERR_NOT_ENOUGH_DATA">>
               /\ UNCHANGED todo
          ELSE /\ phase' = "propose" /\ todo' = <<<<0, n>>>>
               /\ UNCHANGED answer
  /\ UNCHANGED <<cps, prev, next, res, order, seen>>

\* A reading that is not finite: nothing is detected.
Unusable ==
  /\ phase = "propose" /\ todo = <<<<0, call.n>>>> /\ cps = {}
  /\ phase' = "done" /\ todo' = <<>> /\ answer' = Reply({})
  /\ UNCHANGED <<call, cps, prev, next, res, order, seen>>

\* The parts of a split that are still to be split.
\* Mutant: only the right part.
PartsRight(seg, tau) == <<<<seg[1] + tau, seg[2]>>>>

Parts(seg, tau) == <<<<seg[1], seg[1] + tau>>, <<seg[1] + tau, seg[2]>>>>

\* The next segment is split, or is too short.
Propose ==
  /\ phase = "propose" /\ todo /= <<>>
  /\ LET seg == Last(todo)
     IN \E tau \in Splits(seg[2] - seg[1], call.min) :
          IF tau = 0
          THEN todo' = Front(todo) /\ UNCHANGED cps
          ELSE /\ cps' = cps \union {seg[1] + tau}
               /\ todo' = Front(todo) \o Parts(seg, tau)
  /\ UNCHANGED <<call, phase, prev, next, res, order, answer, seen>>

\* All proposed: each place is linked with its neighbours, tested and put in order.
TestAll ==
  /\ phase = "propose" /\ todo = <<>>
  /\ LET before(i) == Max({0} \union {j \in cps : j < i})
         after(i) == Min({call.n} \union {j \in cps : j > i})
     IN /\ prev' = [i \in cps |-> before(i)]
        /\ next' = [i \in cps |-> after(i)]
        /\ seen' = [i \in cps |-> <<before(i), after(i)>>]
        /\ res' \in {r \in [cps -> [p : PLevels, t : TLevels]] :
                       \A i \in cps : r[i] \in Verdicts(before(i), i, after(i))}
  /\ order' = {Key(res', i) : i \in cps}
  /\ phase' = "dispose"
  /\ UNCHANGED <<call, todo, cps, answer>>

\* The order without the worst place, and its neighbours under the keys of their new tests.
\* Mutant: a neighbour is looked up by its new key, after the test.
ReorderedLate(worst, nbs, tests) ==
  (order \ ({Key(res, worst)} \union {Key(tests, i) : i \in nbs})) \union {Key(tests, i) : i \in nbs}

Reordered(worst, nbs, tests) ==
  (order \ {Key(res, i) : i \in nbs \union {worst}}) \union {Key(tests, i) : i \in nbs}

\* The least significant place goes; its neighbours have other segments now.
Dispose ==
  /\ phase = "dispose" /\ Insignificant
  /\ LET before == prev[Worst]
         after == next[Worst]
         nbs == {before, after} \intersect cps
     IN /\ next' = IF before \in cps THEN [next EXCEPT ![before] = after] ELSE next
        /\ prev' = IF after \in cps THEN [prev EXCEPT ![after] = before] ELSE prev
        /\ \E again \in {r \in [nbs -> [p : PLevels, t : TLevels]] :
                           \A i \in nbs : r[i] \in Verdicts(prev'[i], i, next'[i])} :
             res' = [i \in cps |-> IF i \in nbs THEN again[i] ELSE res[i]]
        /\ seen' = [i \in cps |-> IF i \in nbs THEN <<prev'[i], next'[i]>> ELSE seen[i]]
        /\ order' = Reordered(Worst, nbs, res')
  /\ UNCHANGED <<call, phase, todo, cps, answer>>

\* What is left is significant, or nothing is left.
Finish ==
  /\ phase = "dispose" /\ ~Insignificant
  /\ phase' = "done" /\ answer' = Reply({k[3] : k \in order})
  /\ UNCHANGED <<call, todo, cps, prev, next, res, order, seen>>

\* The caller takes the answer; the arrays go.
Return ==
  /\ phase = "done"
  /\ phase' = "idle" /\ todo' = <<>> /\ cps' = {} /\ order' = {} /\ answer' = <<>>
  /\ prev' = <<>> /\ next' = <<>> /\ res' = <<>> /\ seen' = <<>>
  /\ UNCHANGED call

Detect == Unusable \/ Propose \/ TestAll \/ Dispose \/ Finish

Next == Call \/ Detect \/ Return

Spec == Init /\ [][Next]_vars /\ WF_vars(Detect)
-----------------------------------------------------------------------------
Left == {k[3] : k \in order}

\* The segments of all that is proposed are long enough (1277-1303), and when the proposals are
\* done none could have been split again: the stack of 1588-1598 forgets no part.
ProposalsSound ==
  \A s \in Segments(cps) :
    /\ cps /= {} => s[2] - s[1] >= call.min
    /\ phase = "dispose" => s[2] - s[1] < 2 * call.min

\* While places are taken out, each one left has one key, that of its last test, and this test was
\* on the two segments it has now (1637-1645): no stale key, no stale link, no stale p-value.
TestsCurrent ==
  phase \in {"dispose", "done"} =>
    /\ order = {Key(res, i) : i \in Left}
    /\ \A i \in Left : /\ <<prev[i], i>> \in Segments(Left) /\ <<i, next[i]>> \in Segments(Left)
                       /\ seen[i] = <<prev[i], next[i]>>

\* What is returned: only places that were significant against the segments next to them in the
\* answer, the last of all of them, the one segment longer than half if there is one (1703-1749).
AnswerRight ==
  (phase = "done" /\ answer[1] /= "ERR_NOT_ENOUGH_DATA") =>
    /\ \A i \in Left : res[i].p = 0 /\ <<seen[i][1], i>> \in Segments(Left) /\ <<i, seen[i][2]>> \in Segments(Left)
    /\ answer[1] = "places" => answer[2] = Left
    /\ answer[1] = "place" => answer[2] \in Left /\ \A i \in Left : i <= answer[2]
    /\ call.name = "dominant" =>
         {s \in Segments(Left) : 2 * (s[2] - s[1]) > call.n} = IF answer[1] = "segment" THEN {answer[2]} ELSE {}

\* A detection ends with an answer.
DetectionEnds == (phase = "propose") ~> (phase = "done")

=============================================================================
