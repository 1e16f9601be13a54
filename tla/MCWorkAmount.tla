---------------------------- MODULE MCWorkAmount ----------------------------
(* WorkAmount over a few ranges of work amounts, in two profiles: narrow ranges with
   all that the analyses may ask for, and a wide one with WPS off, for many rounds,
   in which pilot_next_round_work_amount is called as well. *)
EXTENDS WorkAmount

CONSTANTS WideDemands,  \* what the unit readings may ask for in a wide range
          NarrowRounds  \* bound on the number of rounds in a narrow one

\* No work amount, ranges that leave WPS no room or little, a medium one; and one in which
\* the soft limit overtakes the doubling of short rounds.
NarrowRanges == {<<0, 0>>, <<7, 7>>, <<0, 7>>, <<10, 21>>, <<3, 200>>}
WideRanges == {<<0, 20000>>, <<7, 20000>>}
SomeRanges == NarrowRanges \cup WideRanges

Wide == <<init, limit>> \in WideRanges

MCInit == Init /\ (Wide => wps = "off")

\* What a round may lead to in its profile.
InProfile ==
  IF Wide THEN demand.units \in WideDemands \cup {Satisfied} /\ demand.baseline = Satisfied
          ELSE demand.units \notin WideDemands /\ count <= NarrowRounds

MCNext == (Wide /\ Query) \/ Decide \/ (FinishRound /\ InProfile')

MCSpec == MCInit /\ [][MCNext]_vars
=============================================================================
