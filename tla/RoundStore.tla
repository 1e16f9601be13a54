----------------------------- MODULE RoundStore -----------------------------
(***************************************************************************)
(* Where the data of a workload's rounds is kept: what                     *)
(* pilot_import_benchmark_results does to the per-round vectors and to the *)
(* totals, with the removal of warm-up phases, and the iterator that walks *)
(* the unit readings that are left.                                        *)
(*                                                                         *)
(* Of a unit reading only its place is kept: a round of a PI is the size   *)
(* of its vector and the length of its warm-up.  A reading is the number   *)
(* of the import that brought it.  Rounds are counted from 1, so the round *)
(* argument of the code is r - 1.                                          *)
(*                                                                         *)
(* The three last constants say what the callers do: the session loop only *)
(* appends, a workload function may leave a PI without unit readings, and  *)
(* may give readings in some rounds only.                                  *)
(***************************************************************************)
EXTENDS Integers, Sequences, FiniteSetsExt

CONSTANTS
  PIs,           \* the performance indices, once set
  MaxUnits,      \* the most unit readings a round brings
  MinDetect,     \* fewest unit readings changepoints are sought in
  WarmPercent,   \* warm_up_removal_percentage_, in percent
  MaxImports,    \* bound on the number of imports
  LateSetup,     \* whether the number of PIs may be set after some rounds
  Replacing,     \* whether callers replace the data of an existing round
  NullColumns,   \* whether unit_readings[piid] may be NULL
  ReadingsGiven  \* whether a round brings readings: a subset of BOOLEAN

ASSUME RoundStoreAssumption ==
  /\ PIs # {}
  /\ {MaxUnits, MaxImports} \subseteq Nat
  /\ MinDetect \in Nat \ {0}
  /\ WarmPercent \in 0..100
  /\ {LateSetup, Replacing, NullColumns} \subseteq BOOLEAN
  /\ ReadingsGiven \subseteq BOOLEAN

VARIABLES
  ready,     \* whether num_of_pi_ was set
  rounds,    \* rounds_
  size,      \* unit_readings_[piid][round].size()
  warm,      \* warm_up_phase_len_[piid][round]
  total,     \* total_num_of_unit_readings_[piid]
  reading,   \* readings_[piid][round], as the import it came with
  rejected,  \* wholly_rejected_rounds_
  given,     \* history: the import that last gave the readings of a round
  imports,   \* history: the number of imports
  wild       \* history: an import wrote or read past the end of a vector

vars == <<ready, rounds, size, warm, total, reading, rejected, given, imports,
          wild>>

Init ==
  /\ ready = FALSE
  /\ rounds = 0
  /\ size = [p \in PIs |-> <<>>]
  /\ warm = [p \in PIs |-> <<>>]
  /\ total = [p \in PIs |-> 0]
  /\ reading = [p \in PIs |-> <<>>]
  /\ rejected = 0
  /\ given = <<>>
  /\ imports = 0
  /\ wild = FALSE

\* set_num_of_pi, legal once: it sizes the per-PI vectors, not their rounds.
SetNumOfPi ==
  /\ ~ready /\ ready' = TRUE
  /\ rounds = 0 \/ LateSetup
  /\ UNCHANGED <<rounds, size, warm, total, reading, rejected, given, imports,
                 wild>>

\* round(warm_up_removal_percentage_ * n), at least one reading being left.
FixedBegin(n) ==
  LET b == (WarmPercent * n + 50) \div 100
  IN IF b = n /\ n # 0 THEN n - 1 ELSE b

Methods == {"NO_WARM_UP_REMOVAL", "FIXED_PERCENTAGE", "EDM"}

\* What pilot_find_dominant_segment finds among n unit readings, if anything:
\* a segment between changepoints that is longer than half of them.
Dominant(n) == {s \in (0..n) \X (0..n) : s[2] - s[1] > n \div 2}

\* What pilot_warm_up_removal_detect and the handling of its result leave of n
\* unit readings: the size of the vector and where its stable part begins.
\* room is the size of the vector before.  If there is no dominant segment, or
\* the round is too short, none of the readings counts.
Outcomes(n, room, method, short) ==
  LET Accept(b, e) == [begin |-> b, size |-> e]
      Reject == [begin |-> n, size |-> room]
  IN CASE method = "NO_WARM_UP_REMOVAL" -> {Accept(0, n)}
       [] method # "NO_WARM_UP_REMOVAL" /\ short -> {Reject}
       [] method = "FIXED_PERCENTAGE" /\ ~short -> {Accept(FixedBegin(n), n)}
       [] method = "EDM" /\ ~short ->
            IF n < MinDetect THEN {[begin |-> 0, size |-> room]}
            ELSE {Accept(s[1], s[2]) : s \in Dominant(n)} \cup {Reject}

\* Mutant: the vector is not sized before the detection.
ColumnUnsized(r, n, data, method, short) == Outcomes(n, 0, method, short)

\* The outcomes for one PI: data says whether its unit_readings[piid] is there.
\* A new round without it gets an empty vector; an old vector is resized.
\* Changepoint detection asserts that there is data.
Column(r, n, data, method, short) ==
  LET room == IF data \/ r <= rounds THEN n ELSE 0
  IN IF ~data /\ method = "EDM" /\ ~short THEN {}
     ELSE Outcomes(n, room, method, short)

\* Of a round without any unit readings.
NoColumn == [begin |-> 0, size |-> 0]

\* Mutant: a round of nothing gets no entry.
StoreSome(s, r, v) ==
  IF r > rounds /\ v # 0 THEN Append(s, v)
  ELSE IF r \in DOMAIN s THEN [s EXCEPT ![r] = v] ELSE s

\* Mutant: the data of an old round stays.
StoreOnce(s, r, v) == IF r > rounds THEN Append(s, v) ELSE s

\* A vector with the value of round r; past its end nothing sensible is stored.
Store(s, r, v) ==
  IF r > rounds THEN Append(s, v)
  ELSE IF r \in DOMAIN s THEN [s EXCEPT ![r] = v] ELSE s

\* Mutant: the warm-up counts as well.
NewUnitsAll(c) == c.size

NewUnits(c) == IF c.size > c.begin THEN c.size - c.begin ELSE 0

\* Mutant: the warm-up of the old data is not taken into account.
OldUnitsAll(p, r) == IF r \in DOMAIN size[p] THEN size[p][r] ELSE 0

OldUnits(p, r) == IF r \in DOMAIN size[p] THEN size[p][r] - warm[p][r] ELSE 0

\* pilot_import_benchmark_results, with the outcome of every PI in col.
Import(r, hasReadings, col) ==
  /\ imports' = imports + 1
  /\ IF r > rounds THEN rounds' = rounds + 1 ELSE UNCHANGED rounds
  /\ LET g == IF hasReadings THEN imports' ELSE 0
     IN given' = IF r > rounds THEN Append(given, g) ELSE [given EXCEPT ![r] = g]
  /\ IF ready
       THEN
         /\ size' = [p \in PIs |-> Store(size[p], r, col[p].size)]
         /\ warm' = [p \in PIs |-> Store(warm[p], r, col[p].begin)]
         /\ total' = [p \in PIs |->
                        total[p] - (IF r <= rounds THEN OldUnits(p, r) ELSE 0)
                                 + NewUnits(col[p])]
         /\ IF hasReadings
              THEN reading' = [p \in PIs |-> Store(reading[p], r, imports')]
              ELSE UNCHANGED reading
         /\ IF ~hasReadings /\ \A p \in PIs : NewUnits(col[p]) = 0
              THEN rejected' = rejected + 1 ELSE UNCHANGED rejected
         /\ wild' = (wild \/ \E p \in PIs :
                       \/ r > rounds /\ Len(size[p]) # rounds
                       \/ r <= rounds /\ r \notin DOMAIN size[p]
                       \/ r <= rounds /\ hasReadings /\ r \notin DOMAIN reading[p])
       ELSE UNCHANGED <<size, warm, total, reading, rejected, wild>>
  /\ UNCHANGED ready

\* With unit readings, or without: then the detection does not run.
ImportRound ==
  /\ imports < MaxImports
  /\ \E r \in (IF Replacing THEN 1 ELSE rounds + 1)..(rounds + 1),
        hasReadings \in ReadingsGiven,
        col \in [PIs -> [begin : 0..MaxUnits, size : 0..MaxUnits]] :
       /\ \/ \A p \in PIs : col[p] = NoColumn
          \/ \E n \in 0..MaxUnits, method \in Methods, short \in BOOLEAN,
                data \in [PIs -> IF NullColumns THEN BOOLEAN ELSE {TRUE}] :
               \A p \in PIs : col[p] \in Column(r, n, data[p], method, short)
       /\ Import(r, hasReadings, col)

Next == SetNumOfPi \/ ImportRound

Spec == Init /\ [][Next]_vars
-----------------------------------------------------------------------------
\* pilot_pi_unit_readings_iter_t: cur_round_id_ and cur_unit_reading_id_ of the
\* code, both counted from 0.  An end is the round rounds.
SizeAt(p, r) == size[p][r + 1]
WarmAt(p, r) == warm[p][r + 1]

IterValid(p, it) ==
  /\ it.round < rounds
  /\ it.unit < SizeAt(p, it.round)
  /\ it.unit >= WarmAt(p, it.round)

\* Mutant: a round without stable unit readings is not skipped.
LandAnywhere(p, r) ==
  [round |-> r, unit |-> IF r < rounds THEN WarmAt(p, r) ELSE 0]

\* The first round from r on with stable unit readings, at their first.
Land(p, r) ==
  LET next == Min({q \in r..(rounds - 1) : SizeAt(p, q) # WarmAt(p, q)}
                  \cup {rounds})
  IN [round |-> next, unit |-> IF next < rounds THEN WarmAt(p, next) ELSE 0]

\* operator++
IterNext(p, it) ==
  IF it.round >= rounds THEN it
  ELSE LET s == SizeAt(p, it.round)
           w == WarmAt(p, it.round)
       IN IF s = w THEN Land(p, it.round)
          ELSE IF it.unit < w THEN [it EXCEPT !.unit = w]
          ELSE IF it.unit # s - 1 THEN [it EXCEPT !.unit = @ + 1]
          ELSE Land(p, it.round + 1)

\* The constructor.
IterNew(p) ==
  LET first == [round |-> 0, unit |-> 0]
  IN IF IterValid(p, first) THEN first ELSE IterNext(p, first)
-----------------------------------------------------------------------------
(* The types of the store; no total of pilot_import_benchmark_results ever *)
(* goes below zero, where size_t would wrap.                               *)
TypeOK ==
  /\ ready \in BOOLEAN
  /\ rounds \in Nat
  /\ size \in [PIs -> Seq(Nat)]
  /\ warm \in [PIs -> Seq(Nat)]
  /\ total \in [PIs -> Nat]
  /\ reading \in [PIs -> Seq(Nat)]
  /\ rejected \in Nat
  /\ given \in Seq(Nat)
  /\ imports \in Nat
  /\ wild \in BOOLEAN

Kept(p) ==
  UNION {{[round |-> r, unit |-> u] : u \in WarmAt(p, r)..(SizeAt(p, r) - 1)} :
           r \in 0..(rounds - 1)}

(* Every PI has an entry for each of the rounds, whoever imported them.    *)
Aligned ==
  ready => \A p \in PIs : Len(size[p]) = rounds /\ Len(warm[p]) = rounds

(* The warm-up of a round is no longer than the round: the iterator's      *)
(* "workload's warm-up phase longer than total round length" never ends    *)
(* the program, and no size_t difference of the two wraps.                 *)
WarmWithinRound ==
  \A p \in PIs : \A r \in DOMAIN size[p] : warm[p][r] <= size[p][r]

(* The running total of a PI, adjusted by each import, is the number of    *)
(* unit readings that are left after every round lost its warm-up.         *)
TotalsExact == ready => \A p \in PIs : total[p] = Cardinality(Kept(p))

\* An iterator that is advanced as often as there are unit readings.
Walk(p) ==
  LET walk[k \in 0..total[p]] ==
        IF k = 0 THEN IterNew(p) ELSE IterNext(p, walk[k - 1])
  IN walk

Before(a, b) == a.round < b.round \/ (a.round = b.round /\ a.unit < b.unit)

(* From its constructor the iterator visits each unit reading that counts  *)
(* exactly once, in order, then becomes invalid: total_num_of_unit_        *)
(* readings_ steps, as the statistics that are given that number rely on.  *)
IteratorExact ==
  ready => \A p \in PIs :
    /\ {Walk(p)[k] : k \in 0..(total[p] - 1)} = Kept(p)
    /\ \A k \in 1..total[p] : Before(Walk(p)[k - 1], Walk(p)[k])
    /\ ~IterValid(p, Walk(p)[total[p]])

(* readings_[piid][round_id] is what the last import of that round gave.   *)
ReadingsAligned ==
  ready => \A p \in PIs : \A r \in 1..rounds :
    given[r] # 0 => r \in DOMAIN reading[p] /\ reading[p][r] = given[r]

(* An import, of a new round or of one being replaced, stays within the    *)
(* vectors.                                                                *)
NoWildAccess == ~wild

(* wholly_rejected_rounds_ is the number of the rounds that have no data.  *)
RejectedExact ==
  ready => rejected = Cardinality({r \in 1..rounds :
     given[r] = 0 /\ \A p \in PIs : size[p][r] <= warm[p][r]})
=============================================================================
