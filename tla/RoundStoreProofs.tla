-------------------------- MODULE RoundStoreProofs --------------------------
(***************************************************************************)
(* What is proved of the round store for any number of PIs, rounds and     *)
(* unit readings, when the number of PIs is set before the first round and *)
(* no unit readings are NULL: the uses TLC finds the code at fault in are  *)
(* left out by ~LateSetup and ~NullColumns.                                *)
(***************************************************************************)
EXTENDS RoundStore, FiniteSetTheorems, SequenceTheorems, WellFoundedInduction, TLAPS

Regular == ~LateSetup /\ ~NullColumns

Columns == [begin : Nat, size : Nat]

\* The fixed percentage never goes past the end.
LEMMA FixedWithin ==
  ASSUME NEW n \in Nat PROVE FixedBegin(n) \in Nat /\ FixedBegin(n) <= n
<1>1. WarmPercent \in 0..100
  BY RoundStoreAssumption
<1> DEFINE w == WarmPercent * n
<1>2. w \in Nat /\ w <= 100 * n
  BY <1>1, SMT
<1>3. ASSUME NEW x \in Nat, x <= 100 * n
      PROVE  (x + 50) \div 100 \in Nat /\ (x + 50) \div 100 <= n
  BY <1>3, SMT
<1>4. (w + 50) \div 100 \in Nat /\ (w + 50) \div 100 <= n
  <2> HIDE DEF w
  <2> QED BY <1>2, <1>3
<1> QED BY <1>4 DEF FixedBegin

\* With its unit readings at hand a PI gets a stable part that begins within
\* its round, whatever the method finds.
LEMMA ColumnWithin ==
  ASSUME NEW r \in Nat, NEW n \in Nat, NEW method \in Methods,
         NEW short \in BOOLEAN, NEW c \in Column(r, n, TRUE, method, short)
  PROVE  c \in Columns /\ c.begin <= c.size
<1>1. c \in Outcomes(n, n, method, short)
  BY DEF Column
<1>2. CASE method = "NO_WARM_UP_REMOVAL"
  <2>1. c = [begin |-> 0, size |-> n]
    BY <1>1, <1>2 DEF Outcomes
  <2> QED BY <2>1 DEF Columns
<1>3. CASE method # "NO_WARM_UP_REMOVAL" /\ short
  <2>1. c = [begin |-> n, size |-> n]
    BY <1>1, <1>3 DEF Outcomes, Methods
  <2> QED BY <2>1 DEF Columns
<1>4. CASE method = "FIXED_PERCENTAGE" /\ ~short
  <2>1. c = [begin |-> FixedBegin(n), size |-> n]
    BY <1>1, <1>4 DEF Outcomes
  <2> QED BY <2>1, FixedWithin DEF Columns
<1>5. CASE method = "EDM" /\ ~short
  <2>1. \/ c = [begin |-> 0, size |-> n]
        \/ c = [begin |-> n, size |-> n]
        \/ \E s \in Dominant(n) : c = [begin |-> s[1], size |-> s[2]]
    BY <1>1, <1>5 DEF Outcomes
  <2>2. ASSUME NEW s \in Dominant(n), c = [begin |-> s[1], size |-> s[2]]
        PROVE  c \in Columns /\ c.begin <= c.size
    <3>1. s[1] \in Nat /\ s[2] \in Nat /\ s[2] - s[1] > n \div 2
      BY DEF Dominant
    <3>2. n \div 2 >= 0
      BY SMT
    <3> QED BY <2>2, <3>1, <3>2 DEF Columns
  <2> QED BY <2>1, <2>2 DEF Columns
<1> QED BY <1>2, <1>3, <1>4, <1>5 DEF Methods

\* A value stored in the place of a round, or behind the last one.
LEMMA StoreType ==
  ASSUME NEW s \in Seq(Nat), NEW r \in 1..(rounds + 1), NEW v \in Nat,
         rounds \in Nat
  PROVE  Store(s, r, v) \in Seq(Nat)
BY ExceptSeq, LenProperties DEF Store

LEMMA StoreValue ==
  ASSUME NEW s \in Seq(Nat), NEW r \in 1..(rounds + 1), NEW v \in Nat,
         rounds \in Nat, Len(s) = rounds
  PROVE  /\ Len(Store(s, r, v)) = IF r > rounds THEN rounds + 1 ELSE rounds
         /\ Store(s, r, v)[r] = v
         /\ \A q \in 1..rounds : q # r => Store(s, r, v)[q] = s[q]
<1>1. CASE r > rounds
  BY <1>1 DEF Store
<1>2. CASE r <= rounds
  <2>1. r \in 1..Len(s) /\ r \in DOMAIN s
    BY <1>2, LenProperties
  <2> QED BY <1>2, <2>1, ExceptSeq DEF Store
<1> QED BY <1>1, <1>2
-----------------------------------------------------------------------------
\* Both vectors of a PI have an entry per round once there are PIs.
Entries(p) == Len(size[p]) = Len(warm[p]) /\ Len(size[p]) = IF ready THEN rounds ELSE 0

Within(p) == \A r \in 1..Len(size[p]) : warm[p][r] <= size[p][r]

\* TypeOK, but for a total that might yet be negative.
Typed ==
  /\ ready \in BOOLEAN /\ rounds \in Nat /\ rejected \in Nat
  /\ size \in [PIs -> Seq(Nat)] /\ warm \in [PIs -> Seq(Nat)]
  /\ total \in [PIs -> Int] /\ reading \in [PIs -> Seq(Nat)]
  /\ given \in Seq(Nat) /\ imports \in Nat /\ wild \in BOOLEAN

Shape ==
  Typed /\ Len(given) = rounds /\ \A p \in PIs : Entries(p) /\ Within(p)

LEMMA ShapeInit == Init => Shape
<1> SUFFICES ASSUME Init PROVE Shape
  OBVIOUS
<1>1. <<>> \in Seq(Nat) /\ Len(<<>>) = 0
  BY EmptySeq
<1>2. Typed /\ Len(given) = rounds
  <2>1. /\ size \in [PIs -> Seq(Nat)] /\ warm \in [PIs -> Seq(Nat)]
        /\ reading \in [PIs -> Seq(Nat)] /\ given \in Seq(Nat) /\ Len(given) = 0
    BY <1>1 DEF Init
  <2>2. total \in [PIs -> Int]
    BY DEF Init
  <2>3. /\ ready \in BOOLEAN /\ rounds = 0 /\ rejected \in Nat /\ imports \in Nat
        /\ wild \in BOOLEAN
    BY DEF Init
  <2> QED BY <2>1, <2>2, <2>3 DEF Typed
<1>3. \A p \in PIs : size[p] = <<>> /\ warm[p] = <<>> /\ ~ready
  BY DEF Init
<1> QED BY <1>1, <1>2, <1>3 DEF Shape, Entries, Within

\* The entries of a PI after an import.
LEMMA ColumnStored ==
  ASSUME NEW r \in 1..(rounds + 1), NEW hasReadings \in BOOLEAN,
         NEW col \in [PIs -> Columns], Shape, Import(r, hasReadings, col), ready,
         NEW p \in PIs
  PROVE  /\ size'[p] = Store(size[p], r, col[p].size) /\ size'[p] \in Seq(Nat)
         /\ warm'[p] = Store(warm[p], r, col[p].begin) /\ warm'[p] \in Seq(Nat)
         /\ Len(size'[p]) = rounds' /\ Len(warm'[p]) = rounds'
         /\ rounds' = IF r > rounds THEN rounds + 1 ELSE rounds
         /\ size'[p][r] = col[p].size /\ warm'[p][r] = col[p].begin
         /\ \A q \in 1..rounds :
              q # r => size'[p][q] = size[p][q] /\ warm'[p][q] = warm[p][q]
<1>1. rounds \in Nat /\ size[p] \in Seq(Nat) /\ warm[p] \in Seq(Nat)
      /\ Len(size[p]) = rounds /\ Len(warm[p]) = rounds
  BY DEF Shape, Typed, Entries
<1>2. col[p].size \in Nat /\ col[p].begin \in Nat
  BY DEF Columns
<1>3. /\ size'[p] = Store(size[p], r, col[p].size)
      /\ warm'[p] = Store(warm[p], r, col[p].begin)
      /\ rounds' = IF r > rounds THEN rounds + 1 ELSE rounds
  BY DEF Import
<1>4. size'[p] \in Seq(Nat) /\ warm'[p] \in Seq(Nat)
  BY <1>1, <1>2, <1>3, StoreType
<1>5. /\ Len(size'[p]) = rounds' /\ size'[p][r] = col[p].size
      /\ \A q \in 1..rounds : q # r => size'[p][q] = size[p][q]
  BY <1>1, <1>2, <1>3, StoreValue
<1>6. /\ Len(warm'[p]) = rounds' /\ warm'[p][r] = col[p].begin
      /\ \A q \in 1..rounds : q # r => warm'[p][q] = warm[p][q]
  BY <1>1, <1>2, <1>3, StoreValue
<1> QED BY <1>3, <1>4, <1>5, <1>6

\* An import of columns that are within their rounds.
LEMMA ImportShape ==
  ASSUME NEW r \in 1..(rounds + 1), NEW hasReadings \in BOOLEAN,
         NEW col \in [PIs -> Columns], \A p \in PIs : col[p].begin <= col[p].size,
         Shape, Import(r, hasReadings, col)
  PROVE  Shape'
<1>1. /\ imports' \in Nat /\ rounds' \in Nat /\ ready' = ready /\ ready \in BOOLEAN
      /\ rounds' = IF r > rounds THEN rounds + 1 ELSE rounds
  <2>1. imports \in Nat /\ rounds \in Nat /\ ready \in BOOLEAN
    BY DEF Shape, Typed
  <2>2. /\ imports' = imports + 1 /\ ready' = ready
        /\ rounds' = IF r > rounds THEN rounds + 1 ELSE rounds
    BY DEF Import
  <2> QED BY <2>1, <2>2
<1>2. given' \in Seq(Nat) /\ Len(given') = rounds'
  <2> DEFINE g == IF hasReadings THEN imports' ELSE 0
  <2>1. g \in Nat /\ given \in Seq(Nat) /\ Len(given) = rounds /\ rounds \in Nat
    BY <1>1 DEF Shape, Typed
  <2>2. given' = IF r > rounds THEN Append(given, g) ELSE [given EXCEPT ![r] = g]
    BY DEF Import
  <2> HIDE DEF g
  <2>3. CASE r > rounds
    BY <2>1, <2>2, <2>3, <1>1
  <2>4. CASE r <= rounds
    <3>1. r \in 1..Len(given)
      BY <2>1, <2>4
    <3> QED BY <2>1, <2>2, <2>4, <3>1, <1>1, ExceptSeq
  <2> QED BY <2>1, <2>3, <2>4
<1>3. CASE ~ready
  <2>1. UNCHANGED <<ready, size, warm, total, reading, rejected, wild>>
    BY <1>3 DEF Import
  <2>2. \A p \in PIs : (Entries(p) /\ Within(p))'
    BY <1>3, <2>1 DEF Shape, Entries, Within
  <2> QED BY <1>1, <1>2, <2>1, <2>2 DEF Shape, Typed
<1>4. CASE ready
  <2>1. size' \in [PIs -> Seq(Nat)] /\ warm' \in [PIs -> Seq(Nat)]
    <3>1. /\ size' = [p \in PIs |-> Store(size[p], r, col[p].size)]
          /\ warm' = [p \in PIs |-> Store(warm[p], r, col[p].begin)]
      BY <1>4 DEF Import
    <3> QED BY <1>4, <3>1, ColumnStored
  <2>2. total' \in [PIs -> Int]
    <3>1. ASSUME NEW p \in PIs
          PROVE  OldUnits(p, r) \in Int /\ NewUnits(col[p]) \in Int
      <4>1. r \in DOMAIN size[p] => size[p][r] \in Nat /\ warm[p][r] \in Nat
        BY LenProperties, ElementOfSeq DEF Shape, Typed, Entries
      <4> QED BY <4>1 DEF OldUnits, NewUnits, Columns
    <3>2. \A p \in PIs : total[p] \in Int
      BY DEF Shape, Typed
    <3> QED BY <1>4, <3>1, <3>2 DEF Import
  <2>3. reading' \in [PIs -> Seq(Nat)]
    <3>1. reading \in [PIs -> Seq(Nat)] /\ rounds \in Nat
      BY DEF Shape, Typed
    <3>2. \/ reading' = reading
          \/ reading' = [p \in PIs |-> Store(reading[p], r, imports')]
      BY <1>4 DEF Import
    <3>3. \A p \in PIs : Store(reading[p], r, imports') \in Seq(Nat)
      BY <3>1, <1>1, StoreType
    <3> QED BY <3>1, <3>2, <3>3
  <2>4. rejected' \in Nat /\ wild' \in BOOLEAN
    BY <1>4 DEF Import, Shape, Typed
  <2>5. ASSUME NEW p \in PIs PROVE (Entries(p) /\ Within(p))'
    <3>1. \A q \in 1..rounds : q # r => warm'[p][q] <= size'[p][q]
      <4>1. \A q \in 1..rounds : warm[p][q] <= size[p][q]
        BY <1>4 DEF Shape, Within, Entries
      <4>2. \A q \in 1..rounds :
              q # r => size'[p][q] = size[p][q] /\ warm'[p][q] = warm[p][q]
        BY <1>4, ColumnStored
      <4> QED BY <4>1, <4>2
    <3>2. warm'[p][r] <= size'[p][r]
      BY <1>4, ColumnStored
    <3>3. Len(size'[p]) = rounds' /\ Len(warm'[p]) = rounds'
      BY <1>4, ColumnStored
    <3>4. rounds \in Nat
      BY DEF Shape, Typed
    <3> QED BY <1>1, <1>4, <3>1, <3>2, <3>3, <3>4 DEF Entries, Within
  <2> QED BY <1>1, <1>2, <2>1, <2>2, <2>3, <2>4, <2>5 DEF Shape, Typed
<1> QED BY <1>1, <1>3, <1>4

\* The columns the session loop imports are within their rounds.
LEMMA ImportedWithin ==
  ASSUME ~NullColumns, NEW r \in Nat,
         NEW col \in [PIs -> [begin : 0..MaxUnits, size : 0..MaxUnits]],
         \/ \A p \in PIs : col[p] = NoColumn
         \/ \E n \in 0..MaxUnits, method \in Methods, short \in BOOLEAN,
               data \in [PIs -> IF NullColumns THEN BOOLEAN ELSE {TRUE}] :
              \A p \in PIs : col[p] \in Column(r, n, data[p], method, short)
  PROVE  col \in [PIs -> Columns] /\ \A p \in PIs : col[p].begin <= col[p].size
<1>1. MaxUnits \in Nat
  BY RoundStoreAssumption
<1>2. \A p \in PIs : col[p] \in Columns
  BY <1>1 DEF Columns
<1>3. CASE \A p \in PIs : col[p] = NoColumn
  BY <1>2, <1>3 DEF NoColumn
<1>4. ASSUME NEW n \in 0..MaxUnits, NEW method \in Methods, NEW short \in BOOLEAN,
             NEW data \in [PIs -> IF NullColumns THEN BOOLEAN ELSE {TRUE}],
             \A p \in PIs : col[p] \in Column(r, n, data[p], method, short)
      PROVE  \A p \in PIs : col[p].begin <= col[p].size
  <2>1. (IF NullColumns THEN BOOLEAN ELSE {TRUE}) = {TRUE}
    BY Zenon
  <2>2. data \in [PIs -> {TRUE}]
    BY <2>1, Zenon
  <2>3. \A p \in PIs : data[p] = TRUE
    BY <2>2
  <2>4. n \in Nat
    BY <1>1
  <2> QED BY <1>4, <2>3, <2>4, ColumnWithin
<1> QED BY <1>2, <1>3, <1>4

LEMMA ShapeStep == Regular /\ Shape /\ [Next]_vars => Shape'
<1> SUFFICES ASSUME Regular, Shape, [Next]_vars PROVE Shape'
  OBVIOUS
<1>1. CASE SetNumOfPi
  <2>1. /\ ready' = TRUE /\ ~ready /\ rounds = 0
        /\ UNCHANGED <<rounds, size, warm, total, reading, rejected, given,
                       imports, wild>>
    BY <1>1 DEF SetNumOfPi, Regular
  <2>2. Typed' /\ Len(given') = rounds'
    BY <2>1 DEF Shape, Typed
  <2>3. \A p \in PIs : (Entries(p) /\ Within(p))'
    BY <2>1 DEF Shape, Entries, Within
  <2> QED BY <2>2, <2>3 DEF Shape
<1>2. CASE ImportRound
  <2>1. PICK r \in (IF Replacing THEN 1 ELSE rounds + 1)..(rounds + 1),
             hasReadings \in ReadingsGiven,
             col \in [PIs -> [begin : 0..MaxUnits, size : 0..MaxUnits]] :
          /\ \/ \A p \in PIs : col[p] = NoColumn
             \/ \E n \in 0..MaxUnits, method \in Methods, short \in BOOLEAN,
                   data \in [PIs -> IF NullColumns THEN BOOLEAN ELSE {TRUE}] :
                  \A p \in PIs : col[p] \in Column(r, n, data[p], method, short)
          /\ Import(r, hasReadings, col)
    BY <1>2 DEF ImportRound
  <2>2. r \in 1..(rounds + 1) /\ r \in Nat /\ hasReadings \in BOOLEAN
    BY RoundStoreAssumption DEF Shape, Typed
  <2>3. col \in [PIs -> Columns] /\ \A p \in PIs : col[p].begin <= col[p].size
    BY <2>1, <2>2, ImportedWithin DEF Regular
  <2> QED BY <2>1, <2>2, <2>3, ImportShape
<1>3. CASE UNCHANGED vars
  <2>1. UNCHANGED <<ready, rounds, size, warm, total, reading, rejected, given,
                    imports, wild>>
    BY <1>3 DEF vars
  <2> QED BY <2>1 DEF Shape, Typed, Entries, Within
<1> QED BY <1>1, <1>2, <1>3 DEF Next

LEMMA ShapeInductive == ASSUME Regular PROVE Spec => []Shape
BY ShapeInit, ShapeStep, PTL DEF Spec

(* However rounds are appended and replaced, every PI has one entry per    *)
(* round in each of its vectors.                                           *)
THEOREM EntriesAligned == ASSUME Regular PROVE Spec => []Aligned
<1>1. Shape => Aligned
  BY DEF Shape, Entries, Aligned
<1> QED BY <1>1, ShapeInductive, PTL

(* No round's warm-up is longer than the round, whatever the detection     *)
(* method finds, so that the size_t differences never wrap and the         *)
(* iterator's fatal check is never met.                                    *)
THEOREM WarmUpWithin == ASSUME Regular PROVE Spec => []WarmWithinRound
<1>1. Shape => WarmWithinRound
  BY LenProperties DEF Shape, Typed, Within, WarmWithinRound
<1> QED BY <1>1, ShapeInductive, PTL
-----------------------------------------------------------------------------
\* The places of the stable unit readings of a round.
Cells(q, b, e) == {[round |-> q, unit |-> u] : u \in b..(e - 1)}

LEMMA CellsCount ==
  ASSUME NEW q, NEW b \in Int, NEW e \in Int
  PROVE  /\ IsFiniteSet(Cells(q, b, e))
         /\ Cardinality(Cells(q, b, e)) = IF e > b THEN e - b ELSE 0
<1> DEFINE U == b..(e - 1)
           f == [u \in U |-> [round |-> q, unit |-> u]]
<1>1. IsFiniteSet(U) /\ Cardinality(U) = IF e > b THEN e - b ELSE 0
  BY FS_Interval
<1>2. f \in Bijection(U, Cells(q, b, e))
  <2>1. f \in [U -> Cells(q, b, e)]
    BY DEF Cells
  <2>2. \A u, v \in U : f[u] = f[v] => u = v
    OBVIOUS
  <2>3. \A c \in Cells(q, b, e) : \E u \in U : f[u] = c
    BY DEF Cells
  <2> HIDE DEF f, U
  <2> QED BY <2>1, <2>2, <2>3 DEF Bijection, Injection, Surjection, IsInjective
<1>3. ExistsBijection(U, Cells(q, b, e))
  BY <1>2 DEF ExistsBijection
<1> HIDE DEF U
<1> QED BY <1>1, <1>3, FS_Bijection

LEMMA KeptCells ==
  ASSUME NEW p \in PIs
  PROVE  \A x : x \in Kept(p) <=>
           \E q \in 0..(rounds - 1) : x \in Cells(q, warm[p][q + 1], size[p][q + 1])
BY DEF Kept, Cells, WarmAt, SizeAt

\* Taking a part away from a finite set and adding what was not in the rest.
LEMMA Exchange ==
  ASSUME NEW K, IsFiniteSet(K), NEW O, O \subseteq K, NEW N, IsFiniteSet(N),
         N \cap (K \ O) = {}
  PROVE  /\ IsFiniteSet((K \ O) \cup N)
         /\ Cardinality((K \ O) \cup N) = Cardinality(K) - Cardinality(O) + Cardinality(N)
<1>1. IsFiniteSet(K \ O) /\ Cardinality(K \ O) = Cardinality(K) - Cardinality(O)
  <2>1. K \cap O = O
    OBVIOUS
  <2> QED BY <2>1, FS_Difference
<1>2. /\ IsFiniteSet((K \ O) \cup N)
      /\ Cardinality((K \ O) \cup N) =
           Cardinality(K \ O) + Cardinality(N) - Cardinality((K \ O) \cap N)
  BY <1>1, FS_Union
<1>3. (K \ O) \cap N = {}
  OBVIOUS
<1>4. /\ Cardinality(K) \in Nat /\ Cardinality(O) \in Nat /\ Cardinality(N) \in Nat
      /\ Cardinality({}) = 0
  BY FS_CardinalityType, FS_Subset, FS_EmptySet
<1>5. Cardinality((K \ O) \cap N) = 0
  BY <1>3, <1>4
<1> QED BY <1>1, <1>2, <1>4, <1>5

Counted(p) ==
  IF ready THEN IsFiniteSet(Kept(p)) /\ total[p] = Cardinality(Kept(p))
           ELSE total[p] = 0

\* An import exchanges the places of its round for new ones, and takes from
\* the total and adds to it accordingly.
LEMMA ImportCounts ==
  ASSUME NEW r \in 1..(rounds + 1), NEW hasReadings \in BOOLEAN,
         NEW col \in [PIs -> Columns], \A p \in PIs : col[p].begin <= col[p].size,
         Shape, Import(r, hasReadings, col), ready,
         NEW p \in PIs, Counted(p)
  PROVE  Counted(p)'
<1> DEFINE O == IF r <= rounds THEN Cells(r - 1, warm[p][r], size[p][r]) ELSE {}
           N == Cells(r - 1, col[p].begin, col[p].size)
<1>1. /\ rounds \in Nat /\ col[p].begin \in Nat /\ col[p].size \in Nat
      /\ rounds' = (IF r > rounds THEN rounds + 1 ELSE rounds)
      /\ ready' = ready
  BY ColumnStored DEF Shape, Typed, Columns, Import
<1>2. r <= rounds => /\ r \in DOMAIN size[p] /\ warm[p][r] \in Nat /\ size[p][r] \in Nat
                     /\ warm[p][r] <= size[p][r]
  <2> SUFFICES ASSUME r <= rounds
               PROVE  /\ r \in DOMAIN size[p] /\ warm[p][r] \in Nat
                      /\ size[p][r] \in Nat /\ warm[p][r] <= size[p][r]
    OBVIOUS
  <2>1. size[p] \in Seq(Nat) /\ warm[p] \in Seq(Nat)
        /\ Len(size[p]) = rounds /\ Len(warm[p]) = rounds
    BY DEF Shape, Typed, Entries
  <2>2. r \in 1..rounds
    BY <1>1
  <2>3. r \in DOMAIN size[p] /\ warm[p][r] \in Nat /\ size[p][r] \in Nat
    BY <2>1, <2>2, LenProperties, ElementOfSeq
  <2> QED BY <2>1, <2>2, <2>3 DEF Shape, Within
<1>3. Kept(p)' = (Kept(p) \ O) \cup N
  <2>1. \A x : x \in Kept(p)' <=>
          \E q \in 0..(rounds' - 1) : x \in Cells(q, warm'[p][q + 1], size'[p][q + 1])
    BY DEF Kept, Cells, WarmAt, SizeAt
  <2>2. \A q \in 0..(rounds - 1) : q # r - 1 =>
          warm'[p][q + 1] = warm[p][q + 1] /\ size'[p][q + 1] = size[p][q + 1]
    <3>1. \A j \in 1..rounds :
            j # r => size'[p][j] = size[p][j] /\ warm'[p][j] = warm[p][j]
      BY ColumnStored
    <3> QED BY <1>1, <3>1
  <2>3. \A q \in Int : q = r - 1 => Cells(q, warm'[p][q + 1], size'[p][q + 1]) = N
    BY <1>1, ColumnStored
  <2>4. ASSUME NEW x PROVE x \in Kept(p)' <=> x \in (Kept(p) \ O) \cup N
    <3>1. CASE x \in Kept(p)'
      <4>1. PICK q \in 0..(rounds' - 1) :
              x \in Cells(q, warm'[p][q + 1], size'[p][q + 1])
        BY <2>1, <3>1
      <4>2. CASE q = r - 1
        <5>1. q \in Int
          BY <4>1
        <5>2. x \in N
          <6> HIDE DEF N
          <6> QED BY <2>3, <4>1, <4>2, <5>1
        <5> HIDE DEF N, O
        <5> QED BY <3>1, <5>2
      <4>3. CASE q # r - 1
        <5>1. q \in 0..(rounds - 1)
          BY <1>1, <4>3
        <5>2. x \in Kept(p)
          BY <2>2, <4>1, <4>3, <5>1, KeptCells
        <5>3. x \notin O
          BY <4>1, <4>3 DEF Cells
        <5> HIDE DEF N, O
        <5> QED BY <3>1, <5>2, <5>3
      <4> QED BY <4>2, <4>3
    <3>2. CASE x \in N
      <4>1. r - 1 \in 0..(rounds' - 1) /\ r - 1 \in Int
        BY <1>1
      <4> QED BY <2>1, <2>3, <3>2, <4>1
    <3>3. CASE x \in Kept(p) /\ x \notin O
      <4>1. PICK q \in 0..(rounds - 1) :
              x \in Cells(q, warm[p][q + 1], size[p][q + 1])
        BY <3>3, KeptCells
      <4>2. q # r - 1
        <5>1. q = r - 1 => O = Cells(q, warm[p][q + 1], size[p][q + 1])
          BY <1>1
        <5> QED BY <3>3, <4>1, <5>1
      <4>3. q \in 0..(rounds' - 1)
        BY <1>1
      <4> QED BY <2>1, <2>2, <3>3, <4>1, <4>2, <4>3
    <3> QED BY <3>1, <3>2, <3>3
  <2> QED BY <2>4
<1>4. O \subseteq Kept(p)
  <2>1. CASE r <= rounds
    <3>1. r - 1 \in 0..(rounds - 1) /\ (r - 1) + 1 = r
      BY <1>1, <2>1
    <3>2. \A x \in O : x \in Cells(r - 1, warm[p][(r - 1) + 1], size[p][(r - 1) + 1])
      BY <2>1, <3>1
    <3> QED BY <3>1, <3>2, KeptCells
  <2>2. CASE ~(r <= rounds)
    BY <2>2
  <2> QED BY <2>1, <2>2
<1>5. N \cap (Kept(p) \ O) = {}
  <2>1. SUFFICES ASSUME NEW x \in N, x \in Kept(p) PROVE x \in O
    OBVIOUS
  <2>2. x.round = r - 1
    BY DEF Cells
  <2>3. PICK q \in 0..(rounds - 1) : x \in Cells(q, warm[p][q + 1], size[p][q + 1])
    BY <2>1, KeptCells
  <2>4. q = r - 1
    BY <2>2, <2>3 DEF Cells
  <2> QED BY <1>1, <2>3, <2>4
<1>6. IsFiniteSet(N) /\ Cardinality(N) = NewUnits(col[p])
  BY <1>1, CellsCount DEF NewUnits
<1>7. Cardinality(O) = IF r <= rounds THEN OldUnits(p, r) ELSE 0
  <2>1. CASE r <= rounds
    BY <1>2, <2>1, CellsCount DEF OldUnits
  <2>2. CASE ~(r <= rounds)
    BY <2>2, FS_EmptySet
  <2> QED BY <2>1, <2>2
<1>8. total'[p] = total[p] - Cardinality(O) + Cardinality(N)
  <2>1. total'[p] = total[p] - (IF r <= rounds THEN OldUnits(p, r) ELSE 0)
                             + NewUnits(col[p])
    BY DEF Import
  <2> QED BY <1>6, <1>7, <2>1
<1>9. IsFiniteSet(Kept(p)) /\ total[p] = Cardinality(Kept(p))
  BY DEF Counted
<1>10. IsFiniteSet(Kept(p)') /\ total'[p] = Cardinality(Kept(p)')
  <2> HIDE DEF O, N
  <2> QED BY <1>3, <1>4, <1>5, <1>6, <1>8, <1>9, Exchange
<1> QED BY <1>1, <1>10 DEF Counted

Exact == Shape /\ \A p \in PIs : Counted(p)

LEMMA ExactInit == Init => Exact
BY ShapeInit DEF Init, Exact, Counted

LEMMA ExactStep == Regular /\ Exact /\ [Next]_vars => Exact'
<1> SUFFICES ASSUME Regular, Exact, [Next]_vars, NEW p \in PIs
             PROVE  Counted(p)'
  BY ShapeStep DEF Exact
<1>1. CASE SetNumOfPi
  <2>1. /\ ready' = TRUE /\ ~ready /\ rounds = 0 /\ rounds' = 0
        /\ total' = total
    BY <1>1 DEF SetNumOfPi, Regular
  <2>2. Kept(p)' = {}
    BY <2>1 DEF Kept
  <2>3. total'[p] = 0
    BY <2>1 DEF Exact, Counted
  <2> QED BY <2>1, <2>2, <2>3, FS_EmptySet DEF Counted
<1>2. CASE ImportRound
  <2>1. PICK r \in (IF Replacing THEN 1 ELSE rounds + 1)..(rounds + 1),
             hasReadings \in ReadingsGiven,
             col \in [PIs -> [begin : 0..MaxUnits, size : 0..MaxUnits]] :
          /\ \/ \A u \in PIs : col[u] = NoColumn
             \/ \E n \in 0..MaxUnits, method \in Methods, short \in BOOLEAN,
                   data \in [PIs -> IF NullColumns THEN BOOLEAN ELSE {TRUE}] :
                  \A u \in PIs : col[u] \in Column(r, n, data[u], method, short)
          /\ Import(r, hasReadings, col)
    BY <1>2 DEF ImportRound
  <2>2. r \in 1..(rounds + 1) /\ r \in Nat /\ hasReadings \in BOOLEAN
    BY RoundStoreAssumption DEF Exact, Shape, Typed
  <2>3. col \in [PIs -> Columns] /\ \A u \in PIs : col[u].begin <= col[u].size
    BY <2>1, <2>2, ImportedWithin DEF Regular
  <2>4. CASE ready
    BY <2>1, <2>2, <2>3, <2>4, ImportCounts DEF Exact
  <2>5. CASE ~ready
    <3>1. ready' = ready /\ total' = total
      BY <2>1, <2>5 DEF Import
    <3> QED BY <2>5, <3>1 DEF Exact, Counted
  <2> QED BY <2>4, <2>5
<1>3. CASE UNCHANGED vars
  <2>1. UNCHANGED <<ready, rounds, size, warm, total>>
    BY <1>3 DEF vars
  <2>2. Kept(p)' = Kept(p)
    BY <2>1 DEF Kept, WarmAt, SizeAt
  <2> QED BY <2>1, <2>2 DEF Exact, Counted
<1> QED BY <1>1, <1>2, <1>3 DEF Next

LEMMA ExactInductive == ASSUME Regular PROVE Spec => []Exact
<1>1. Regular /\ Exact /\ [Next]_vars => Exact'
  BY ExactStep
<1> QED BY <1>1, ExactInit, PTL DEF Spec

(* The type invariant of the round store; that the totals are natural      *)
(* numbers says that the subtraction of an old round never wraps them.     *)
THEOREM StoreTyping == ASSUME Regular PROVE Spec => []TypeOK
<1>1. Exact => TypeOK
  <2> SUFFICES ASSUME Exact PROVE TypeOK
    OBVIOUS
  <2>1. \A p \in PIs : total[p] \in Nat
    BY FS_CardinalityType DEF Exact, Counted
  <2>2. total \in [PIs -> Nat]
    BY <2>1 DEF Exact, Shape, Typed
  <2> QED BY <2>2 DEF Exact, Shape, Typed, TypeOK
<1> QED BY <1>1, ExactInductive, PTL

(* However rounds are appended and replaced, the running total of unit     *)
(* readings that the import keeps by subtracting the old round and adding  *)
(* the new one is the number of those left outside the warm-ups.           *)
THEOREM TotalsRight == ASSUME Regular PROVE Spec => []TotalsExact
<1>1. Exact => TotalsExact
  BY DEF Exact, Counted, TotalsExact
<1> QED BY <1>1, ExactInductive, PTL
-----------------------------------------------------------------------------
\* Sets of natural numbers have a least element.
LEMMA Least ==
  ASSUME NEW T \in SUBSET Nat, T # {} PROVE \E x \in T : \A y \in T : x <= y
<1> DEFINE R == {x \in Nat \X Nat : x[1] < x[2]}
<1>1. IsWellFoundedOn(R, Nat)
  BY NatLessThanWellFounded DEF OpToRel
<1>2. \E x \in T : \A y \in T : ~(<<y, x>> \in R)
  <2> HIDE DEF R
  <2> QED BY <1>1, WFMin
<1>3. \A x, y \in Nat : ~(<<y, x>> \in R) => x <= y
  OBVIOUS
<1> HIDE DEF R
<1> QED BY <1>2, <1>3

\* The rounds of a PI as the iterator needs them.
Sized(p) ==
  /\ rounds \in Nat
  /\ \A r \in 0..(rounds - 1) :
       SizeAt(p, r) \in Nat /\ WarmAt(p, r) \in Nat /\ WarmAt(p, r) <= SizeAt(p, r)

LEMMA SizedWell == ASSUME Shape, ready, NEW p \in PIs PROVE Sized(p)
<1>1. /\ rounds \in Nat /\ size[p] \in Seq(Nat) /\ warm[p] \in Seq(Nat)
      /\ Len(size[p]) = rounds /\ Len(warm[p]) = rounds /\ Within(p)
  BY DEF Shape, Typed, Entries
<1>2. \A r \in 0..(rounds - 1) : r + 1 \in 1..rounds
  BY <1>1
<1>3. \A r \in 1..rounds :
        size[p][r] \in Nat /\ warm[p][r] \in Nat /\ warm[p][r] <= size[p][r]
  <2>1. \A r \in 1..rounds : size[p][r] \in Nat /\ warm[p][r] \in Nat
    BY <1>1, ElementOfSeq
  <2> QED BY <1>1, <2>1 DEF Within
<1> QED BY <1>1, <1>2, <1>3 DEF Sized, SizeAt, WarmAt

\* Where an iterator can be: at a unit reading that counts, or at the end.
End == [round |-> rounds, unit |-> 0]

Stands(p) == Kept(p) \cup {End}

LEMMA KeptPlaces ==
  ASSUME NEW p, Sized(p)
  PROVE  /\ \A x \in Kept(p) :
              /\ x = [round |-> x.round, unit |-> x.unit]
              /\ x.round \in 0..(rounds - 1) /\ x.unit \in Nat
              /\ WarmAt(p, x.round) <= x.unit /\ x.unit < SizeAt(p, x.round)
         /\ \A r \in 0..(rounds - 1), u \in Nat :
              WarmAt(p, r) <= u /\ u < SizeAt(p, r) => [round |-> r, unit |-> u] \in Kept(p)
<1>1. ASSUME NEW x \in Kept(p)
      PROVE  /\ x = [round |-> x.round, unit |-> x.unit]
             /\ x.round \in 0..(rounds - 1) /\ x.unit \in Nat
             /\ WarmAt(p, x.round) <= x.unit /\ x.unit < SizeAt(p, x.round)
  <2>1. PICK r \in 0..(rounds - 1) :
          \E u \in WarmAt(p, r)..(SizeAt(p, r) - 1) : x = [round |-> r, unit |-> u]
    BY DEF Kept
  <2>2. PICK u \in WarmAt(p, r)..(SizeAt(p, r) - 1) : x = [round |-> r, unit |-> u]
    BY <2>1
  <2>3. SizeAt(p, r) \in Nat /\ WarmAt(p, r) \in Nat
    BY DEF Sized
  <2>4. u \in Nat /\ WarmAt(p, r) <= u /\ u < SizeAt(p, r)
    BY <2>3
  <2> QED BY <2>2, <2>4
<1>2. ASSUME NEW r \in 0..(rounds - 1), NEW u \in Nat, WarmAt(p, r) <= u, u < SizeAt(p, r)
      PROVE  [round |-> r, unit |-> u] \in Kept(p)
  <2>1. SizeAt(p, r) \in Nat /\ WarmAt(p, r) \in Nat
    BY DEF Sized
  <2>2. u \in WarmAt(p, r)..(SizeAt(p, r) - 1)
    BY <1>2, <2>1
  <2> QED BY <2>2 DEF Kept
<1> QED BY <1>1, <1>2

\* The search for a round with stable readings leaves none behind.
LEMMA LandsRight ==
  ASSUME NEW p, Sized(p), NEW r \in 0..rounds
  PROVE  /\ Land(p, r) \in Stands(p) /\ Land(p, r).round >= r
         /\ \A y \in Kept(p) : y.round >= r => ~Before(y, Land(p, r))
<1> DEFINE full == {q \in r..(rounds - 1) : SizeAt(p, q) # WarmAt(p, q)} \cup {rounds}
           next == Min(full)
<1>1. rounds \in Nat /\ r \in Nat /\ r <= rounds
  BY DEF Sized
<1>2. full \in SUBSET Nat /\ full # {}
  BY <1>1
<1>3. next \in full /\ \A q \in full : next <= q
  <2> HIDE DEF full
  <2> QED BY <1>2, Least DEF Min
<1>4. next \in Nat /\ next >= r /\ next <= rounds
      /\ (next < rounds => SizeAt(p, next) # WarmAt(p, next))
  <2> HIDE DEF next
  <2> QED BY <1>1, <1>3
<1>5. \A q \in r..(rounds - 1) : SizeAt(p, q) # WarmAt(p, q) => next <= q
  <2> HIDE DEF next
  <2> QED BY <1>3
<1>6. Land(p, r) = [round |-> next, unit |-> IF next < rounds THEN WarmAt(p, next) ELSE 0]
  BY DEF Land
<1> HIDE DEF next, full
<1>7. CASE next < rounds
  <2>1. next \in 0..(rounds - 1)
    BY <1>1, <1>4, <1>7
  <2>2. /\ WarmAt(p, next) \in Nat /\ SizeAt(p, next) \in Nat
        /\ WarmAt(p, next) < SizeAt(p, next)
    BY <1>4, <1>7, <2>1 DEF Sized
  <2>3. Land(p, r) = [round |-> next, unit |-> WarmAt(p, next)]
    BY <1>6, <1>7
  <2>4. Land(p, r) \in Kept(p)
    BY <2>1, <2>2, <2>3, KeptPlaces
  <2>5. ASSUME NEW y \in Kept(p), y.round >= r PROVE ~Before(y, Land(p, r))
    <3>1. /\ y.round \in 0..(rounds - 1) /\ y.unit \in Nat
          /\ WarmAt(p, y.round) <= y.unit /\ y.unit < SizeAt(p, y.round)
      BY KeptPlaces
    <3>2. SizeAt(p, y.round) # WarmAt(p, y.round)
      BY <3>1 DEF Sized
    <3>3. next <= y.round
      BY <1>1, <1>5, <2>5, <3>1, <3>2
    <3> QED BY <1>4, <2>2, <2>3, <3>1, <3>3 DEF Before
  <2> QED BY <1>4, <2>3, <2>4, <2>5 DEF Stands
<1>8. CASE next = rounds
  <2>1. Land(p, r) = End
    BY <1>1, <1>6, <1>8 DEF End
  <2>2. ASSUME NEW y \in Kept(p), y.round >= r PROVE FALSE
    <3>1. /\ y.round \in 0..(rounds - 1) /\ y.unit \in Nat
          /\ WarmAt(p, y.round) <= y.unit /\ y.unit < SizeAt(p, y.round)
      BY KeptPlaces
    <3>2. SizeAt(p, y.round) # WarmAt(p, y.round)
      BY <3>1 DEF Sized
    <3> QED BY <1>1, <1>5, <1>8, <2>2, <3>1, <3>2
  <2> QED BY <1>1, <2>1, <2>2 DEF Stands, End
<1> QED BY <1>1, <1>4, <1>7, <1>8

\* The constructor finds the first unit reading that counts.
LEMMA FirstRight ==
  ASSUME NEW p, Sized(p)
  PROVE  /\ IterNew(p) \in Stands(p)
         /\ \A y \in Kept(p) : ~Before(y, IterNew(p))
<1> DEFINE first == [round |-> 0, unit |-> 0]
           s == SizeAt(p, 0)
           w == WarmAt(p, 0)
<1>1. rounds \in Nat
  BY DEF Sized
<1>2. CASE rounds = 0
  <2>1. IterNew(p) = End
    BY <1>2 DEF IterNew, IterValid, IterNext, End
  <2>2. \A y : y \notin Kept(p)
    BY <1>2, KeptPlaces
  <2> QED BY <2>1, <2>2 DEF Stands
<1>3. CASE rounds # 0
  <2>1. 0 \in 0..(rounds - 1) /\ 0 < rounds /\ ~(0 >= rounds)
    BY <1>1, <1>3
  <2>2. s \in Nat /\ w \in Nat /\ w <= s
    BY <2>1 DEF Sized
  <2>3. IterValid(p, first) <=> 0 < s /\ 0 >= w
    BY <2>1 DEF IterValid
  <2>4. IterNext(p, first) =
          IF s = w THEN Land(p, 0)
          ELSE IF 0 < w THEN [round |-> 0, unit |-> w]
          ELSE IF 0 # s - 1 THEN [round |-> 0, unit |-> 1] ELSE Land(p, 1)
    BY <2>1 DEF IterNext
  <2>5. IterNew(p) = IF IterValid(p, first) THEN first ELSE IterNext(p, first)
    BY DEF IterNew
  <2> HIDE DEF first, s, w
  <2>6. CASE s = w
    <3>1. IterNew(p) = Land(p, 0)
      BY <2>2, <2>3, <2>4, <2>5, <2>6
    <3>2. \A y \in Kept(p) : y.round >= 0
      BY KeptPlaces, <1>1
    <3> QED BY <1>1, <3>1, <3>2, LandsRight
  <2>7. CASE s # w
    <3>1. IterNew(p) = [round |-> 0, unit |-> w]
      BY <2>2, <2>3, <2>4, <2>5, <2>7 DEF first
    <3>2. IterNew(p) \in Kept(p)
      BY <2>1, <2>2, <2>7, <3>1, KeptPlaces DEF s, w
    <3>3. ASSUME NEW y \in Kept(p), Before(y, IterNew(p)) PROVE FALSE
      <4>1. y.round \in Nat /\ WarmAt(p, y.round) <= y.unit
        BY KeptPlaces, <1>1
      <4>2. y.round < 0 \/ (y.round = 0 /\ y.unit < w)
        BY <3>1, <3>3 DEF Before
      <4> QED BY <2>2, <4>1, <4>2, KeptPlaces DEF w
    <3> QED BY <3>2, <3>3 DEF Stands
  <2> QED BY <2>6, <2>7
<1> QED BY <1>2, <1>3

\* operator++ goes on to the next one.
LEMMA NextRight ==
  ASSUME NEW p, Sized(p), NEW x \in Kept(p)
  PROVE  /\ IterNext(p, x) \in Stands(p) /\ Before(x, IterNext(p, x))
         /\ \A y \in Kept(p) : ~(Before(x, y) /\ Before(y, IterNext(p, x)))
<1> DEFINE r == x.round
           s == SizeAt(p, r)
           w == WarmAt(p, r)
<1>1. /\ x = [round |-> r, unit |-> x.unit] /\ r \in 0..(rounds - 1) /\ x.unit \in Nat
      /\ w <= x.unit /\ x.unit < s
  BY KeptPlaces
<1>2. rounds \in Nat /\ s \in Nat /\ w \in Nat /\ s # w /\ ~(x.unit < w) /\ ~(r >= rounds)
  BY <1>1 DEF Sized
<1>3. IterNext(p, x) = IF x.unit # s - 1 THEN [x EXCEPT !.unit = @ + 1] ELSE Land(p, r + 1)
  BY <1>2 DEF IterNext
<1>4. ASSUME NEW y \in Kept(p)
      PROVE  y.round \in 0..(rounds - 1) /\ y.unit \in Nat /\ y.unit < SizeAt(p, y.round)
  BY KeptPlaces
<1> HIDE DEF s, w
<1>5. CASE x.unit # s - 1
  <2>1. IterNext(p, x) = [round |-> r, unit |-> x.unit + 1]
    BY <1>1, <1>3, <1>5
  <2>2. IterNext(p, x) \in Kept(p)
    BY <1>1, <1>2, <1>5, <2>1, KeptPlaces DEF s, w
  <2> HIDE DEF r
  <2>3. Before(x, IterNext(p, x))
    BY <1>1, <1>2, <2>1 DEF Before
  <2>4. \A y \in Kept(p) : ~(Before(x, y) /\ Before(y, IterNext(p, x)))
    BY <1>1, <1>2, <1>4, <2>1 DEF Before
  <2> QED BY <2>2, <2>3, <2>4 DEF Stands
<1>6. CASE x.unit = s - 1
  <2>1. IterNext(p, x) = Land(p, r + 1) /\ r + 1 \in 0..rounds
    BY <1>1, <1>2, <1>3, <1>6
  <2>2. /\ Land(p, r + 1) \in Stands(p) /\ Land(p, r + 1).round >= r + 1
        /\ \A y \in Kept(p) : y.round >= r + 1 => ~Before(y, Land(p, r + 1))
    BY <2>1, LandsRight
  <2>3. Land(p, r + 1).round \in Nat
    <3>1. CASE Land(p, r + 1) \in Kept(p)
      BY <1>2, <1>4, <3>1
    <3>2. CASE Land(p, r + 1) = End
      BY <1>2, <3>2 DEF End
    <3> QED BY <2>2, <3>1, <3>2 DEF Stands
  <2>4. Before(x, Land(p, r + 1))
    BY <1>1, <1>2, <2>2, <2>3 DEF Before
  <2>5. ASSUME NEW y \in Kept(p), Before(x, y) PROVE y.round >= r + 1
    <3>1. r < y.round \/ (r = y.round /\ x.unit < y.unit)
      BY <2>5 DEF Before
    <3>2. CASE r = y.round /\ x.unit < y.unit
      <4>1. y.unit < s /\ y.unit \in Nat
        BY <1>4, <3>2 DEF s
      <4> QED BY <1>1, <1>2, <1>6, <3>2, <4>1
    <3>3. CASE r < y.round
      <4>1. y.round \in Nat /\ r \in Nat
        BY <1>1, <1>2, <1>4
      <4> QED BY <3>3, <4>1
    <3> QED BY <3>1, <3>2, <3>3
  <2> QED BY <2>1, <2>2, <2>4, <2>5
<1> QED BY <1>5, <1>6

\* How many unit readings that count come before x.
Below(p, x) == {y \in Kept(p) : Before(y, x)}
Rank(p, x) == Cardinality(Below(p, x))

Walkable(p) ==
  /\ Sized(p) /\ IsFiniteSet(Kept(p)) /\ total[p] = Cardinality(Kept(p))

\* The places are ordered, the end being the last.
LEMMA PlacesOrdered ==
  ASSUME NEW p, Sized(p)
  PROVE  /\ \A x \in Stands(p) : x.round \in Nat /\ x.unit \in Nat
         /\ \A x, y \in Stands(p) : x = y \/ Before(x, y) \/ Before(y, x)
         /\ \A x, y \in Stands(p) : Before(x, y) => ~Before(y, x) /\ x # y
         /\ \A x, y, z \in Stands(p) : Before(x, y) /\ Before(y, z) => Before(x, z)
         /\ \A x \in Kept(p) : Before(x, End)
<1>1. rounds \in Nat
  BY DEF Sized
<1>2. \A x \in Stands(p) : /\ x = [round |-> x.round, unit |-> x.unit]
                           /\ x.round \in Nat /\ x.unit \in Nat
  BY <1>1, KeptPlaces DEF Stands, End
<1>3. \A x, y \in Stands(p) : x.round = y.round /\ x.unit = y.unit => x = y
  BY <1>2
<1>4. \A x \in Kept(p) : x.round < rounds
  BY <1>1, KeptPlaces
<1> QED BY <1>1, <1>2, <1>3, <1>4 DEF Before, End

LEMMA RankNumber ==
  ASSUME NEW p, Walkable(p), NEW x
  PROVE  IsFiniteSet(Below(p, x)) /\ Rank(p, x) \in 0..total[p] /\ total[p] \in Nat
<1>1. Below(p, x) \in SUBSET Kept(p) /\ IsFiniteSet(Kept(p))
  BY DEF Below, Walkable
<1>2. IsFiniteSet(Below(p, x)) /\ Rank(p, x) <= total[p]
  BY <1>1, FS_Subset DEF Rank, Walkable
<1>3. Rank(p, x) \in Nat /\ total[p] \in Nat
  BY <1>1, <1>2, FS_CardinalityType DEF Rank, Walkable
<1> QED BY <1>2, <1>3

\* A later place has more before it, and the end has all.
LEMMA RankGrows ==
  ASSUME NEW p, Walkable(p), NEW x \in Kept(p), NEW y \in Stands(p), Before(x, y)
  PROVE  Rank(p, x) < Rank(p, y)
<1>1. Sized(p) /\ x \in Stands(p)
  BY DEF Walkable, Stands
<1>2. Below(p, x) \in SUBSET Below(p, y)
  BY <1>1, PlacesOrdered DEF Below, Stands
<1>3. x \in Below(p, y) /\ x \notin Below(p, x)
  BY <1>1, PlacesOrdered DEF Below
<1>4. IsFiniteSet(Below(p, y)) /\ Rank(p, x) \in Nat /\ Rank(p, y) \in Nat
  BY RankNumber
<1>5. Rank(p, x) <= Rank(p, y) /\ Rank(p, x) # Rank(p, y)
  BY <1>2, <1>3, <1>4, FS_Subset DEF Rank
<1> QED BY <1>4, <1>5

LEMMA EndRank ==
  ASSUME NEW p, Walkable(p)
  PROVE  /\ Rank(p, End) = total[p]
         /\ \A x \in Kept(p) : Rank(p, x) < total[p]
<1>1. Sized(p) /\ End \in Stands(p)
  BY DEF Walkable, Stands
<1>2. Below(p, End) = Kept(p)
  BY <1>1, PlacesOrdered DEF Below
<1>3. Rank(p, End) = total[p]
  BY <1>2 DEF Rank, Walkable
<1> QED BY <1>1, <1>3, RankGrows, PlacesOrdered

\* No two places have the same number.
LEMMA RankTells ==
  ASSUME NEW p, Walkable(p), NEW x \in Stands(p), NEW y \in Stands(p),
         Rank(p, x) = Rank(p, y)
  PROVE  x = y
<1>1. Sized(p)
  BY DEF Walkable
<1>2. Rank(p, x) \in Nat /\ Rank(p, y) \in Nat
  BY RankNumber
<1>3. x = y \/ Before(x, y) \/ Before(y, x)
  BY <1>1, PlacesOrdered
<1>4. CASE Before(x, y)
  <2>1. x \in Kept(p)
    BY <1>1, <1>4, PlacesOrdered DEF Stands
  <2> QED BY <1>2, <1>4, <2>1, RankGrows
<1>5. CASE Before(y, x)
  <2>1. y \in Kept(p)
    BY <1>1, <1>5, PlacesOrdered DEF Stands
  <2> QED BY <1>2, <1>5, <2>1, RankGrows
<1> QED BY <1>3, <1>4, <1>5

LEMMA FirstRank ==
  ASSUME NEW p, Walkable(p) PROVE Rank(p, IterNew(p)) = 0
<1>1. Below(p, IterNew(p)) = {}
  BY FirstRight DEF Below, Walkable
<1> QED BY <1>1, FS_EmptySet DEF Rank

LEMMA NextRank ==
  ASSUME NEW p, Walkable(p), NEW x \in Kept(p)
  PROVE  Rank(p, IterNext(p, x)) = Rank(p, x) + 1
<1>1. Sized(p) /\ x \in Stands(p)
  BY DEF Walkable, Stands
<1>2. PICK z \in Stands(p) : z = IterNext(p, x)
  BY <1>1, NextRight
<1>3. Before(x, z) /\ \A y \in Kept(p) : ~(Before(x, y) /\ Before(y, z))
  BY <1>1, <1>2, NextRight
<1>4. \A y \in Kept(p) : Before(y, z) <=> Before(y, x) \/ y = x
  BY <1>1, <1>3, PlacesOrdered DEF Stands
<1>5. Below(p, z) = Below(p, x) \cup {x} /\ x \notin Below(p, x)
  BY <1>1, <1>4, PlacesOrdered DEF Below
<1>6. Rank(p, z) = Rank(p, x) + 1
  BY <1>5, RankNumber, FS_AddElement DEF Rank
<1> QED BY <1>2, <1>6

\* What Walk is defined to be.
IsWalk(p, w) ==
  w = [k \in 0..total[p] |-> IF k = 0 THEN IterNew(p) ELSE IterNext(p, w[k - 1])]

\* After k steps k unit readings lie behind.
LEMMA WalkRanks ==
  ASSUME NEW p, Walkable(p), NEW w, IsWalk(p, w)
  PROVE  \A k \in 0..total[p] : w[k] \in Stands(p) /\ Rank(p, w[k]) = k
<1> DEFINE Good(k) == w[k] \in Stands(p) /\ Rank(p, w[k]) = k
           bad == {k \in 0..total[p] : ~Good(k)}
<1>1. total[p] \in Nat /\ Sized(p)
  BY RankNumber DEF Walkable
<1>2. SUFFICES ASSUME bad # {} PROVE FALSE
  OBVIOUS
<1>3. PICK k \in bad : \A l \in bad : k <= l
  <2>1. bad \in SUBSET Nat
    BY <1>1
  <2> HIDE DEF bad
  <2> QED BY <1>2, <2>1, Least
<1>4. k \in 0..total[p] /\ ~Good(k) /\ k \in Nat
  BY <1>1
<1>5. \A l \in 0..total[p] : l < k => Good(l)
  BY <1>1, <1>3, <1>4
<1> HIDE DEF bad
<1>6. CASE k = 0
  <2>1. w[k] = IterNew(p)
    BY <1>4, <1>6 DEF IsWalk
  <2> QED BY <1>1, <1>4, <1>6, <2>1, FirstRank, FirstRight
<1>7. CASE k # 0
  <2>1. k - 1 \in 0..total[p] /\ k - 1 < k /\ k - 1 < total[p]
    BY <1>1, <1>4, <1>7
  <2>2. PICK x : x = w[k - 1]
    OBVIOUS
  <2>3. x \in Stands(p) /\ Rank(p, x) = k - 1
    BY <1>5, <2>1, <2>2
  <2>4. x \in Kept(p)
    BY <1>1, <2>1, <2>3, EndRank DEF Stands
  <2>5. w[k] = IterNext(p, x)
    BY <1>4, <1>7, <2>2 DEF IsWalk
  <2>6. w[k] \in Stands(p) /\ Rank(p, w[k]) = (k - 1) + 1
    BY <1>1, <2>3, <2>4, <2>5, NextRight, NextRank
  <2> QED BY <1>4, <2>6
<1> QED BY <1>6, <1>7

\* There is a unit reading, or the end, for each number of steps.
LEMMA RankReached ==
  ASSUME NEW p, Walkable(p)
  PROVE  \A k \in 0..total[p] : \E x \in Stands(p) : Rank(p, x) = k
<1> DEFINE bad == {k \in 0..total[p] : ~\E x \in Stands(p) : Rank(p, x) = k}
<1>1. total[p] \in Nat /\ Sized(p)
  BY RankNumber DEF Walkable
<1>2. SUFFICES ASSUME bad # {} PROVE FALSE
  OBVIOUS
<1>3. PICK k \in bad : \A l \in bad : k <= l
  <2>1. bad \in SUBSET Nat
    BY <1>1
  <2> HIDE DEF bad
  <2> QED BY <1>2, <2>1, Least
<1>4. k \in 0..total[p] /\ k \in Nat /\ ~\E x \in Stands(p) : Rank(p, x) = k
  BY <1>1
<1>5. \A l \in 0..total[p] : l < k => \E x \in Stands(p) : Rank(p, x) = l
  BY <1>1, <1>3, <1>4
<1> HIDE DEF bad
<1>6. k # 0
  BY <1>1, <1>4, FirstRank, FirstRight
<1>7. k - 1 \in 0..total[p] /\ k - 1 < k /\ k - 1 < total[p]
  BY <1>1, <1>4, <1>6
<1>8. PICK x \in Stands(p) : Rank(p, x) = k - 1
  BY <1>5, <1>7
<1>9. x \in Kept(p)
  BY <1>1, <1>7, <1>8, EndRank DEF Stands
<1>10. IterNext(p, x) \in Stands(p) /\ Rank(p, IterNext(p, x)) = (k - 1) + 1
  BY <1>1, <1>8, <1>9, NextRight, NextRank
<1> QED BY <1>4, <1>10

LEMMA WalkThere == ASSUME NEW p, Walkable(p) PROVE IsWalk(p, Walk(p))
<1> DEFINE w == [k \in 0..total[p] |-> CHOOSE x \in Stands(p) : Rank(p, x) = k]
<1>1. total[p] \in Nat /\ Sized(p)
  BY RankNumber DEF Walkable
<1>2. \A k \in 0..total[p] : w[k] \in Stands(p) /\ Rank(p, w[k]) = k
  BY RankReached
<1>3. \A k \in 0..total[p] :
        w[k] = IF k = 0 THEN IterNew(p) ELSE IterNext(p, w[k - 1])
  <2> SUFFICES ASSUME NEW k \in 0..total[p]
               PROVE  w[k] = IF k = 0 THEN IterNew(p) ELSE IterNext(p, w[k - 1])
    OBVIOUS
  <2> HIDE DEF w
  <2>1. CASE k = 0
    BY <1>1, <1>2, <2>1, FirstRank, FirstRight, RankTells
  <2>2. CASE k # 0
    <3>1. k - 1 \in 0..total[p] /\ k - 1 < total[p] /\ (k - 1) + 1 = k
      BY <1>1, <2>2
    <3>2. w[k - 1] \in Kept(p)
      BY <1>1, <1>2, <3>1, EndRank DEF Stands
    <3>3. IterNext(p, w[k - 1]) \in Stands(p) /\ Rank(p, IterNext(p, w[k - 1])) = k
      BY <1>1, <1>2, <3>1, <3>2, NextRight, NextRank
    <3> QED BY <1>2, <2>2, <3>3, RankTells
  <2> QED BY <2>1, <2>2
<1>4. IsWalk(p, w)
  <2>1. w = [k \in 0..total[p] |-> w[k]]
    OBVIOUS
  <2> HIDE DEF w
  <2> QED BY <1>3, <2>1 DEF IsWalk
<1>5. \E v : IsWalk(p, v)
  BY <1>4
<1> QED BY <1>5 DEF Walk, IsWalk

(* However rounds are appended and replaced, the iterator visits every     *)
(* unit reading outside the warm-ups once and in order, and is at its end  *)
(* after as many steps as the running total of the PI says.                *)
THEOREM IteratorRight == ASSUME Regular PROVE Spec => []IteratorExact
<1>1. Exact => IteratorExact
  <2> SUFFICES ASSUME Exact, ready, NEW p \in PIs
               PROVE  /\ {Walk(p)[k] : k \in 0..(total[p] - 1)} = Kept(p)
                      /\ \A k \in 1..total[p] : Before(Walk(p)[k - 1], Walk(p)[k])
                      /\ ~IterValid(p, Walk(p)[total[p]])
    BY DEF IteratorExact
  <2>1. Walkable(p) /\ Sized(p)
    BY SizedWell DEF Exact, Counted, Walkable
  <2>2. PICK w : w = Walk(p)
    OBVIOUS
  <2>3. \A k \in 0..total[p] : w[k] \in Stands(p) /\ Rank(p, w[k]) = k
    BY <2>1, <2>2, WalkThere, WalkRanks
  <2>4. total[p] \in Nat
    BY <2>1, RankNumber
  <2>5. \A k \in 0..(total[p] - 1) : w[k] \in Kept(p)
    BY <2>1, <2>3, <2>4, EndRank DEF Stands
  <2>6. ASSUME NEW x \in Kept(p) PROVE \E k \in 0..(total[p] - 1) : x = w[k]
    <3>1. Rank(p, x) \in 0..(total[p] - 1)
      BY <2>1, <2>4, RankNumber, EndRank
    <3>2. PICK k \in 0..(total[p] - 1) : Rank(p, x) = k
      BY <3>1
    <3>3. w[k] \in Stands(p) /\ Rank(p, w[k]) = k /\ x \in Stands(p)
      BY <2>3, <2>4 DEF Stands
    <3> QED BY <2>1, <3>2, <3>3, RankTells
  <2>7. {w[k] : k \in 0..(total[p] - 1)} = Kept(p)
    BY <2>5, <2>6
  <2>8. ASSUME NEW k \in 1..total[p] PROVE Before(w[k - 1], w[k])
    <3>1. k - 1 \in 0..(total[p] - 1) /\ k \in 0..total[p] /\ k - 1 \in 0..total[p]
      BY <2>4
    <3>2. w[k] = IterNext(p, w[k - 1])
      <4>1. IsWalk(p, w)
        BY <2>1, <2>2, WalkThere
      <4> QED BY <2>4, <3>1, <4>1 DEF IsWalk
    <3> QED BY <2>1, <2>5, <3>1, <3>2, NextRight
  <2>9. w[total[p]] = End
    <3>1. w[total[p]] \in Stands(p) /\ Rank(p, w[total[p]]) = total[p]
      BY <2>3, <2>4
    <3> QED BY <2>1, <2>4, <3>1, EndRank DEF Stands
  <2>10. ~IterValid(p, w[total[p]])
    BY <2>1, <2>9 DEF IterValid, End, Sized
  <2> QED BY <2>2, <2>7, <2>8, <2>10
<1> QED BY <1>1, ExactInductive, PTL
-----------------------------------------------------------------------------
\* Every round brings readings.
AlwaysReadings == FALSE \notin ReadingsGiven

ReadingsFull(p) ==
  IF ready THEN /\ Len(reading[p]) = rounds
                /\ \A q \in 1..rounds : reading[p][q] = given[q]
           ELSE Len(reading[p]) = 0

Tame == Shape /\ ~wild /\ \A p \in PIs : ReadingsFull(p)

LEMMA TameInit == Init => Tame
BY ShapeInit, EmptySeq DEF Init, Tame, ReadingsFull

LEMMA ImportTame ==
  ASSUME NEW r \in 1..(rounds + 1), NEW col \in [PIs -> Columns],
         \A p \in PIs : col[p].begin <= col[p].size,
         Tame, Import(r, TRUE, col)
  PROVE  Tame'
<1>1. Shape /\ rounds \in Nat /\ imports \in Nat /\ given \in Seq(Nat) /\ Len(given) = rounds
  BY DEF Tame, Shape, Typed
<1>2. Shape'
  BY <1>1, ImportShape
<1>3. /\ imports' = imports + 1 /\ ready' = ready
      /\ rounds' = IF r > rounds THEN rounds + 1 ELSE rounds
      /\ given' = IF r > rounds THEN Append(given, imports') ELSE [given EXCEPT ![r] = imports']
  BY DEF Import
<1>4. CASE ~ready
  <2>1. UNCHANGED <<reading, wild>>
    BY <1>4 DEF Import
  <2> QED BY <1>2, <1>3, <1>4, <2>1 DEF Tame, ReadingsFull
<1>5. CASE ready
  <2>1. \A p \in PIs : /\ Len(size[p]) = rounds /\ Len(reading[p]) = rounds
                       /\ size[p] \in Seq(Nat) /\ reading[p] \in Seq(Nat)
    BY <1>5 DEF Tame, Shape, Typed, Entries, ReadingsFull
  <2>2. ~wild'
    <3>1. \A p \in PIs : DOMAIN size[p] = 1..rounds /\ DOMAIN reading[p] = 1..rounds
      BY <2>1, LenProperties
    <3>2. wild' = (wild \/ \E p \in PIs :
                     \/ r > rounds /\ Len(size[p]) # rounds
                     \/ r <= rounds /\ r \notin DOMAIN size[p]
                     \/ r <= rounds /\ TRUE /\ r \notin DOMAIN reading[p])
      BY <1>5 DEF Import
    <3>3. r <= rounds => r \in 1..rounds
      BY <1>1
    <3> QED BY <2>1, <3>1, <3>2, <3>3 DEF Tame
  <2>3. ASSUME NEW p \in PIs PROVE ReadingsFull(p)'
    <3>1. reading'[p] = Store(reading[p], r, imports')
      BY <1>5 DEF Import
    <3>2. imports' \in Nat
      BY <1>1, <1>3
    <3>3. /\ Len(reading'[p]) = rounds' /\ reading'[p][r] = imports'
          /\ \A q \in 1..rounds : q # r => reading'[p][q] = reading[p][q]
      <4>1. reading[p] \in Seq(Nat) /\ Len(reading[p]) = rounds
        BY <2>1
      <4>2. LET s == Store(reading[p], r, imports')
            IN  /\ Len(s) = IF r > rounds THEN rounds + 1 ELSE rounds
                /\ s[r] = imports'
                /\ \A q \in 1..rounds : q # r => s[q] = reading[p][q]
        BY <1>1, <3>2, <4>1, StoreValue
      <4> QED BY <1>3, <3>1, <4>2
    <3>4. given'[r] = imports' /\ \A q \in 1..rounds : q # r => given'[q] = given[q]
      <4>1. CASE r > rounds
        BY <1>1, <1>3, <3>2, <4>1
      <4>2. CASE r <= rounds
        <5>1. r \in 1..Len(given)
          BY <1>1, <4>2
        <5> QED BY <1>1, <1>3, <3>2, <4>2, <5>1, ExceptSeq
      <4> QED BY <1>1, <4>1, <4>2
    <3>5. \A q \in 1..rounds : reading[p][q] = given[q]
      BY <1>5 DEF Tame, ReadingsFull
    <3>6. \A q \in 1..rounds' : q = r \/ q \in 1..rounds
      BY <1>1, <1>3
    <3>7. \A q \in 1..rounds' : reading'[p][q] = given'[q]
      BY <3>3, <3>4, <3>5, <3>6
    <3> QED BY <1>3, <1>5, <3>3, <3>7 DEF ReadingsFull
  <2> QED BY <1>2, <2>2, <2>3 DEF Tame
<1> QED BY <1>4, <1>5

LEMMA TameStep == Regular /\ AlwaysReadings /\ Tame /\ [Next]_vars => Tame'
<1> SUFFICES ASSUME Regular, AlwaysReadings, Tame, [Next]_vars PROVE Tame'
  OBVIOUS
<1>1. CASE SetNumOfPi
  <2>1. /\ ready' = TRUE /\ ~ready /\ rounds = 0
        /\ UNCHANGED <<rounds, reading, given, wild>>
    BY <1>1 DEF SetNumOfPi, Regular
  <2> QED BY <2>1, ShapeStep DEF Tame, ReadingsFull
<1>2. CASE ImportRound
  <2>1. PICK r \in (IF Replacing THEN 1 ELSE rounds + 1)..(rounds + 1),
             hasReadings \in ReadingsGiven,
             col \in [PIs -> [begin : 0..MaxUnits, size : 0..MaxUnits]] :
          /\ \/ \A u \in PIs : col[u] = NoColumn
             \/ \E n \in 0..MaxUnits, method \in Methods, short \in BOOLEAN,
                   data \in [PIs -> IF NullColumns THEN BOOLEAN ELSE {TRUE}] :
                  \A u \in PIs : col[u] \in Column(r, n, data[u], method, short)
          /\ Import(r, hasReadings, col)
    BY <1>2 DEF ImportRound
  <2>2. r \in 1..(rounds + 1) /\ r \in Nat
    BY DEF Tame, Shape, Typed
  <2>3. hasReadings = TRUE
    BY RoundStoreAssumption DEF AlwaysReadings
  <2>4. col \in [PIs -> Columns] /\ \A u \in PIs : col[u].begin <= col[u].size
    BY <2>1, <2>2, ImportedWithin DEF Regular
  <2> QED BY <2>1, <2>2, <2>3, <2>4, ImportTame
<1>3. CASE UNCHANGED vars
  <2>1. UNCHANGED <<ready, rounds, reading, given, wild>>
    BY <1>3 DEF vars
  <2> QED BY <1>3, <2>1, ShapeStep DEF Tame, ReadingsFull
<1> QED BY <1>1, <1>2, <1>3 DEF Next

LEMMA TameInductive ==
  ASSUME Regular, AlwaysReadings PROVE Spec => []Tame
<1>1. Regular /\ AlwaysReadings /\ Tame /\ [Next]_vars => Tame'
  BY TameStep
<1> QED BY <1>1, TameInit, PTL DEF Spec

(* When every round brings readings, no import writes or reads past the    *)
(* end of a vector, whichever rounds are replaced.                         *)
THEOREM StaysInside ==
  ASSUME Regular, AlwaysReadings PROVE Spec => []NoWildAccess
<1>1. Tame => NoWildAccess
  BY DEF Tame, NoWildAccess
<1> QED BY <1>1, TameInductive, PTL

(* And the readings of a PI are indexed by round: each is the one its      *)
(* round's last import gave.                                               *)
THEOREM ReadingsInPlace ==
  ASSUME Regular, AlwaysReadings PROVE Spec => []ReadingsAligned
<1>1. Tame => ReadingsAligned
  <2> SUFFICES ASSUME Tame, ready, NEW p \in PIs, NEW q \in 1..rounds
               PROVE  q \in DOMAIN reading[p] /\ reading[p][q] = given[q]
    BY DEF ReadingsAligned
  <2>1. reading[p] \in Seq(Nat) /\ Len(reading[p]) = rounds
        /\ reading[p][q] = given[q]
    BY DEF Tame, Shape, Typed, ReadingsFull
  <2> QED BY <2>1, LenProperties
<1> QED BY <1>1, TameInductive, PTL
-----------------------------------------------------------------------------
\* The rounds without any data.
Empty == {q \in 1..rounds : given[q] = 0 /\ \A p \in PIs : size[p][q] <= warm[p][q]}

Tallied == IF ready THEN IsFiniteSet(Empty) /\ rejected = Cardinality(Empty)
                    ELSE rejected = 0

\* What readings are given by an import.
LEMMA GivenStored ==
  ASSUME NEW r \in 1..(rounds + 1), NEW hasReadings \in BOOLEAN,
         NEW col \in [PIs -> Columns], Shape, Import(r, hasReadings, col)
  PROVE  /\ given'[r] = 0 <=> ~hasReadings
         /\ \A q \in 1..rounds : q # r => given'[q] = given[q]
         /\ rounds' = IF r > rounds THEN rounds + 1 ELSE rounds
<1> DEFINE g == IF hasReadings THEN imports' ELSE 0
<1>1. given \in Seq(Nat) /\ Len(given) = rounds /\ rounds \in Nat /\ imports \in Nat
  BY DEF Shape, Typed
<1>2. imports' = imports + 1 /\ rounds' = IF r > rounds THEN rounds + 1 ELSE rounds
  BY DEF Import
<1>3. g \in Nat /\ (g = 0 <=> ~hasReadings)
  BY <1>1, <1>2
<1>4. given' = IF r > rounds THEN Append(given, g) ELSE [given EXCEPT ![r] = g]
  BY DEF Import
<1> HIDE DEF g
<1>5. given'[r] = g /\ \A q \in 1..rounds : q # r => given'[q] = given[q]
  <2>1. CASE r > rounds
    BY <1>1, <1>3, <1>4, <2>1
  <2>2. CASE r <= rounds
    <3>1. r \in 1..Len(given)
      BY <1>1, <2>2
    <3> QED BY <1>1, <1>3, <1>4, <2>2, <3>1, ExceptSeq
  <2> QED BY <1>1, <2>1, <2>2
<1> QED BY <1>2, <1>3, <1>5

\* An import of a new round, or one that brings readings again, counts the
\* round exactly if it is without data.
LEMMA ImportTallies ==
  ASSUME NEW r \in 1..(rounds + 1), NEW hasReadings \in BOOLEAN,
         NEW col \in [PIs -> Columns],
         Shape, Tallied, Import(r, hasReadings, col), ready,
         r \notin Empty, r > rounds \/ hasReadings
  PROVE  Tallied'
<1> DEFINE none == ~hasReadings /\ \A p \in PIs : NewUnits(col[p]) = 0
<1>1. /\ ready' = ready
      /\ rejected' = IF none THEN rejected + 1 ELSE rejected
  BY DEF Import
<1>2. /\ given'[r] = 0 <=> ~hasReadings
      /\ \A q \in 1..rounds : q # r => given'[q] = given[q]
      /\ rounds' = IF r > rounds THEN rounds + 1 ELSE rounds
      /\ rounds \in Nat
  BY GivenStored DEF Shape, Typed
<1>3. \A p \in PIs : /\ size'[p][r] = col[p].size /\ warm'[p][r] = col[p].begin
                     /\ \A q \in 1..rounds : q # r => size'[p][q] = size[p][q]
                                                      /\ warm'[p][q] = warm[p][q]
  BY ColumnStored
<1>4. \A p \in PIs : NewUnits(col[p]) = 0 <=> size'[p][r] <= warm'[p][r]
  BY <1>3 DEF NewUnits, Columns
<1>5. r \in 1..rounds' /\ \A q : q \in 1..rounds' <=> q \in 1..rounds \/ q = r
  BY <1>2
<1>6. r \in Empty' <=> none
  BY <1>2, <1>4, <1>5 DEF Empty
<1>7. \A q : q # r => (q \in Empty' <=> q \in Empty)
  <2> SUFFICES ASSUME NEW q, q # r PROVE q \in Empty' <=> q \in Empty
    OBVIOUS
  <2>1. q \in Empty' <=> q \in 1..rounds' /\ given'[q] = 0 /\ \A p \in PIs : size'[p][q] <= warm'[p][q]
    BY DEF Empty
  <2>2. q \in Empty <=> q \in 1..rounds /\ given[q] = 0 /\ \A p \in PIs : size[p][q] <= warm[p][q]
    BY DEF Empty
  <2>3. q \in 1..rounds' <=> q \in 1..rounds
    BY <1>5
  <2>4. q \in 1..rounds => /\ given'[q] = given[q]
                           /\ \A p \in PIs : size'[p][q] = size[p][q] /\ warm'[p][q] = warm[p][q]
    BY <1>2, <1>3
  <2> QED BY <2>1, <2>2, <2>3, <2>4
<1>8. IsFiniteSet(Empty) /\ rejected = Cardinality(Empty)
  BY DEF Tallied
<1> HIDE DEF none
<1>9. CASE none
  <2>1. Empty' = Empty \cup {r}
    BY <1>6, <1>7, <1>9
  <2>2. IsFiniteSet(Empty') /\ Cardinality(Empty') = Cardinality(Empty) + 1
    BY <1>8, <2>1, FS_AddElement
  <2> QED BY <1>1, <1>8, <1>9, <2>2 DEF Tallied
<1>10. CASE ~none
  <2>1. Empty' = Empty
    BY <1>6, <1>7, <1>10
  <2> QED BY <1>1, <1>8, <1>10, <2>1 DEF Tallied
<1> QED BY <1>9, <1>10

\* With readings in every round none is empty.
Filled == AlwaysReadings => \A q \in 1..rounds : given[q] # 0

Tally == Shape /\ Tallied /\ Filled

LEMMA TallyStep ==
  Regular /\ (Replacing => AlwaysReadings) /\ Tally /\ [Next]_vars => Tally'
<1> SUFFICES ASSUME Regular, Replacing => AlwaysReadings, Tally, [Next]_vars
             PROVE  Tallied' /\ Filled'
  BY ShapeStep DEF Tally
<1>1. CASE SetNumOfPi
  <2>1. /\ ready' = TRUE /\ ~ready /\ rounds = 0
        /\ UNCHANGED <<rounds, size, warm, rejected, given>>
    BY <1>1 DEF SetNumOfPi, Regular
  <2>2. Empty' = {}
    BY <2>1 DEF Empty
  <2>3. rejected' = 0
    BY <2>1 DEF Tally, Tallied
  <2> QED BY <2>1, <2>2, <2>3, FS_EmptySet DEF Tally, Tallied, Filled
<1>2. CASE ImportRound
  <2>1. PICK r \in (IF Replacing THEN 1 ELSE rounds + 1)..(rounds + 1),
             hasReadings \in ReadingsGiven,
             col \in [PIs -> [begin : 0..MaxUnits, size : 0..MaxUnits]] :
          /\ \/ \A u \in PIs : col[u] = NoColumn
             \/ \E n \in 0..MaxUnits, method \in Methods, short \in BOOLEAN,
                   data \in [PIs -> IF NullColumns THEN BOOLEAN ELSE {TRUE}] :
                  \A u \in PIs : col[u] \in Column(r, n, data[u], method, short)
          /\ Import(r, hasReadings, col)
    BY <1>2 DEF ImportRound
  <2>2. Shape /\ rounds \in Nat
    BY DEF Tally, Shape, Typed
  <2>3. r \in 1..(rounds + 1) /\ r \in Nat /\ hasReadings \in BOOLEAN
    BY <2>2, RoundStoreAssumption
  <2>4. col \in [PIs -> Columns]
    BY <2>1, <2>3, ImportedWithin DEF Regular
  <2>5. AlwaysReadings => hasReadings
    BY RoundStoreAssumption DEF AlwaysReadings
  <2>6. r > rounds \/ hasReadings
    BY <2>1, <2>2, <2>5
  <2>7. r \notin Empty
    BY <2>1, <2>2 DEF Tally, Filled, Empty
  <2>8. Filled'
    <3>1. /\ given'[r] = 0 <=> ~hasReadings
          /\ \A q \in 1..rounds : q # r => given'[q] = given[q]
          /\ rounds' = IF r > rounds THEN rounds + 1 ELSE rounds
      BY <2>1, <2>2, <2>3, <2>4, GivenStored
    <3>2. \A q \in 1..rounds' : q = r \/ q \in 1..rounds
      BY <2>2, <2>3, <3>1
    <3> QED BY <2>5, <3>1, <3>2 DEF Tally, Filled
  <2>9. CASE ready
    BY <2>1, <2>2, <2>3, <2>4, <2>6, <2>7, <2>8, <2>9, ImportTallies DEF Tally
  <2>10. CASE ~ready
    <3>1. ready' = ready /\ rejected' = rejected
      BY <2>1, <2>10 DEF Import
    <3> QED BY <2>8, <2>10, <3>1 DEF Tally, Tallied
  <2> QED BY <2>9, <2>10
<1>3. CASE UNCHANGED vars
  <2>1. UNCHANGED <<ready, rounds, size, warm, rejected, given>>
    BY <1>3 DEF vars
  <2>2. Empty' = Empty
    BY <2>1 DEF Empty
  <2> QED BY <2>1, <2>2 DEF Tally, Tallied, Filled
<1> QED BY <1>1, <1>2, <1>3 DEF Next

(* wholly_rejected_rounds_, which the session loop compares with its limit, *)
(* is the number of the rounds without data, as long as no such round is    *)
(* imported again: by callers that only append, or always bring readings.   *)
THEOREM RejectedRight ==
  ASSUME Regular, Replacing => AlwaysReadings PROVE Spec => []RejectedExact
<1>1. Init => Tally
  <2>1. Init => Tallied /\ Filled
    BY DEF Init, Tallied, Filled
  <2> QED BY <2>1, ShapeInit DEF Tally
<1>2. Tally => RejectedExact
  BY DEF Tally, Tallied, Empty, RejectedExact
<1>3. Tally /\ [Next]_vars => Tally'
  BY TallyStep
<1> QED BY <1>1, <1>2, <1>3, PTL DEF Spec
=============================================================================
