---------------------------- MODULE StatisticsProofs ----------------------------
(* What is proved of the changepoint detection, for any number of readings, any
   shortest segment and whatever the tests say; of the numbers of readings asked
   for, for any readings; of the work-per-second analysis, that it ends and that
   its model is true, for any rounds; and of the squares that a split of any
   readings takes and leaves, which ChangeProofs uses. *)
EXTENDS MCStatistics, FiniteSetTheorems, SequenceTheorems, WellFoundedInduction, TLAPS

\* Sets of natural numbers have a least element, and a greatest if they are bounded.
LEMMA Least ==
  ASSUME NEW T \in SUBSET Nat, T /= {} PROVE \E x \in T : \A y \in T : x <= y
<1> DEFINE R == {x \in Nat \X Nat : x[1] < x[2]}
<1>1. IsWellFoundedOn(R, Nat)
  BY NatLessThanWellFounded DEF OpToRel
<1>2. \E x \in T : \A y \in T : ~(<<y, x>> \in R)
  <2> HIDE DEF R
  <2> QED
    BY <1>1, WFMin
<1>3. \A x, y \in Nat : ~(<<y, x>> \in R) => x <= y
  OBVIOUS
<1> HIDE DEF R
<1> QED
  BY <1>2, <1>3

LEMMA MinIs == ASSUME NEW T \in SUBSET Nat, T /= {} PROVE Min(T) \in T /\ \A y \in T : Min(T) <= y
  BY Least DEF Min

LEMMA MaxIs ==
  ASSUME NEW T \in SUBSET Nat, T /= {}, NEW n \in Nat, \A y \in T : y <= n
  PROVE  Max(T) \in T /\ \A y \in T : Max(T) >= y
<1> DEFINE D == {n - y : y \in T}
<1>1. D \in SUBSET Nat /\ D /= {}
  <2>1. \A y \in T : y \in Nat /\ n - y \in Nat
    OBVIOUS
  <2> QED
    BY <2>1
<1>2. PICK d \in D : \A e \in D : d <= e
  <2> HIDE DEF D
  <2> QED
    BY <1>1, Least
<1>3. PICK x \in T : d = n - x
  OBVIOUS
<1>4. \A y \in T : x >= y
  BY <1>2, <1>3
<1> QED
  BY <1>4, Zenon DEF Max

-----------------------------------------------------------------------------
(* Segments, keys and links, apart from the state. *)

\* From a to b there is a segment of n readings with changepoints at the places of L.
Adjacent(n, L, a, b) ==
  a \in {0, n} \union L /\ b \in {0, n} \union L /\ a < b /\ \A c \in L : ~(a < c /\ c < b)

LEMMA SegmentsAre ==
  ASSUME NEW L PROVE \A a, b : <<a, b>> \in Segments(L) <=> Adjacent(call.n, L, a, b)
  BY DEF Segments, Bounds, Adjacent

LEMMA NoEvidenceIs == NoEvidence \in PLevels /\ NoEvidence \in Nat /\ \A p \in PLevels : p <= NoEvidence
<1>1. \E one \in PLevels : \A p \in PLevels : p <= one
  BY DetectionAssumption
<1>2. NoEvidence \in PLevels /\ \A p \in PLevels : p <= NoEvidence
  BY <1>1 DEF NoEvidence
<1> QED
  BY <1>2, DetectionAssumption

Test == [p : PLevels, t : TLevels]

\* Among the keys of some places there is one that comes before all others.
LEMMA FirstKey ==
  ASSUME NEW C \in SUBSET Nat, NEW L \in SUBSET C, L /= {}, NEW r \in [C -> Test]
  PROVE  \E i \in L : \A j \in L \ {i} : Precedes(Key(r, i), Key(r, j))
<1>1. \A i \in L : r[i].p \in PLevels /\ r[i].p \in Nat /\ r[i].t \in Nat /\ r[i].p <= NoEvidence
  BY NoEvidenceIs, DetectionAssumption DEF Test
<1>2. PICK pmax \in {r[i].p : i \in L} : \A j \in L : pmax >= r[j].p
  <2> DEFINE T == {r[i].p : i \in L}
  <2>1. T \in SUBSET Nat /\ T /= {} /\ \A y \in T : y <= NoEvidence
    BY <1>1
  <2>2. \A j \in L : r[j].p \in T
    OBVIOUS
  <2> HIDE DEF T
  <2>3. Max(T) \in T /\ \A y \in T : Max(T) >= y
    BY <2>1, NoEvidenceIs, MaxIs
  <2> QED
    BY <2>2, <2>3 DEF T
<1> DEFINE L1 == {i \in L : r[i].p = pmax}
<1>3. PICK tmin \in {r[i].t : i \in L1} : \A j \in L1 : tmin <= r[j].t
  <2> DEFINE T == {r[i].t : i \in L1}
  <2>1. T \in SUBSET Nat /\ T /= {} /\ \A j \in L1 : r[j].t \in T
    BY <1>1, <1>2
  <2> HIDE DEF T, L1
  <2>2. \E x \in T : \A y \in T : x <= y
    BY <2>1, Least
  <2>3. PICK x \in T : \A y \in T : x <= y
    BY <2>2
  <2>4. \A j \in L1 : x <= r[j].t
    BY <2>1, <2>3
  <2> QED
    BY <2>3, <2>4 DEF T
<1> DEFINE L2 == {i \in L1 : r[i].t = tmin}
<1>4. PICK i \in L2 : \A j \in L2 : i <= j
  <2>1. L2 \in SUBSET Nat /\ L2 /= {}
    BY <1>3
  <2> HIDE DEF L2
  <2> QED
    BY <2>1, Least
<1>5. i \in L /\ i \in Nat /\ r[i].p = pmax /\ r[i].t = tmin
  BY <1>4
<1>6. ASSUME NEW j \in L \ {i} PROVE Precedes(Key(r, i), Key(r, j))
  <2>1. j \in L /\ j \in Nat /\ j # i /\ r[j].p \in Nat /\ r[j].t \in Nat
    BY <1>1
  <2>2. pmax \in Nat /\ tmin \in Nat
    BY <1>1, <1>5
  <2>3. pmax >= r[j].p
    BY <1>2, <2>1
  <2>4. CASE r[j].p # pmax
    BY <1>5, <2>1, <2>2, <2>3, <2>4 DEF Precedes, Key
  <2>5. CASE r[j].p = pmax /\ r[j].t # tmin
    <3>1. tmin <= r[j].t
      BY <1>3, <2>1, <2>5
    <3> QED
      BY <1>5, <2>1, <2>2, <2>5, <3>1 DEF Precedes, Key
  <2>6. CASE r[j].p = pmax /\ r[j].t = tmin
    <3>1. i <= j
      BY <1>4, <2>1, <2>6
    <3> QED
      BY <1>5, <2>1, <2>2, <2>6, <3>1 DEF Precedes, Key
  <2> QED
    BY <2>4, <2>5, <2>6
<1> QED
  BY <1>5, <1>6

\* The neighbours of each place of L.
Linked(n, L, pr, nx) == \A i \in L : Adjacent(n, L, pr[i], i) /\ Adjacent(n, L, i, nx[i])

\* The links of the places of L, kept for all of C.
Links(n, C, L, pr, nx) ==
  n \in Nat /\ C \in SUBSET (1 .. n - 1) /\ L \in SUBSET C /\ pr \in [C -> Nat] /\ nx \in [C -> Nat] /\ Linked(n, L, pr, nx)

\* The link of a neighbour is changed if the neighbour is a place, not an end of the readings.
Relink(C, f, at, to) == IF at \in C THEN [f EXCEPT ![at] = to] ELSE f

\* The place w went and its neighbours are linked with each other: the places left are linked with theirs.
Unlinked(n, C, L, pr, nx, w) ==
  LET pr2 == Relink(C, pr, nx[w], pr[w])
      nx2 == Relink(C, nx, pr[w], nx[w])
  IN /\ Links(n, C, L \ {w}, pr2, nx2)
     /\ \A i \in L \ {w} : i \notin {pr[w], nx[w]} => pr2[i] = pr[i] /\ nx2[i] = nx[i]

\* When a place goes and its neighbours are linked with each other, all that are left are linked with theirs.
LEMMA Unlink ==
  ASSUME NEW n, NEW C, NEW L, NEW pr, NEW nx, NEW w, Links(n, C, L, pr, nx), w \in L
  PROVE  Unlinked(n, C, L, pr, nx, w)
<1> DEFINE pr2 == Relink(C, pr, nx[w], pr[w])
           nx2 == Relink(C, nx, pr[w], nx[w])
<1> n \in Nat /\ C \in SUBSET (1 .. n - 1) /\ L \in SUBSET C /\ pr \in [C -> Nat] /\ nx \in [C -> Nat] /\ Linked(n, L, pr, nx)
  BY DEF Links
<1> /\ pr2 = IF nx[w] \in C THEN [pr EXCEPT ![nx[w]] = pr[w]] ELSE pr
    /\ nx2 = IF pr[w] \in C THEN [nx EXCEPT ![pr[w]] = nx[w]] ELSE nx
  BY DEF Relink
<1> HIDE DEF pr2, nx2
<1> DEFINE b == pr[w]
           a == nx[w]
<1>1. b \in Nat /\ a \in Nat /\ w \in Nat /\ b < w /\ w < a /\ Adjacent(n, L, b, w) /\ Adjacent(n, L, w, a)
  BY DEF Linked, Adjacent
<1>2. pr2 \in [C -> Nat] /\ nx2 \in [C -> Nat]
  BY <1>1
<1>3. ASSUME NEW i \in L \ {w}
      PROVE  /\ i # a => pr2[i] = pr[i]
             /\ i = a => pr2[i] = b
             /\ i # b => nx2[i] = nx[i]
             /\ i = b => nx2[i] = a
  <2>1. i \in C
    OBVIOUS
  <2> QED
    BY <1>1, <2>1
<1>4. ASSUME NEW i \in L \ {w}
      PROVE  /\ i # a => pr[i] # w
             /\ i # b => nx[i] # w
  <2>1. i \in Nat /\ pr[i] \in Nat /\ nx[i] \in Nat /\ Adjacent(n, L, pr[i], i) /\ Adjacent(n, L, i, nx[i])
    BY DEF Linked
  <2>2. ASSUME pr[i] = w PROVE i = a
    BY <1>1, <2>1, <2>2 DEF Adjacent
  <2>3. ASSUME nx[i] = w PROVE i = b
    BY <1>1, <2>1, <2>3 DEF Adjacent
  <2> QED
    BY <2>2, <2>3
<1>5. ASSUME NEW x, NEW y, Adjacent(n, L, x, y), x # w, y # w
      PROVE  Adjacent(n, L \ {w}, x, y)
  BY <1>5 DEF Adjacent
<1>6. Adjacent(n, L \ {w}, b, a)
  BY <1>1 DEF Adjacent
<1>7. ASSUME NEW i \in L \ {w}
      PROVE  Adjacent(n, L \ {w}, pr2[i], i) /\ Adjacent(n, L \ {w}, i, nx2[i])
  <2>1. i # w /\ Adjacent(n, L, pr[i], i) /\ Adjacent(n, L, i, nx[i])
    BY DEF Linked
  <2>2. Adjacent(n, L \ {w}, pr2[i], i)
    BY <1>3, <1>4, <1>5, <1>6, <2>1
  <2>3. Adjacent(n, L \ {w}, i, nx2[i])
    BY <1>3, <1>4, <1>5, <1>6, <2>1
  <2> QED
    BY <2>2, <2>3
<1>8. Links(n, C, L \ {w}, pr2, nx2)
  BY <1>2, <1>7 DEF Links, Linked
<1>9. \A i \in L \ {w} : i \notin {pr[w], nx[w]} => pr2[i] = pr[i] /\ nx2[i] = nx[i]
  BY <1>3
<1> QED
  BY <1>8, <1>9 DEF pr2, nx2, Unlinked

-----------------------------------------------------------------------------
(* The proposals. *)

Typing ==
  /\ call \in [name : {"all", "dominant", "last"}, n : Nat, min : Nat \ {0}]
  /\ phase \in {"idle", "propose", "dispose", "done"}
  /\ cps \subseteq 1 .. call.n - 1

LongEnough == \A a, b \in 0 .. call.n : Adjacent(call.n, cps, a, b) => b - a >= call.min

\* What is still to be split are segments, each once, and all that can be split are among them.
PartsOf(t, n, C, min) ==
  /\ t \in Seq(Nat \X Nat)
  /\ \A i \in 1 .. Len(t) : Adjacent(n, C, t[i][1], t[i][2])
  /\ \A i, j \in 1 .. Len(t) : t[i] = t[j] => i = j
  /\ \A a, b \in 0 .. n :
       Adjacent(n, C, a, b) /\ b - a >= 2 * min => \E i \in 1 .. Len(t) : t[i] = <<a, b>>

Parted == PartsOf(todo, call.n, cps, call.min)

SplitInv ==
  /\ Typing
  /\ phase = "idle" => cps = {}
  /\ phase = "propose" => Parted /\ LongEnough
  /\ cps /= {} => LongEnough
  /\ phase = "dispose" =>
       \A a, b \in 0 .. call.n : Adjacent(call.n, cps, a, b) => b - a < 2 * call.min

\* A place between two neighbours takes their segment apart, and no other.
LEMMA Between ==
  ASSUME NEW n \in Nat, NEW C \in SUBSET (1 .. n - 1), NEW a \in Nat, NEW b \in Nat, NEW m \in Nat,
         Adjacent(n, C, a, b), a < m, m < b
  PROVE  /\ m \in 1 .. n - 1 /\ m \notin C
         /\ \A x, y \in 0 .. n : Adjacent(n, C \union {m}, x, y) <=>
              \/ Adjacent(n, C, x, y) /\ <<x, y>> # <<a, b>>
              \/ x = a /\ y = m
              \/ x = m /\ y = b
<1>1. m \in 1 .. n - 1 /\ m \notin C
  BY DEF Adjacent
<1>2. Adjacent(n, C \union {m}, a, m) /\ Adjacent(n, C \union {m}, m, b)
  BY DEF Adjacent
<1>3. ASSUME NEW x \in 0 .. n, NEW y \in 0 .. n, Adjacent(n, C, x, y), ~(x = a /\ y = b)
      PROVE  Adjacent(n, C \union {m}, x, y)
  BY <1>3 DEF Adjacent
<1>4. ASSUME NEW x \in 0 .. n, NEW y \in 0 .. n, Adjacent(n, C \union {m}, x, y)
      PROVE  \/ Adjacent(n, C, x, y) /\ ~(x = a /\ y = b)
             \/ x = a /\ y = m
             \/ x = m /\ y = b
  <2>1. CASE x = m
    BY <1>4, <2>1 DEF Adjacent
  <2>2. CASE y = m
    BY <1>4, <2>2 DEF Adjacent
  <2>3. CASE x # m /\ y # m
    BY <1>4, <2>3 DEF Adjacent
  <2> QED
    BY <2>1, <2>2, <2>3
<1> QED
  BY <1>1, <1>2, <1>3, <1>4

LEMMA CallSplits == ASSUME SplitInv, Call PROVE SplitInv'
<1>1. PICK name \in {"all", "dominant", "last"}, n \in Sizes, min \in MinSizes \union {DetectMin} :
        /\ call' = [name |-> name, n |-> n, min |-> min]
        /\ IF n < min
           THEN /\ phase' = "done" /\ answer' = <<"ERR_NOT_ENOUGH_DATA">>
                /\ UNCHANGED todo
           ELSE /\ phase' = "propose" /\ todo' = <<<<0, n>>>>
                /\ UNCHANGED answer
  BY DEF Call
<1>2. n \in Nat /\ min \in Nat \ {0} /\ cps = {} /\ cps' = {}
  BY DetectionAssumption DEF Call, SplitInv
<1>3. call'.n = n /\ call'.min = min /\ Typing'
  BY <1>1, <1>2 DEF Typing
<1>4. CASE n < min
  BY <1>1, <1>2, <1>3, <1>4 DEF SplitInv
<1>5. CASE ~(n < min)
  <2>1. phase' = "propose" /\ todo' = <<<<0, n>>>>
    BY <1>1, <1>5
  <2>2. Len(todo') = 1 /\ todo'[1] = <<0, n>> /\ todo' \in Seq(Nat \X Nat)
    BY <1>2, <2>1
  <2>3. \A a, b : Adjacent(n, {}, a, b) <=> a = 0 /\ b = n
    BY <1>2, <1>5 DEF Adjacent
  <2>4. Parted'
    <3>1. \A i \in 1 .. Len(todo') : i = 1
      BY <2>2
    <3>2. \A i \in 1 .. Len(todo') : Adjacent(call'.n, cps', todo'[i][1], todo'[i][2])
      BY <1>2, <1>3, <2>2, <2>3, <3>1
    <3>3. \A a, b \in 0 .. n : Adjacent(n, {}, a, b) => \E i \in 1 .. Len(todo') : todo'[i] = <<a, b>>
      BY <2>2, <2>3
    <3> QED
      BY <1>2, <1>3, <2>2, <3>1, <3>2, <3>3 DEF Parted, PartsOf
  <2>5. LongEnough'
    BY <1>2, <1>3, <1>5, <2>3 DEF LongEnough
  <2> QED
    BY <1>2, <1>3, <2>1, <2>4, <2>5 DEF SplitInv
<1> QED
  BY <1>4, <1>5

LEMMA FrontIs ==
  ASSUME NEW S, NEW s \in Seq(S), s /= <<>>
  PROVE  /\ Front(s) \in Seq(S) /\ Len(s) \in Nat /\ Len(s) >= 1 /\ Len(Front(s)) = Len(s) - 1
         /\ Last(s) = s[Len(s)] /\ s[Len(s)] \in S
         /\ \A i \in 1 .. Len(s) - 1 : Front(s)[i] = s[i]
<1>1. Len(s) \in Nat /\ Len(s) >= 1 /\ \A i \in 1 .. Len(s) : s[i] \in S
  BY EmptySeq, ElementOfSeq
<1> DEFINE k == Len(s)
<1> HIDE DEF k
<1>2. k \in Nat /\ k >= 1 /\ \A i \in 1 .. k - 1 : s[i] \in S
  BY <1>1 DEF k
<1>3. /\ SubSeq(s, 1, k - 1) \in Seq(S) /\ Len(SubSeq(s, 1, k - 1)) = k - 1
      /\ \A i \in 1 .. k - 1 : SubSeq(s, 1, k - 1)[i] = s[i]
  <2>1. /\ SubSeq(s, 1, k - 1) \in Seq(S)
        /\ Len(SubSeq(s, 1, k - 1)) = IF 1 <= k - 1 THEN k - 1 - 1 + 1 ELSE 0
        /\ \A i \in 1 .. k - 1 - 1 + 1 : SubSeq(s, 1, k - 1)[i] = s[1 + i - 1]
    BY <1>2, SubSeqProperties
  <2> QED
    BY <1>2, <2>1
<1>4. Front(s) = SubSeq(s, 1, k - 1)
  BY Zenon DEF Front, k
<1>5. Last(s) = s[Len(s)] /\ s[Len(s)] \in S
  BY <1>1 DEF Last
<1> QED
  BY <1>1, <1>3, <1>4, <1>5 DEF k

LEMMA PushTwo ==
  ASSUME NEW S, NEW f \in Seq(S), NEW x \in S, NEW y \in S, NEW k \in Nat, Len(f) = k - 1
  PROVE  /\ f \o <<x, y>> \in Seq(S) /\ Len(f \o <<x, y>>) = k + 1
         /\ \A i \in 1 .. k - 1 : (f \o <<x, y>>)[i] = f[i]
         /\ (f \o <<x, y>>)[k] = x /\ (f \o <<x, y>>)[k + 1] = y
<1> DEFINE g == <<x, y>>
<1>1. g \in Seq(S) /\ Len(g) = 2 /\ g[1] = x /\ g[2] = y
  OBVIOUS
<1> HIDE DEF g
<1>2. /\ f \o g \in Seq(S) /\ Len(f \o g) = Len(f) + Len(g)
      /\ \A i \in 1 .. Len(f) + Len(g) : (f \o g)[i] = IF i <= Len(f) THEN f[i] ELSE g[i - Len(f)]
  BY <1>1, ConcatProperties
<1>3. Len(f \o g) = k + 1 /\ \A i \in 1 .. k + 1 : (f \o g)[i] = IF i <= k - 1 THEN f[i] ELSE g[i - (k - 1)]
  BY <1>1, <1>2
<1>4. k - 1 >= 0
  BY LenProperties
<1> QED
  BY <1>1, <1>2, <1>3, <1>4 DEF g

\* A segment that is too short goes.
LEMMA PopKeeps ==
  ASSUME NEW n \in Nat, NEW min \in Nat, NEW C, NEW t, PartsOf(t, n, C, min), t /= <<>>,
         Last(t)[2] - Last(t)[1] < 2 * min
  PROVE  PartsOf(Front(t), n, C, min)
<1> DEFINE k == Len(t)
           f == Front(t)
<1>1. t \in Seq(Nat \X Nat)
  BY DEF PartsOf
<1>2. /\ f \in Seq(Nat \X Nat) /\ k \in Nat /\ k >= 1 /\ Len(f) = k - 1 /\ Last(t) = t[k]
      /\ \A i \in 1 .. k - 1 : f[i] = t[i]
  BY <1>1, FrontIs
<1>3. /\ \A i \in 1 .. k : Adjacent(n, C, t[i][1], t[i][2])
      /\ \A i, j \in 1 .. k : t[i] = t[j] => i = j
      /\ \A a, b \in 0 .. n : Adjacent(n, C, a, b) /\ b - a >= 2 * min => \E i \in 1 .. k : t[i] = <<a, b>>
  BY DEF PartsOf
<1> HIDE DEF k, f
<1>4. \A i \in 1 .. k - 1 : i \in 1 .. k
  BY <1>2
<1>5. ASSUME NEW a \in 0 .. n, NEW b \in 0 .. n, Adjacent(n, C, a, b), b - a >= 2 * min
      PROVE  \E i \in 1 .. k - 1 : f[i] = <<a, b>>
  <2>1. PICK i \in 1 .. k : t[i] = <<a, b>>
    BY <1>3, <1>5
  <2>2. CASE i = k
    <3>1. Last(t)[1] = a /\ Last(t)[2] = b
      BY <1>2, <2>1, <2>2
    <3> QED
      BY <1>5, <3>1
  <2>3. CASE i # k
    <3>1. i \in 1 .. k - 1
      BY <1>2, <2>3
    <3> QED
      BY <1>2, <2>1, <3>1
  <2> QED
    BY <2>2, <2>3
<1>6. /\ \A i \in 1 .. k - 1 : Adjacent(n, C, f[i][1], f[i][2])
      /\ \A i, j \in 1 .. k - 1 : f[i] = f[j] => i = j
  BY <1>2, <1>3, <1>4
<1> QED
  BY <1>2, <1>5, <1>6 DEF PartsOf, f

\* A segment that is split is replaced by its parts.
LEMMA SplitKeeps ==
  ASSUME NEW n \in Nat, NEW min \in Nat, NEW C \in SUBSET (1 .. n - 1), NEW t, PartsOf(t, n, C, min),
         NEW a \in Nat, NEW b \in Nat, NEW m \in Nat, t /= <<>>, Last(t) = <<a, b>>, a < m, m < b
  PROVE  PartsOf(Front(t) \o <<<<a, m>>, <<m, b>>>>, n, C \union {m}, min)
<1> DEFINE k == Len(t)
           f == Front(t)
           u == f \o <<<<a, m>>, <<m, b>>>>
<1>1. t \in Seq(Nat \X Nat)
  BY DEF PartsOf
<1>2. /\ f \in Seq(Nat \X Nat) /\ k \in Nat /\ k >= 1 /\ Len(f) = k - 1 /\ t[k] = <<a, b>>
      /\ \A i \in 1 .. k - 1 : f[i] = t[i]
  BY <1>1, FrontIs
<1>3. /\ \A i \in 1 .. k : Adjacent(n, C, t[i][1], t[i][2]) /\ t[i] \in Nat \X Nat
      /\ \A i, j \in 1 .. k : t[i] = t[j] => i = j
      /\ \A x, y \in 0 .. n : Adjacent(n, C, x, y) /\ y - x >= 2 * min => \E i \in 1 .. k : t[i] = <<x, y>>
  <2>1. \A i \in 1 .. k : t[i] \in Nat \X Nat
    BY <1>1, ElementOfSeq
  <2> QED
    BY <2>1 DEF PartsOf
<1> HIDE DEF k, f
<1>4. /\ u \in Seq(Nat \X Nat) /\ Len(u) = k + 1
      /\ \A i \in 1 .. k - 1 : u[i] = t[i]
      /\ u[k] = <<a, m>> /\ u[k + 1] = <<m, b>>
  <2>1. <<a, m>> \in Nat \X Nat /\ <<m, b>> \in Nat \X Nat
    OBVIOUS
  <2> DEFINE x == <<a, m>>
             y == <<m, b>>
             S == Nat \X Nat
  <2>2. x \in S /\ y \in S /\ f \in Seq(S) /\ k \in Nat /\ Len(f) = k - 1
    BY <1>2, <2>1
  <2> HIDE DEF x, y, S
  <2>3. /\ f \o <<x, y>> \in Seq(S) /\ Len(f \o <<x, y>>) = k + 1
        /\ \A i \in 1 .. k - 1 : (f \o <<x, y>>)[i] = f[i]
        /\ (f \o <<x, y>>)[k] = x /\ (f \o <<x, y>>)[k + 1] = y
    BY <2>2, PushTwo
  <2> QED
    BY <1>2, <2>3, Zenon DEF x, y, S
<1> HIDE DEF u
<1>5. Adjacent(n, C, a, b) /\ a \in 0 .. n /\ b \in 0 .. n
  <2>1. k \in 1 .. k /\ t[k][1] = a /\ t[k][2] = b
    BY <1>2
  <2>2. Adjacent(n, C, a, b)
    BY <1>3, <2>1
  <2> QED
    BY <2>2 DEF Adjacent
<1>6. /\ m \in 1 .. n - 1 /\ m \notin C
      /\ \A x, y \in 0 .. n : Adjacent(n, C \union {m}, x, y) <=>
           \/ Adjacent(n, C, x, y) /\ <<x, y>> # <<a, b>>
           \/ x = a /\ y = m
           \/ x = m /\ y = b
  BY <1>5, Between
<1>7. \A i \in 1 .. k + 1 : i \in 1 .. k - 1 \/ i = k \/ i = k + 1
  BY <1>2
<1>8. ASSUME NEW i \in 1 .. k - 1
      PROVE  /\ i \in 1 .. k /\ t[i] # <<a, b>> /\ t[i] = <<t[i][1], t[i][2]>>
             /\ t[i][1] \in 0 .. n /\ t[i][2] \in 0 .. n /\ t[i][1] # m /\ t[i][2] # m
             /\ Adjacent(n, C, t[i][1], t[i][2])
  <2>1. i \in 1 .. k /\ k \in 1 .. k /\ i # k
    BY <1>2
  <2>2. t[i] # <<a, b>> /\ Adjacent(n, C, t[i][1], t[i][2]) /\ t[i] \in Nat \X Nat
    BY <1>2, <1>3, <2>1
  <2>3. t[i][1] \in {0, n} \union C /\ t[i][2] \in {0, n} \union C
    BY <2>2 DEF Adjacent
  <2>4. \A x \in {0, n} \union C : x \in 0 .. n /\ x # m
    BY <1>6
  <2> QED
    BY <2>1, <2>2, <2>3, <2>4
<1>9. ASSUME NEW i \in 1 .. k + 1 PROVE Adjacent(n, C \union {m}, u[i][1], u[i][2])
  <2>1. CASE i \in 1 .. k - 1
    <3>1. <<t[i][1], t[i][2]>> # <<a, b>>
      BY <1>8, <2>1
    <3>2. Adjacent(n, C \union {m}, t[i][1], t[i][2])
      BY <1>6, <1>8, <2>1, <3>1
    <3> QED
      BY <1>4, <2>1, <3>2
  <2>2. Adjacent(n, C \union {m}, a, m) /\ Adjacent(n, C \union {m}, m, b)
    <3>1. m \in 0 .. n
      BY <1>6
    <3> QED
      BY <1>5, <1>6, <3>1
  <2>3. CASE i = k
    <3>1. u[i][1] = a /\ u[i][2] = m
      BY <1>4, <2>3
    <3> QED
      BY <2>2, <3>1
  <2>4. CASE i = k + 1
    <3>1. u[i][1] = m /\ u[i][2] = b
      BY <1>4, <2>4
    <3> QED
      BY <2>2, <3>1
  <2> QED
    BY <1>7, <2>1, <2>3, <2>4
<1>10. \A i, j \in 1 .. k + 1 : u[i] = u[j] => i = j
  <2>1. \A i, j \in 1 .. k - 1 : u[i] = u[j] => i = j
    BY <1>3, <1>4, <1>8
  <2>2. \A i \in 1 .. k - 1 : u[i] # <<a, m>> /\ u[i] # <<m, b>>
    <3> SUFFICES ASSUME NEW i \in 1 .. k - 1 PROVE u[i] # <<a, m>> /\ u[i] # <<m, b>>
      OBVIOUS
    <3>1. u[i] = t[i] /\ t[i][1] # m /\ t[i][2] # m
      BY <1>4, <1>8
    <3> QED
      BY <3>1
  <2>3. <<a, m>> # <<m, b>>
    OBVIOUS
  <2> QED
    BY <1>4, <1>7, <2>1, <2>2, <2>3
<1>11. ASSUME NEW x \in 0 .. n, NEW y \in 0 .. n, Adjacent(n, C \union {m}, x, y), y - x >= 2 * min
       PROVE  \E i \in 1 .. k + 1 : u[i] = <<x, y>>
  <2>1. k \in 1 .. k + 1 /\ k + 1 \in 1 .. k + 1
    BY <1>2
  <2>2. CASE x = a /\ y = m
    BY <1>4, <2>1, <2>2
  <2>3. CASE x = m /\ y = b
    BY <1>4, <2>1, <2>3
  <2>4. CASE Adjacent(n, C, x, y) /\ <<x, y>> # <<a, b>>
    <3>1. PICK i \in 1 .. k : t[i] = <<x, y>>
      BY <1>3, <1>11, <2>4
    <3>2. i # k
      BY <1>2, <2>4, <3>1
    <3>3. i \in 1 .. k - 1 /\ i \in 1 .. k + 1
      BY <1>2, <3>2
    <3> QED
      BY <1>4, <3>1, <3>3
  <2> QED
    BY <1>6, <1>11, <2>2, <2>3, <2>4
<1>12. PartsOf(u, n, C \union {m}, min)
  BY <1>4, <1>9, <1>10, <1>11 DEF PartsOf
<1> QED
  BY <1>12 DEF u, f

LEMMA ProposeSplits == ASSUME SplitInv, Propose PROVE SplitInv'
<1> DEFINE a == Last(todo)[1]
           b == Last(todo)[2]
           n == call.n
           min == call.min
<1>1. PICK tau \in Splits(b - a, min) :
        IF tau = 0
        THEN todo' = Front(todo) /\ UNCHANGED cps
        ELSE /\ cps' = cps \union {a + tau}
             /\ todo' = Front(todo) \o Parts(Last(todo), tau)
  BY DEF Propose
<1>2. /\ Typing /\ PartsOf(todo, n, cps, min) /\ LongEnough
      /\ phase' = "propose" /\ call' = call /\ todo /= <<>>
      /\ n \in Nat /\ min \in Nat /\ min >= 1 /\ cps \in SUBSET (1 .. n - 1)
  BY DEF Propose, SplitInv, Typing, Parted
<1>3. Last(todo) = <<a, b>> /\ a \in Nat /\ b \in Nat /\ Adjacent(n, cps, a, b)
  <2>1. todo \in Seq(Nat \X Nat)
    BY <1>2 DEF PartsOf
  <2>2. Last(todo) = todo[Len(todo)] /\ Last(todo) \in Nat \X Nat /\ Len(todo) \in 1 .. Len(todo)
    BY <1>2, <2>1, FrontIs
  <2> QED
    BY <1>2, <2>2 DEF PartsOf
<1>4. Parts(Last(todo), tau) = <<<<a, a + tau>>, <<a + tau, b>>>>
  BY <1>3 DEF Parts
<1> HIDE DEF a, b, n, min
<1>5. CASE tau = 0
  <2>1. b - a < 2 * min
    BY <1>1, <1>2, <1>3, <1>5 DEF Splits
  <2>2. todo' = Front(todo) /\ cps' = cps
    BY <1>1, <1>5
  <2>3. PartsOf(Front(todo), n, cps, min)
    BY <1>2, <2>1, PopKeeps DEF a, b
  <2>4. Parted'
    BY <1>2, <2>2, <2>3 DEF Parted, n, min
  <2> QED
    BY <1>2, <2>2, <2>4 DEF SplitInv, Typing, LongEnough
<1>6. CASE tau # 0
  <2> DEFINE m == a + tau
  <2>1. tau \in min .. b - a - min
    BY <1>1, <1>2, <1>3, <1>6 DEF Splits
  <2>2. m \in Nat /\ m - a >= min /\ b - m >= min /\ a < m /\ m < b
    BY <1>2, <1>3, <2>1
  <2>3. cps' = cps \union {m} /\ todo' = Front(todo) \o <<<<a, m>>, <<m, b>>>>
    BY <1>1, <1>4, <1>6
  <2> HIDE DEF m
  <2>4. PartsOf(todo', n, cps', min)
    BY <1>2, <1>3, <2>2, <2>3, SplitKeeps
  <2>5. /\ m \in 1 .. n - 1
        /\ \A x, y \in 0 .. n : Adjacent(n, cps \union {m}, x, y) =>
             \/ Adjacent(n, cps, x, y)
             \/ x = a /\ y = m
             \/ x = m /\ y = b
    <3>2. a \in Nat /\ b \in Nat /\ m \in Nat /\ n \in Nat /\ Adjacent(n, cps, a, b) /\ a < m /\ m < b
      BY <1>2, <1>3, <2>2
    <3>1. /\ m \in 1 .. n - 1 /\ m \notin cps
          /\ \A x, y \in 0 .. n : Adjacent(n, cps \union {m}, x, y) <=>
               \/ Adjacent(n, cps, x, y) /\ <<x, y>> # <<a, b>>
               \/ x = a /\ y = m
               \/ x = m /\ y = b
      BY <1>2, <3>2, Between
    <3> QED
      BY <3>1, Zenon
  <2>6. Typing'
    BY <1>2, <2>3, <2>5 DEF Typing, n
  <2>7. LongEnough'
    <3>1. \A x, y \in 0 .. n : Adjacent(n, cps, x, y) => y - x >= min
      BY <1>2 DEF LongEnough, n, min
    <3>2. \A x, y \in 0 .. n : Adjacent(n, cps', x, y) => y - x >= min
      BY <2>2, <2>3, <2>5, <3>1
    <3> QED
      BY <1>2, <3>2 DEF LongEnough, n, min
  <2>8. Parted'
    BY <1>2, <2>4 DEF Parted, n, min
  <2> QED
    BY <1>2, <2>6, <2>7, <2>8 DEF SplitInv
<1> QED
  BY <1>5, <1>6

LEMMA SplitStep == ASSUME SplitInv, [Next]_vars PROVE SplitInv'
<1>1. CASE UNCHANGED <<call, cps>> /\ phase' \in {"done", phase} /\ (phase' = "propose" => UNCHANGED todo)
  <2>1. UNCHANGED <<call, cps>> /\ Typing'
    BY <1>1 DEF SplitInv, Typing
  <2>2. LongEnough => LongEnough'
    BY <2>1 DEF LongEnough
  <2>3. phase' = "propose" => phase = "propose" /\ (Parted => Parted')
    BY <1>1, <2>1 DEF Parted
  <2> QED
    BY <1>1, <2>1, <2>2, <2>3 DEF SplitInv
<1>2. CASE TestAll
  <2>1. todo = <<>> /\ Parted /\ LongEnough /\ UNCHANGED <<call, cps>> /\ phase' = "dispose"
    BY <1>2 DEF TestAll, SplitInv
  <2>2. \A a, b \in 0 .. call.n : Adjacent(call.n, cps, a, b) => ~(b - a >= 2 * call.min)
    <3>1. 1 .. Len(todo) = {}
      BY <2>1
    <3> QED
      BY <2>1, <3>1 DEF Parted, PartsOf
  <2>3. call.n \in Nat /\ call.min \in Nat
    BY DEF SplitInv, Typing
  <2>4. \A a, b \in 0 .. call.n : Adjacent(call.n, cps, a, b) => b - a < 2 * call.min
    BY <2>2, <2>3
  <2> QED
    BY <2>1, <2>4 DEF SplitInv, Typing, LongEnough
<1>3. CASE Return
  BY <1>3 DEF Return, SplitInv, Typing
<1>4. CASE Unusable \/ Dispose \/ Finish \/ UNCHANGED vars
  BY <1>1, <1>4 DEF Unusable, Dispose, Finish, vars
<1> QED
  BY <1>2, <1>3, <1>4, CallSplits, ProposeSplits DEF Next, Detect

LEMMA SplitAlways == Spec => []SplitInv
<1>1. Init => SplitInv
  BY DetectionAssumption DEF Init, Idle, SplitInv, Typing
<1> QED
  BY <1>1, SplitStep, PTL DEF Spec

\* However the segments are split, those of all proposals are long enough, and when the proposals are done
\* none could have been split again.
THEOREM ProposalsAreSound == Spec => []ProposalsSound
<1>1. ASSUME SplitInv PROVE ProposalsSound
  <2> SUFFICES ASSUME NEW s \in Segments(cps)
               PROVE  /\ cps /= {} => s[2] - s[1] >= call.min
                      /\ phase = "dispose" => s[2] - s[1] < 2 * call.min
    BY DEF ProposalsSound
  <2>1. s = <<s[1], s[2]>>
    BY DEF Segments
  <2>2. Adjacent(call.n, cps, s[1], s[2])
    BY <2>1, SegmentsAre
  <2>3. s[1] \in 0 .. call.n /\ s[2] \in 0 .. call.n
    <3>1. call.n \in Nat /\ cps \subseteq 1 .. call.n - 1
      BY <1>1 DEF SplitInv, Typing
    <3>2. \A x \in {0, call.n} \union cps : x \in 0 .. call.n
      BY <3>1
    <3>3. s[1] \in {0, call.n} \union cps /\ s[2] \in {0, call.n} \union cps
      BY <2>2 DEF Adjacent
    <3> QED
      BY <3>2, <3>3
  <2> QED
    BY <1>1, <2>2, <2>3 DEF SplitInv, LongEnough
<1> QED
  BY <1>1, SplitAlways, PTL

-----------------------------------------------------------------------------
(* The disposal. *)

\* The keys are those of the places that are left, which are linked and were tested with their neighbours.
Current ==
  /\ order = {Key(res, i) : i \in Left}
  /\ Linked(call.n, Left, prev, next)
  /\ \A i \in Left : seen[i] = <<prev[i], next[i]>>

Arrays ==
  Left \subseteq cps /\ prev \in [cps -> Nat] /\ next \in [cps -> Nat] /\ res \in [cps -> Test]

LinkInv ==
  /\ phase \in {"idle", "propose"} => order = {}
  /\ phase = "dispose" => Arrays
  /\ phase \in {"dispose", "done"} => Current
  /\ AnswerRight

LEMMA NoneLeft == ASSUME order = {} PROVE Left = {} /\ Current
  BY DEF Left, Current, Linked

LEMMA NoneLeftThen == ASSUME order' = {} PROVE Left' = {} /\ Current'
  BY DEF Left, Current, Linked

\* The neighbours that are looked for among all proposals.
LEMMA Neighbours ==
  ASSUME NEW n \in Nat, NEW C \in SUBSET (1 .. n - 1), NEW i \in C
  PROVE  LET b == Max({0} \union {j \in C : j < i})
             a == Min({n} \union {j \in C : j > i})
         IN b \in Nat /\ a \in Nat /\ Adjacent(n, C, b, i) /\ Adjacent(n, C, i, a)
<1> DEFINE B == {0} \union {j \in C : j < i}
           A == {n} \union {j \in C : j > i}
<1>1. B \in SUBSET Nat /\ B /= {} /\ (\A y \in B : y <= n) /\ A \in SUBSET Nat /\ A /= {}
  <2>1. \A j \in C : j \in Nat /\ j <= n
    OBVIOUS
  <2>2. 0 \in B /\ \A y \in B : y \in Nat /\ y <= n
    BY <2>1
  <2>3. n \in A /\ \A y \in A : y \in Nat
    BY <2>1
  <2> HIDE DEF A, B
  <2> QED
    BY <2>2, <2>3
<1>2. /\ \A j \in B : (j = 0 \/ j \in C) /\ j < i
      /\ \A j \in A : (j = n \/ j \in C) /\ j > i
      /\ \A j \in C : (j < i => j \in B) /\ (j > i => j \in A)
  OBVIOUS
<1> HIDE DEF A, B
<1>3. Max(B) \in B /\ \A y \in B : Max(B) >= y
  BY <1>1, MaxIs
<1>4. Min(A) \in A /\ \A y \in A : Min(A) <= y
  BY <1>1, MinIs
<1>5. Max(B) \in Nat /\ Adjacent(n, C, Max(B), i)
  <2>1. Max(B) \in Nat /\ (Max(B) = 0 \/ Max(B) \in C) /\ Max(B) < i
    BY <1>1, <1>2, <1>3
  <2>2. \A c \in C : ~(Max(B) < c /\ c < i)
    <3> SUFFICES ASSUME NEW c \in C, Max(B) < c, c < i PROVE FALSE
      OBVIOUS
    <3>1. Max(B) >= c
      BY <1>2, <1>3
    <3> QED
      BY <2>1, <3>1
  <2> QED
    BY <2>1, <2>2 DEF Adjacent
<1>6. Min(A) \in Nat /\ Adjacent(n, C, i, Min(A))
  <2>1. Min(A) \in Nat /\ (Min(A) = n \/ Min(A) \in C) /\ i < Min(A)
    BY <1>1, <1>2, <1>4
  <2>2. \A c \in C : ~(i < c /\ c < Min(A))
    <3> SUFFICES ASSUME NEW c \in C, i < c, c < Min(A) PROVE FALSE
      OBVIOUS
    <3>1. Min(A) <= c
      BY <1>2, <1>4
    <3> QED
      BY <2>1, <3>1
  <2> QED
    BY <2>1, <2>2 DEF Adjacent
<1> QED
  BY <1>5, <1>6, Zenon DEF A, B

\* The worst place is one of those that are left, and none is less significant.
LEMMA WorstIs ==
  ASSUME Typing, Arrays, Current, order /= {}
  PROVE  Worst \in Left /\ \A j \in Left : res[j].p <= res[Worst].p
<1>1. cps \in SUBSET Nat /\ Left \in SUBSET cps /\ Left /= {} /\ res \in [cps -> Test]
  BY DEF Typing, Arrays, Current
<1>2. PICK i \in Left : \A j \in Left \ {i} : Precedes(Key(res, i), Key(res, j))
  BY <1>1, FirstKey
<1>3. Key(res, i) \in order /\ \A l \in order \ {Key(res, i)} : Precedes(Key(res, i), l)
  <2>1. order = {Key(res, j) : j \in Left}
    BY DEF Current
  <2>2. \A l \in order \ {Key(res, i)} : \E j \in Left \ {i} : l = Key(res, j)
    BY <2>1
  <2> QED
    BY <1>2, <2>1, <2>2
<1> DEFINE first == CHOOSE k \in order : \A l \in order \ {k} : Precedes(k, l)
<1>4. first \in order /\ \A l \in order \ {first} : Precedes(first, l)
  BY <1>3
<1>5. Worst = first[3]
  BY DEF Worst
<1> HIDE DEF first
<1>6. PICK w \in Left : first = Key(res, w)
  BY <1>4 DEF Current
<1>7. Worst = w
  BY <1>5, <1>6 DEF Key
<1>8. ASSUME NEW j \in Left PROVE res[j].p <= res[w].p
  <2>1. res[j].p \in Nat /\ res[w].p \in Nat
    BY <1>1, DetectionAssumption DEF Test
  <2>2. Key(res, j) \in order
    BY DEF Current
  <2>3. CASE Key(res, j) = first
    BY <1>6, <2>1, <2>3 DEF Key
  <2>4. CASE Key(res, j) # first
    <3>1. Precedes(Key(res, w), Key(res, j))
      BY <1>4, <1>6, <2>2, <2>4
    <3> QED
      BY <2>1, <3>1 DEF Precedes, Key
  <2> QED
    BY <2>3, <2>4
<1> QED
  BY <1>7, <1>8

\* The keys in O are those of the places in L by the tests r.
AreKeys(O, r, L) == \A k : k \in O <=> \E i \in L : k = Key(r, i)

\* Keys of a place that went and of its neighbours are replaced by the new ones of the neighbours.
LEMMA KeysReplaced ==
  ASSUME NEW L, NEW w \in L, NEW nbs, nbs \subseteq L \ {w}, NEW r, NEW r2,
         \A i \in L \ {w} : i \notin nbs => Key(r2, i) = Key(r, i),
         NEW O, AreKeys(O, r, L), NEW G, AreKeys(G, r, nbs \union {w}), NEW N, AreKeys(N, r2, nbs)
  PROVE  AreKeys((O \ G) \union N, r2, L \ {w})
<1>1. \A i, j : Key(r, i) = Key(r, j) => i = j
  BY DEF Key
<1>2. ASSUME NEW k \in O \ G PROVE \E i \in L \ {w} : k = Key(r2, i)
  <2>1. PICK i \in L : k = Key(r, i)
    BY DEF AreKeys
  <2>2. i \notin nbs /\ i # w
    BY <2>1 DEF AreKeys
  <2> QED
    BY <2>1, <2>2
<1>3. ASSUME NEW k \in N PROVE \E i \in L \ {w} : k = Key(r2, i)
  BY DEF AreKeys
<1>4. ASSUME NEW i \in L \ {w} PROVE Key(r2, i) \in (O \ G) \union N
  <2>1. CASE i \in nbs
    BY <2>1 DEF AreKeys
  <2>2. CASE i \notin nbs
    <3>1. Key(r2, i) = Key(r, i) /\ Key(r, i) \in O
      BY <2>2 DEF AreKeys
    <3>2. Key(r, i) \notin G
      BY <1>1, <2>2 DEF AreKeys
    <3> QED
      BY <3>1, <3>2
  <2> QED
    BY <2>1, <2>2
<1> QED
  BY <1>2, <1>3, <1>4 DEF AreKeys

-----------------------------------------------------------------------------
(* The dominant segment. *)

LEMMA HalfIs ==
  ASSUME NEW n \in Nat
  PROVE  n \div 2 \in Nat /\ \A d \in Int : d > n \div 2 <=> 2 * d > n
  BY SMT

\* What is known after the k-th reading: where the segment under way begins, and either the segment that is
\* longer than half, or that no segment so far is.
VisitedTo(L, k, s) ==
  /\ s.begin \in {0, call.n} \union L /\ s.begin <= k
  /\ \A c \in L : ~(s.begin < c /\ c <= k)
  /\ s.longest \in (0 .. call.n) \X (0 .. call.n)
  /\ \/ /\ 2 * (s.longest[2] - s.longest[1]) > call.n
        /\ Adjacent(call.n, L, s.longest[1], s.longest[2])
     \/ /\ 2 * (s.longest[2] - s.longest[1]) <= call.n
        /\ \A a, b \in 0 .. call.n : Adjacent(call.n, L, a, b) /\ b <= k => 2 * (b - a) <= call.n

LEMMA VisitIs ==
  ASSUME call.n \in Nat, NEW L \in SUBSET (1 .. call.n - 1), NEW k \in 1 .. call.n, k \in L \union {call.n},
         NEW s, VisitedTo(L, k - 1, s)
  PROVE  VisitedTo(L, k, Visit(s, k))
<1> DEFINE n == call.n
           x == s.longest[1]
           y == s.longest[2]
<1>1. /\ s.begin \in {0, n} \union L /\ s.begin \in 0 .. n /\ s.begin < k /\ k \in Nat /\ k <= n
      /\ \A c \in L : c \in Nat /\ ~(s.begin < c /\ c < k)
      /\ s.longest \in (0 .. n) \X (0 .. n) /\ x \in 0 .. n /\ y \in 0 .. n /\ s.longest = <<x, y>>
  <2>1. s.begin \in {0, n} \union L /\ s.begin <= k - 1 /\ k \in Nat /\ k <= n
    BY DEF VisitedTo
  <2>2. s.begin \in 0 .. n /\ s.begin < k
    <3>1. \A c \in {0, call.n} \union L : c \in 0 .. call.n
      OBVIOUS
    <3>2. s.begin \in 0 .. call.n
      BY <2>1, <3>1
    <3> QED
      BY <2>1, <3>2
  <2>3. \A c \in L : c \in Nat /\ ~(s.begin < c /\ c < k)
    <3>1. \A c \in L : c \in Nat /\ ~(s.begin < c /\ c <= k - 1)
      BY DEF VisitedTo
    <3> QED
      BY <2>1, <3>1
  <2>4. s.longest \in (0 .. n) \X (0 .. n)
    BY DEF VisitedTo
  <2> QED
    BY <2>1, <2>2, <2>3, <2>4
<1>2. Adjacent(n, L, s.begin, k)
  BY <1>1 DEF Adjacent
<1>3. ASSUME NEW a \in 0 .. n, NEW b \in 0 .. n, Adjacent(n, L, a, b), b <= k
      PROVE  b <= k - 1 \/ (a = s.begin /\ b = k)
  <2>1. CASE b /= k
    BY <1>1, <1>3, <2>1
  <2>2. CASE b = k
    <3>1. /\ a \in {0, n} \union L /\ a < k /\ \A c \in L : ~(a < c /\ c < k)
      BY <1>3, <2>2 DEF Adjacent
    <3>2. ~(a < s.begin)
      BY <1>1, <3>1
    <3>3. ~(s.begin < a)
      BY <1>1, <3>1
    <3> QED
      BY <1>1, <2>2, <3>2, <3>3
  <2> QED
    BY <2>1, <2>2
<1>4. /\ n \div 2 \in Nat
      /\ 2 * (y - x) > n <=> y - x > n \div 2
  BY <1>1, HalfIs
<1> DEFINE longer == y - x <= n \div 2 /\ k - s.begin > y - x
           v == Visit(s, k)
<1>5. v.begin = k /\ v.longest = IF longer THEN <<s.begin, k>> ELSE <<x, y>>
  BY <1>1 DEF Visit
<1>6. /\ v.begin \in {0, n} \union L /\ v.begin <= k
      /\ \A c \in L : ~(v.begin < c /\ c <= k)
      /\ v.longest \in (0 .. n) \X (0 .. n)
  BY <1>1, <1>5
<1>7. CASE y - x > n \div 2
  <2>1. v.longest = <<x, y>> /\ 2 * (y - x) > n
    BY <1>1, <1>4, <1>5, <1>7
  <2>2. Adjacent(n, L, x, y)
    BY <1>1, <2>1 DEF VisitedTo
  <2> QED
    BY <1>6, <2>1, <2>2 DEF VisitedTo
<1>8. CASE ~(y - x > n \div 2)
  <2>1. 2 * (y - x) <= n
    BY <1>1, <1>4, <1>8
  <2>2. \A a, b \in 0 .. n : Adjacent(n, L, a, b) /\ b <= k - 1 => 2 * (b - a) <= n
    BY <2>1, <1>1 DEF VisitedTo
  <2>3. CASE longer /\ 2 * (k - s.begin) > n
    BY <1>2, <1>5, <1>6, <2>3 DEF VisitedTo
  <2>4. CASE ~(2 * (k - s.begin) > n)
    <3>1. \A a, b \in 0 .. n : Adjacent(n, L, a, b) /\ b <= k => 2 * (b - a) <= n
      BY <1>1, <1>3, <2>2, <2>4
    <3>2. 2 * (v.longest[2] - v.longest[1]) <= n
      BY <1>1, <1>5, <2>1, <2>4
    <3> QED
      BY <1>6, <3>1, <3>2 DEF VisitedTo
  <2>5. CASE ~longer /\ 2 * (k - s.begin) > n
    BY <1>1, <1>4, <1>8, <2>1, <2>5
  <2> QED
    BY <2>3, <2>4, <2>5
<1> QED
  BY <1>7, <1>8

LEMMA PassIs ==
  ASSUME call.n \in Nat, NEW L \in SUBSET (1 .. call.n - 1), NEW k \in 1 .. call.n, k \notin L \union {call.n},
         NEW s, VisitedTo(L, k - 1, s)
  PROVE  VisitedTo(L, k, s)
<1>1. \A a, b \in 0 .. call.n : Adjacent(call.n, L, a, b) /\ b <= k => b <= k - 1
  BY DEF Adjacent
<1>2. s.begin <= k - 1 /\ s.begin <= k
  <2>1. s.begin \in {0, call.n} \union L /\ s.begin <= k - 1
    BY DEF VisitedTo
  <2>2. s.begin \in Nat
    <3>1. \A c \in {0, call.n} \union L : c \in Nat
      OBVIOUS
    <3> QED
      BY <2>1, <3>1
  <2> QED
    BY <2>1, <2>2
<1>3. \A c \in L : ~(s.begin < c /\ c <= k)
  BY DEF VisitedTo
<1> QED
  BY <1>1, <1>2, <1>3 DEF VisitedTo

NothingVisited == [begin |-> 0, longest |-> <<0, 0>>]

\* The visits of the first m readings.
AreVisits(L, m, f) ==
  f = [k \in 0 .. m |-> IF k = 0 THEN NothingVisited
                        ELSE IF k \in L \union {call.n} THEN Visit(f[k - 1], k) ELSE f[k - 1]]

LEMMA VisitsThere ==
  ASSUME call.n \in Nat, NEW L PROVE AreVisits(L, call.n, Visits(L))
<1> DEFINE missing == {m \in 0 .. call.n : ~\E f : AreVisits(L, m, f)}
<1>1. missing = {}
  <2>1. SUFFICES ASSUME missing /= {} PROVE FALSE
    OBVIOUS
  <2>2. PICK m \in missing : \A l \in missing : m <= l
    <3>1. missing \in SUBSET Nat
      OBVIOUS
    <3> HIDE DEF missing
    <3> QED
      BY <2>1, <3>1, Least
  <2>3. m \in 0 .. call.n /\ ~\E f : AreVisits(L, m, f)
    OBVIOUS
  <2>4. \A l \in 0 .. call.n : l < m => \E f : AreVisits(L, l, f)
    BY <2>2, <2>3
  <2> HIDE DEF missing
  <2>5. CASE m = 0
    <3> DEFINE f == [k \in 0 .. m |-> NothingVisited]
    <3>1. AreVisits(L, m, f)
      BY <2>5 DEF AreVisits
    <3> QED
      BY <2>3, <3>1
  <2>6. CASE m /= 0
    <3>1. m - 1 \in 0 .. call.n /\ m - 1 < m
      BY <2>3, <2>6
    <3>2. PICK f : AreVisits(L, m - 1, f)
      BY <2>4, <3>1
    <3> DEFINE last == IF m \in L \union {call.n} THEN Visit(f[m - 1], m) ELSE f[m - 1]
               g == [k \in 0 .. m |-> IF k = m THEN last ELSE f[k]]
               val(h, k) == IF k = 0 THEN NothingVisited
                            ELSE IF k \in L \union {call.n} THEN Visit(h[k - 1], k) ELSE h[k - 1]
    <3>3. \A k \in 0 .. m - 1 : f[k] = val(f, k)
      BY <3>2 DEF AreVisits
    <3>4. \A k \in 0 .. m - 1 : g[k] = f[k]
      BY <2>3
    <3>5. g[m] = last
      BY <2>3
    <3>6. \A k \in 0 .. m : g[k] = val(g, k)
      <4> SUFFICES ASSUME NEW k \in 0 .. m PROVE g[k] = val(g, k)
        OBVIOUS
      <4> HIDE DEF g
      <4>1. CASE k = m
        <5>1. g[m - 1] = f[m - 1]
          BY <2>3, <2>6, <3>4
        <5> QED
          BY <2>6, <3>5, <4>1, <5>1
      <4>2. CASE k /= m
        <5>1. k \in 0 .. m - 1 /\ (k /= 0 => k - 1 \in 0 .. m - 1)
          BY <2>3, <4>2
        <5>2. g[k] = val(f, k)
          BY <3>3, <3>4, <5>1
        <5>3. k /= 0 => g[k - 1] = f[k - 1]
          BY <3>4, <5>1
        <5> QED
          BY <5>2, <5>3
      <4> QED
        BY <4>1, <4>2
    <3>7. AreVisits(L, m, g)
      <4>1. g = [k \in 0 .. m |-> g[k]]
        OBVIOUS
      <4> HIDE DEF g
      <4> QED
        BY <3>6, <4>1 DEF AreVisits
    <3> QED
      BY <2>3, <3>7
  <2> QED
    BY <2>5, <2>6
<1>2. \E f : AreVisits(L, call.n, f)
  BY <1>1
<1> QED
  BY <1>2 DEF AreVisits, Visits, NothingVisited

LEMMA VisitsAre ==
  ASSUME call.n \in Nat, NEW L \in SUBSET (1 .. call.n - 1)
  PROVE  VisitedTo(L, call.n, Visits(L)[call.n])
<1>1. PICK f : f = Visits(L) /\ AreVisits(L, call.n, f)
  BY VisitsThere
<1> DEFINE bad == {k \in 0 .. call.n : ~VisitedTo(L, k, f[k])}
<1>2. bad = {}
  <2>1. SUFFICES ASSUME bad /= {} PROVE FALSE
    OBVIOUS
  <2>2. PICK k \in bad : \A l \in bad : k <= l
    <3>1. bad \in SUBSET Nat
      OBVIOUS
    <3> HIDE DEF bad
    <3> QED
      BY <2>1, <3>1, Least
  <2>3. k \in 0 .. call.n /\ ~VisitedTo(L, k, f[k])
    OBVIOUS
  <2>4. \A l \in 0 .. call.n : l < k => VisitedTo(L, l, f[l])
    BY <2>2, <2>3
  <2> HIDE DEF bad
  <2>5. CASE k = 0
    <3>1. f[k] = NothingVisited
      BY <1>1, <2>3, <2>5 DEF AreVisits
    <3>2. \A a, b \in 0 .. call.n : Adjacent(call.n, L, a, b) => b > 0
      BY DEF Adjacent
    <3>3. VisitedTo(L, 0, NothingVisited)
      BY <3>2 DEF VisitedTo, NothingVisited
    <3> QED
      BY <2>3, <2>5, <3>1, <3>3
  <2>6. CASE k /= 0
    <3>1. k \in 1 .. call.n /\ k - 1 \in 0 .. call.n /\ k - 1 < k
      BY <2>3, <2>6
    <3>2. PICK s : s = f[k - 1] /\ VisitedTo(L, k - 1, s)
      BY <2>4, <3>1
    <3>3. f[k] = IF k \in L \union {call.n} THEN Visit(s, k) ELSE s
      BY <1>1, <2>3, <2>6, <3>2 DEF AreVisits
    <3> QED
      BY <2>3, <3>1, <3>2, <3>3, VisitIs, PassIs
  <2> QED
    BY <2>5, <2>6
<1>3. call.n \in 0 .. call.n
  OBVIOUS
<1>4. VisitedTo(L, call.n, f[call.n])
  BY <1>2, <1>3
<1> QED
  BY <1>1, <1>4

\* The segment that is longer than half, if there is one, and no other.
DominantAmong(L, reply) ==
  /\ reply[1] \in {"segment", "ERR_NO_DOMINANT_SEGMENT"}
  /\ {s \in Segments(L) : 2 * (s[2] - s[1]) > call.n} = IF reply[1] = "segment" THEN {reply[2]} ELSE {}

LEMMA DominantIs ==
  ASSUME call.n \in Nat, NEW L \in SUBSET (1 .. call.n - 1)
  PROVE  DominantAmong(L, Dominant(L))
<1>1. PICK s : s = Visits(L)[call.n] /\ VisitedTo(L, call.n, s)
  BY VisitsAre
<1>2. PICK x \in 0 .. call.n, y \in 0 .. call.n : s.longest = <<x, y>>
  BY <1>1 DEF VisitedTo
<1>3. Dominant(L) = IF 2 * (y - x) > call.n THEN <<"segment", <<x, y>>>> ELSE <<"ERR_NO_DOMINANT_SEGMENT">>
  <2>1. y - x > call.n \div 2 <=> 2 * (y - x) > call.n
    BY HalfIs
  <2> QED
    BY <1>1, <1>2, <2>1 DEF Dominant
<1>4. \A p \in Segments(L) : /\ p = <<p[1], p[2]>> /\ Adjacent(call.n, L, p[1], p[2])
                             /\ p[1] \in 0 .. call.n /\ p[2] \in 0 .. call.n
  <2>1. \A p \in Segments(L) : p = <<p[1], p[2]>>
    BY DEF Segments
  <2> QED
    BY <2>1, SegmentsAre DEF Adjacent
<1>5. CASE 2 * (y - x) > call.n
  <2>1. Adjacent(call.n, L, x, y)
    BY <1>1, <1>2, <1>5 DEF VisitedTo
  <2>2. <<x, y>> \in Segments(L)
    BY <2>1, SegmentsAre
  <2>3. ASSUME NEW p \in Segments(L), 2 * (p[2] - p[1]) > call.n PROVE p = <<x, y>>
    <3>1. PICK a \in 0 .. call.n, b \in 0 .. call.n : p = <<a, b>> /\ Adjacent(call.n, L, a, b)
      BY <1>4
    <3>2. 2 * (b - a) > call.n
      BY <2>3, <3>1
    <3>3. a < y /\ x < b
      BY <1>5, <3>2
    <3>4. /\ \A c \in {0, call.n} \union L : c \in 0 .. call.n /\ ~(a < c /\ c < b) /\ ~(x < c /\ c < y)
          /\ {a, b, x, y} \subseteq {0, call.n} \union L
      BY <2>1, <3>1 DEF Adjacent
    <3>5. a = x /\ b = y
      BY <3>3, <3>4
    <3> QED
      BY <3>1, <3>5
  <2> QED
    BY <1>3, <1>5, <2>2, <2>3 DEF DominantAmong
<1>6. CASE ~(2 * (y - x) > call.n)
  <2>1. \A a, b \in 0 .. call.n : Adjacent(call.n, L, a, b) /\ b <= call.n => 2 * (b - a) <= call.n
    BY <1>1, <1>2, <1>6 DEF VisitedTo
  <2>2. \A p \in Segments(L) : ~(2 * (p[2] - p[1]) > call.n)
    BY <1>4, <2>1
  <2> QED
    BY <1>3, <1>6, <2>2 DEF DominantAmong
<1> QED
  BY <1>5, <1>6

LEMMA ReplyIs ==
  ASSUME Typing, NEW L \in SUBSET (1 .. call.n - 1)
  PROVE  /\ Reply(L)[1] = "places" => Reply(L)[2] = L
         /\ Reply(L)[1] = "place" => Reply(L)[2] \in L /\ \A i \in L : i <= Reply(L)[2]
         /\ call.name = "dominant" => DominantAmong(L, Reply(L))
<1>1. call.name \in {"all", "dominant", "last"} /\ call.n \in Nat
  BY DEF Typing
<1>2. CASE call.name = "all"
  BY <1>2 DEF Reply
<1>3. CASE call.name = "dominant"
  <2>1. Reply(L) = Dominant(L)
    BY <1>3 DEF Reply
  <2>2. DominantAmong(L, Dominant(L))
    BY <1>1, DominantIs
  <2>3. Dominant(L)[1] \in {"segment", "ERR_NO_DOMINANT_SEGMENT"}
    BY <2>2 DEF DominantAmong
  <2> QED
    BY <1>3, <2>1, <2>2, <2>3
<1>4. CASE call.name = "last"
  <2>1. CASE L = {}
    BY <1>4, <2>1 DEF Reply
  <2>2. CASE L /= {}
    <3>1. Reply(L) = <<"place", Max(L)>>
      BY <1>4, <2>2 DEF Reply
    <3>2. L \in SUBSET Nat /\ \A y \in L : y <= call.n
      BY <1>1
    <3>3. Max(L) \in L /\ \A y \in L : Max(L) >= y
      BY <1>1, <2>2, <3>2, MaxIs
    <3> QED
      BY <1>4, <3>1, <3>2, <3>3
  <2> QED
    BY <2>1, <2>2
<1> QED
  BY <1>1, <1>2, <1>3, <1>4

LEMMA TestAllLinks == ASSUME Typing, LinkInv, TestAll PROVE LinkInv'
<1> DEFINE before(i) == Max({0} \union {j \in cps : j < i})
           after(i) == Min({call.n} \union {j \in cps : j > i})
<1>1. /\ prev' = [i \in cps |-> before(i)] /\ next' = [i \in cps |-> after(i)]
      /\ seen' = [i \in cps |-> <<before(i), after(i)>>]
      /\ res' \in [cps -> Test]
      /\ order' = {Key(res', i) : i \in cps}
      /\ phase' = "dispose" /\ cps' = cps /\ call' = call
  BY DEF TestAll, Test
<1>2. \A i \in cps : before(i) \in Nat /\ after(i) \in Nat
                     /\ Adjacent(call.n, cps, before(i), i) /\ Adjacent(call.n, cps, i, after(i))
  BY Neighbours DEF Typing
<1> HIDE DEF before, after
<1>3. Left' = cps
  <2>1. \A k \in order' : k[3] \in cps
    BY <1>1 DEF Key
  <2>2. \A i \in cps : Key(res', i) \in order'
    BY <1>1
  <2>3. \A i \in cps : Key(res', i)[3] = i
    BY DEF Key
  <2>4. Left' = {k[3] : k \in order'}
    BY DEF Left
  <2> QED
    BY <2>1, <2>2, <2>3, <2>4
<1>4. Arrays'
  BY <1>1, <1>2, <1>3 DEF Arrays
<1>5. Current'
  BY <1>1, <1>2, <1>3 DEF Current, Linked
<1> QED
  BY <1>1, <1>4, <1>5 DEF LinkInv, AnswerRight

LEMMA DisposeLinks == ASSUME Typing, LinkInv, Dispose PROVE LinkInv'
<1> DEFINE w == Worst
           before == prev[w]
           after == next[w]
           nbs == {before, after} \intersect cps
<1>1. Arrays /\ Current /\ order /= {} /\ phase' = "dispose" /\ cps' = cps /\ call' = call
  BY DEF Dispose, LinkInv, Insignificant
<1>2. w \in Left
  BY <1>1, WorstIs
<1>3. PICK again \in {r \in [nbs -> [p : PLevels, t : TLevels]] :
                        \A i \in nbs : r[i] \in Verdicts(prev'[i], i, next'[i])} :
        res' = [i \in cps |-> IF i \in nbs THEN again[i] ELSE res[i]]
  BY DEF Dispose
<1>4. /\ next' = IF before \in cps THEN [next EXCEPT ![before] = after] ELSE next
      /\ prev' = IF after \in cps THEN [prev EXCEPT ![after] = before] ELSE prev
      /\ seen' = [i \in cps |-> IF i \in nbs THEN <<prev'[i], next'[i]>> ELSE seen[i]]
      /\ order' = Reordered(w, nbs, res')
  BY DEF Dispose
<1>5. again \in [nbs -> Test]
  BY <1>3 DEF Test
<1> HIDE DEF w
<1>6. /\ call.n \in Nat /\ cps \in SUBSET (1 .. call.n - 1) /\ Left \in SUBSET cps
      /\ prev \in [cps -> Nat] /\ next \in [cps -> Nat] /\ res \in [cps -> Test]
      /\ Linked(call.n, Left, prev, next)
  BY <1>1 DEF Typing, Arrays, Current
<1>7. /\ Linked(call.n, Left \ {w}, prev', next')
      /\ prev' \in [cps -> Nat] /\ next' \in [cps -> Nat]
      /\ \A i \in Left \ {w} : i \notin {before, after} => prev'[i] = prev[i] /\ next'[i] = next[i]
  <2>1. prev' = Relink(cps, prev, next[w], prev[w]) /\ next' = Relink(cps, next, prev[w], next[w])
    BY <1>4 DEF Relink
  <2>2. Links(call.n, cps, Left, prev, next)
    BY <1>6 DEF Links
  <2>3. Unlinked(call.n, cps, Left, prev, next, w)
    BY <1>2, <2>2, Unlink
  <2>4. /\ Links(call.n, cps, Left \ {w}, prev', next')
        /\ \A i \in Left \ {w} : i \notin {prev[w], next[w]} => prev'[i] = prev[i] /\ next'[i] = next[i]
    BY <2>1, <2>3 DEF Unlinked
  <2> QED
    BY <2>4 DEF Links
<1>8. nbs \subseteq Left \ {w}
  <2>1. Adjacent(call.n, Left, before, w) /\ Adjacent(call.n, Left, w, after) /\ w \in Nat
    BY <1>2, <1>6 DEF Linked
  <2>2. 0 \notin cps /\ call.n \notin cps
    BY <1>6
  <2> QED
    BY <1>6, <2>1, <2>2 DEF Adjacent
<1>9. res' \in [cps -> Test] /\ \A i \in Left : i \notin nbs => res'[i] = res[i]
  BY <1>3, <1>5, <1>6
<1>10. order' = {Key(res', i) : i \in Left \ {w}}
  <2>1. PICK tests : tests = res'
    OBVIOUS
  <2>2. PICK O : O = order
    OBVIOUS
  <2>3. AreKeys(O, res, Left)
    BY <1>1, <2>2 DEF Current, AreKeys
  <2> DEFINE G == {Key(res, i) : i \in nbs \union {w}}
             N == {Key(tests, i) : i \in nbs}
  <2>4. order' = (O \ G) \union N
    BY <1>4, <2>1, <2>2 DEF Reordered, Key
  <2>5. \A i \in Left \ {w} : i \notin nbs => Key(tests, i) = Key(res, i)
    BY <1>9, <2>1 DEF Key
  <2> HIDE DEF nbs
  <2>6. AreKeys(G, res, nbs \union {w}) /\ AreKeys(N, tests, nbs)
    BY DEF AreKeys
  <2> HIDE DEF G, N
  <2>7. AreKeys((O \ G) \union N, tests, Left \ {w})
    BY <1>2, <1>8, <2>3, <2>5, <2>6, KeysReplaced
  <2>8. order' = {Key(tests, i) : i \in Left \ {w}}
    BY <2>4, <2>7 DEF AreKeys
  <2> QED
    BY <2>1, <2>8 DEF Key
<1>11. Left' = Left \ {w}
  <2>1. \A k \in order' : k[3] \in Left \ {w}
    BY <1>10 DEF Key
  <2>2. \A i \in Left \ {w} : Key(res', i) \in order'
    BY <1>10
  <2>3. \A i \in Left \ {w} : Key(res', i)[3] = i
    BY DEF Key
  <2>4. Left' = {k[3] : k \in order'}
    BY DEF Left
  <2> QED
    BY <2>1, <2>2, <2>3, <2>4
<1>12. \A i \in Left \ {w} : seen'[i] = <<prev'[i], next'[i]>>
  <2> SUFFICES ASSUME NEW i \in Left \ {w} PROVE seen'[i] = <<prev'[i], next'[i]>>
    OBVIOUS
  <2>1. i \in cps /\ seen[i] = <<prev[i], next[i]>>
    BY <1>1, <1>6 DEF Current
  <2>2. CASE i \in nbs
    BY <1>4, <2>1, <2>2
  <2>3. CASE i \notin nbs
    BY <1>4, <1>7, <2>1, <2>3
  <2> QED
    BY <2>2, <2>3
<1>13. Arrays'
  BY <1>1, <1>6, <1>7, <1>9, <1>11 DEF Arrays
<1>14. Current'
  BY <1>1, <1>7, <1>10, <1>11, <1>12 DEF Current
<1> QED
  BY <1>1, <1>13, <1>14 DEF LinkInv, AnswerRight

LEMMA FinishLinks == ASSUME Typing, LinkInv, Finish PROVE LinkInv'
<1>1. Arrays /\ Current /\ phase' = "done" /\ answer' = Reply(Left)
      /\ UNCHANGED <<call, cps, prev, next, res, order, seen>>
  BY DEF Finish, LinkInv, Left
<1>2. Left' = Left /\ Current'
  BY <1>1 DEF Left, Current
<1>3. \A i \in Left : res[i].p = 0
  <2>1. CASE order = {}
    BY <2>1, NoneLeft
  <2>2. CASE order /= {}
    <3>1. Worst \in Left /\ \A j \in Left : res[j].p <= res[Worst].p
      BY <1>1, <2>2, WorstIs
    <3>2. \A j \in Left : res[j].p \in Nat
      BY <1>1, DetectionAssumption DEF Arrays, Test
    <3>3. ~(res[Worst].p > 0)
      BY <2>2 DEF Finish, Insignificant
    <3> QED
      BY <3>1, <3>2, <3>3
  <2> QED
    BY <2>1, <2>2
<1>4. \A i \in Left : <<seen[i][1], i>> \in Segments(Left) /\ <<i, seen[i][2]>> \in Segments(Left)
  BY <1>1, SegmentsAre DEF Current, Linked
<1>5. Left \in SUBSET (1 .. call.n - 1)
  BY <1>1 DEF Typing, Arrays
<1>6. /\ Reply(Left)[1] = "places" => Reply(Left)[2] = Left
      /\ Reply(Left)[1] = "place" => Reply(Left)[2] \in Left /\ \A i \in Left : i <= Reply(Left)[2]
      /\ call.name = "dominant" => DominantAmong(Left, Reply(Left))
  BY <1>5, ReplyIs
<1>7. Segments(Left)' = Segments(Left)
  BY <1>1, <1>2 DEF Segments, Bounds
<1>8. AnswerRight'
  BY <1>1, <1>2, <1>3, <1>4, <1>6, <1>7 DEF AnswerRight, DominantAmong
<1> QED
  BY <1>1, <1>2, <1>8 DEF LinkInv

LEMMA LinkStep == ASSUME Typing, LinkInv, [Next]_vars PROVE LinkInv'
<1>1. CASE Call
  <2>1. order' = {} /\ phase' \in {"done", "propose"} /\ (phase' = "done" => answer' = <<"ERR_NOT_ENOUGH_DATA">>)
    BY <1>1 DEF Call, LinkInv
  <2>2. AnswerRight'
    BY <2>1 DEF AnswerRight
  <2> QED
    BY <2>1, <2>2, NoneLeftThen DEF LinkInv
<1>2. CASE Unusable
  <2>1. order = {} /\ order' = {} /\ phase' = "done" /\ answer' = Reply({})
    BY <1>2 DEF Unusable, LinkInv
  <2>2. /\ Reply({})[1] = "places" => Reply({})[2] = {}
        /\ Reply({})[1] = "place" => Reply({})[2] \in {}
        /\ call.name = "dominant" => DominantAmong({}, Reply({}))
    BY ReplyIs
  <2>3. Left' = {} /\ Current'
    BY <2>1, NoneLeftThen
  <2>4. call' = call /\ Segments({})' = Segments({})
    BY <1>2 DEF Unusable, Segments, Bounds
  <2>5. Segments(Left)' = Segments({})
    BY <2>3, <2>4 DEF Segments, Bounds
  <2>6. AnswerRight'
    BY <2>1, <2>2, <2>3, <2>4, <2>5 DEF AnswerRight, DominantAmong
  <2> QED
    BY <2>1, <2>3, <2>6 DEF LinkInv
<1>3. CASE Propose
  <2>1. order' = {} /\ phase' = "propose"
    BY <1>3 DEF Propose, LinkInv
  <2> QED
    BY <2>1 DEF LinkInv, AnswerRight
<1>4. CASE Return
  <2>1. order' = {} /\ phase' = "idle"
    BY <1>4 DEF Return
  <2> QED
    BY <2>1 DEF LinkInv, AnswerRight
<1>5. CASE UNCHANGED vars
  <2>1. UNCHANGED <<call, phase, cps, prev, next, res, order, answer, seen>>
    BY <1>5 DEF vars
  <2>2. Left' = Left /\ Segments(Left)' = Segments(Left)
    BY <2>1 DEF Left, Segments, Bounds
  <2> QED
    BY <2>1, <2>2 DEF LinkInv, Arrays, Current, AnswerRight
<1> QED
  BY <1>1, <1>2, <1>3, <1>4, <1>5, TestAllLinks, DisposeLinks, FinishLinks DEF Next, Detect

LEMMA LinkAlways == Spec => []LinkInv
<1>1. Init => LinkInv
  BY DEF Init, Idle, LinkInv, AnswerRight
<1>2. SplitInv => Typing
  BY DEF SplitInv
<1> QED
  BY <1>1, <1>2, LinkStep, SplitAlways, PTL DEF Spec

\* While places are taken out, each one left has one key, that of its last test, and this test was on the
\* two segments it has now, for any number of places and any order in which the tests take them out.
THEOREM TestsAreCurrent == Spec => []TestsCurrent
<1>1. ASSUME LinkInv PROVE TestsCurrent
  BY <1>1, SegmentsAre DEF LinkInv, Current, Linked, TestsCurrent
<1> QED
  BY <1>1, LinkAlways, PTL

\* An answer has only places that are significant against the segments next to them in it, and names all of
\* them, the last, or the one segment longer than half if there is one, whatever was proposed and taken out.
THEOREM AnswersAreRight == Spec => []AnswerRight
<1>1. LinkInv => AnswerRight
  BY DEF LinkInv
<1> QED
  BY <1>1, LinkAlways, PTL
-----------------------------------------------------------------------------
(* The numbers of the work-per-second analysis. *)

\* The greatest common divisors of all pairs of which the second is at most m.
AreDivisors(m, f) ==
  f = [p \in Nat \X (0 .. m) |-> IF p[2] = 0 THEN p[1] ELSE f[<<p[2], p[1] % p[2]>>]]

LEMMA DivisorsThere == ASSUME NEW m \in Nat PROVE \E f : AreDivisors(m, f)
<1> DEFINE missing == {k \in Nat : ~\E f : AreDivisors(k, f)}
<1>1. SUFFICES ASSUME missing /= {} PROVE FALSE
  OBVIOUS
<1>2. PICK k \in missing : \A l \in missing : k <= l
  <2>1. missing \in SUBSET Nat
    OBVIOUS
  <2> HIDE DEF missing
  <2> QED
    BY <1>1, <2>1, Least
<1>3. k \in Nat /\ ~\E f : AreDivisors(k, f)
  OBVIOUS
<1>4. \A l \in Nat : l < k => \E f : AreDivisors(l, f)
  BY <1>2, <1>3
<1> HIDE DEF missing
<1>5. CASE k = 0
  <2> DEFINE f == [p \in Nat \X (0 .. k) |-> p[1]]
  <2>1. AreDivisors(k, f)
    BY <1>5 DEF AreDivisors
  <2> QED
    BY <1>3, <2>1
<1>6. CASE k > 0
  <2>1. PICK f : AreDivisors(k - 1, f)
    BY <1>3, <1>4, <1>6
  <2> DEFINE g == [p \in Nat \X (0 .. k) |-> IF p[2] = 0 THEN p[1] ELSE f[<<p[2], p[1] % p[2]>>]]
  <2>2. ASSUME NEW p \in Nat \X (0 .. k), p[2] /= 0 PROVE g[<<p[2], p[1] % p[2]>>] = f[<<p[2], p[1] % p[2]>>]
    <3>1. p[1] \in Nat /\ p[2] \in 1 .. k /\ p[1] % p[2] \in 0 .. k - 1
      BY <1>3, <2>2
    <3> DEFINE q == <<p[2], p[1] % p[2]>>
    <3>2. q \in Nat \X (0 .. k - 1) /\ q \in Nat \X (0 .. k)
      BY <1>3, <3>1
    <3> HIDE DEF q
    <3>3. g[q] = IF q[2] = 0 THEN q[1] ELSE f[<<q[2], q[1] % q[2]>>]
      BY <3>2
    <3>4. f[q] = IF q[2] = 0 THEN q[1] ELSE f[<<q[2], q[1] % q[2]>>]
      BY <2>1, <3>2, Zenon DEF AreDivisors
    <3> QED
      BY <3>3, <3>4 DEF q
  <2>3. g = [p \in Nat \X (0 .. k) |-> IF p[2] = 0 THEN p[1] ELSE g[<<p[2], p[1] % p[2]>>]]
    BY <2>2
  <2> HIDE DEF g
  <2>4. AreDivisors(k, g)
    BY <2>3 DEF AreDivisors
  <2> QED
    BY <1>3, <2>4
<1> QED
  BY <1>3, <1>5, <1>6

LEMMA DivisorsAgree ==
  ASSUME NEW m \in Nat, NEW k \in Nat, NEW f, NEW g, AreDivisors(m, f), AreDivisors(k, g), NEW a \in Nat, NEW b \in Nat,
         b <= m, b <= k
  PROVE  f[<<a, b>>] = g[<<a, b>>]
<1> DEFINE wrong == {n \in Nat : n <= m /\ n <= k /\ \E x \in Nat : f[<<x, n>>] /= g[<<x, n>>]}
<1>1. SUFFICES ASSUME wrong /= {} PROVE FALSE
  OBVIOUS
<1>2. PICK n \in wrong : \A l \in wrong : n <= l
  <2>1. wrong \in SUBSET Nat
    OBVIOUS
  <2> HIDE DEF wrong
  <2> QED
    BY <1>1, <2>1, Least
<1>3. PICK x \in Nat : f[<<x, n>>] /= g[<<x, n>>]
  OBVIOUS
<1>4. n \in Nat /\ n <= m /\ n <= k
  OBVIOUS
<1>5. \A l \in Nat : l < n => \A y \in Nat : f[<<y, l>>] = g[<<y, l>>]
  BY <1>2, <1>4
<1> HIDE DEF wrong
<1>6. \A p \in Nat \X (0 .. m) : f[p] = IF p[2] = 0 THEN p[1] ELSE f[<<p[2], p[1] % p[2]>>]
  BY Zenon DEF AreDivisors
<1>7. \A p \in Nat \X (0 .. k) : g[p] = IF p[2] = 0 THEN p[1] ELSE g[<<p[2], p[1] % p[2]>>]
  BY Zenon DEF AreDivisors
<1>8. /\ f[<<x, n>>] = IF n = 0 THEN x ELSE f[<<n, x % n>>]
      /\ g[<<x, n>>] = IF n = 0 THEN x ELSE g[<<n, x % n>>]
  <2>1. <<x, n>> \in Nat \X (0 .. m) /\ <<x, n>> \in Nat \X (0 .. k)
    BY <1>4
  <2> QED
    BY <1>6, <1>7, <2>1
<1>9. CASE n > 0
  <2>1. x % n \in Nat /\ x % n < n
    BY <1>4, <1>9
  <2> QED
    BY <1>3, <1>4, <1>5, <1>8, <1>9, <2>1
<1> QED
  BY <1>3, <1>4, <1>8, <1>9

\* The algorithm of Euclid, as a function of all pairs.
LEMMA EuclidIs ==
  \A p \in Nat \X Nat : WA!gcd[p] = IF p[2] = 0 THEN p[1] ELSE WA!gcd[<<p[2], p[1] % p[2]>>]
<1> DEFINE of(m) == CHOOSE f : AreDivisors(m, f)
           g == [p \in Nat \X Nat |-> of(p[2])[p]]
<1>1. \A m \in Nat : AreDivisors(m, of(m))
  BY DivisorsThere
<1> HIDE DEF of
<1>2. ASSUME NEW p \in Nat \X Nat PROVE g[p] = IF p[2] = 0 THEN p[1] ELSE g[<<p[2], p[1] % p[2]>>]
  <2> DEFINE m == p[2]
             r == p[1] % p[2]
  <2>1. p[1] \in Nat /\ m \in Nat /\ p \in Nat \X (0 .. m) /\ p = <<p[1], m>>
    OBVIOUS
  <2>2. of(m)[p] = IF m = 0 THEN p[1] ELSE of(m)[<<m, r>>]
    BY <1>1, <2>1, Zenon DEF AreDivisors
  <2>3. CASE m > 0
    <3>1. r \in Nat /\ r <= m
      BY <2>1, <2>3
    <3> HIDE DEF r, m
    <3>2. of(m)[<<m, r>>] = of(r)[<<m, r>>]
      BY <1>1, <2>1, <3>1, DivisorsAgree
    <3>3. <<m, r>> \in Nat \X Nat /\ g[<<m, r>>] = of(r)[<<m, r>>]
      BY <2>1, <3>1
    <3>4. g[p] = of(m)[p]
      BY DEF m
    <3> QED
      BY <2>2, <2>3, <3>2, <3>3, <3>4 DEF m, r
  <2>4. CASE m = 0
    BY <2>2, <2>4
  <2> QED
    BY <2>1, <2>3, <2>4
<1>3. g = [p \in Nat \X Nat |-> IF p[2] = 0 THEN p[1] ELSE g[<<p[2], p[1] % p[2]>>]]
  BY <1>2
<1> HIDE DEF g
<1>4. \E f : f = [p \in Nat \X Nat |-> IF p[2] = 0 THEN p[1] ELSE f[<<p[2], p[1] % p[2]>>]]
  BY <1>3
<1>5. WA!gcd = [p \in Nat \X Nat |-> IF p[2] = 0 THEN p[1] ELSE WA!gcd[<<p[2], p[1] % p[2]>>]]
  BY <1>4, Zenon DEF WA!gcd
<1> QED
  BY <1>5, Zenon

LEMMA DivisorIs ==
  ASSUME NEW a \in Nat, NEW b \in Nat \ {0} PROVE WA!gcd[<<a, b>>] \in 1 .. b
<1> DEFINE wrong == {n \in Nat : n > 0 /\ \E x \in Nat : WA!gcd[<<x, n>>] \notin 1 .. n}
<1>1. SUFFICES ASSUME wrong /= {} PROVE FALSE
  OBVIOUS
<1>2. PICK n \in wrong : \A l \in wrong : n <= l
  <2>1. wrong \in SUBSET Nat
    OBVIOUS
  <2> HIDE DEF wrong
  <2> QED
    BY <1>1, <2>1, Least
<1>3. PICK x \in Nat : WA!gcd[<<x, n>>] \notin 1 .. n
  OBVIOUS
<1>4. n \in Nat /\ n > 0
  OBVIOUS
<1>5. ASSUME NEW l \in Nat, 0 < l, l < n, NEW y \in Nat PROVE WA!gcd[<<y, l>>] \in 1 .. l
  <2>1. l \notin wrong
    <3> HIDE DEF wrong
    <3> QED
      BY <1>2, <1>4, <1>5
  <2> QED
    BY <2>1, <1>5
<1> HIDE DEF wrong
<1>6. x % n \in Nat /\ x % n < n
  BY <1>4
<1>7. WA!gcd[<<x, n>>] = WA!gcd[<<n, x % n>>]
  <2>1. <<x, n>> \in Nat \X Nat
    BY <1>4
  <2> QED
    BY <1>4, <2>1, EuclidIs
<1>8. CASE x % n = 0
  <2>1. <<n, x % n>> \in Nat \X Nat
    BY <1>4, <1>6
  <2>2. WA!gcd[<<n, x % n>>] = n
    BY <1>8, <2>1, EuclidIs
  <2> QED
    BY <1>3, <1>4, <1>7, <2>2
<1>9. CASE x % n > 0
  <2>1. WA!gcd[<<n, x % n>>] \in 1 .. x % n
    BY <1>4, <1>5, <1>6, <1>9
  <2> QED
    BY <1>3, <1>4, <1>6, <1>7, <2>1
<1> QED
  BY <1>6, <1>8, <1>9

Fraction == Int \X (Nat \ {0})

LEMMA RatIs == ASSUME NEW a \in Int, NEW b \in Int, b /= 0 PROVE WA!Rat(a, b) \in Fraction
<1> DEFINE g == WA!Gcd(a, b)
<1>1. WA!Abs(a) \in Nat /\ WA!Abs(b) \in Nat \ {0} /\ (b > 0 => WA!Abs(b) = b) /\ (b < 0 => WA!Abs(b) = -b)
  BY DEF WA!Abs
<1>2. g \in 1 .. WA!Abs(b)
  BY <1>1, DivisorIs DEF WA!Gcd
<1> HIDE DEF g
<1>3. CASE b > 0
  <2>1. a \div g \in Int /\ b \div g \in Nat \ {0}
    BY <1>1, <1>2, <1>3
  <2> QED
    BY <1>3, <2>1 DEF WA!Rat, WA!Over, Fraction, g
<1>4. CASE b < 0
  <2>1. /\ (-a) \div g \in Int /\ (-b) \div g \in Nat \ {0}
        /\ -(a \div g) \in Int /\ -(b \div g) \in Nat \ {0}
    BY <1>1, <1>2, <1>4
  <2> QED
    BY <1>4, <2>1 DEF WA!Rat, WA!Over, Fraction, g
<1> QED
  BY <1>3, <1>4

LEMMA NegIs == ASSUME NEW x \in Fraction PROVE WA!Neg(x) \in Fraction
  BY DEF WA!Neg, Fraction

LEMMA TimesIs == ASSUME NEW x \in Fraction, NEW y \in Fraction PROVE WA!Times(x, y) \in Fraction
<1>1. x[1] * y[1] \in Int /\ x[2] * y[2] \in Nat \ {0}
  BY DEF Fraction
<1> QED
  BY <1>1 DEF WA!Times, Fraction

LEMMA MulIs == ASSUME NEW x \in Fraction, NEW y \in Fraction PROVE WA!Mul(x, y) \in Fraction
<1>1. WA!Rat(x[1], y[2]) \in Fraction /\ WA!Rat(y[1], x[2]) \in Fraction
  <2>1. x[1] \in Int /\ y[1] \in Int /\ x[2] \in Int /\ y[2] \in Int /\ x[2] /= 0 /\ y[2] /= 0
    BY DEF Fraction
  <2> QED
    BY <2>1, RatIs
<1> QED
  BY <1>1, TimesIs DEF WA!Mul

LEMMA AddIs == ASSUME NEW x \in Fraction, NEW y \in Fraction PROVE WA!Add(x, y) \in Fraction
<1> DEFINE g == WA!Gcd(x[2], y[2])
           k == y[2] \div g
<1>1. x[1] \in Int /\ y[1] \in Int /\ x[2] \in Nat \ {0} /\ y[2] \in Nat \ {0}
  BY DEF Fraction
<1>2. g \in 1 .. y[2]
  BY <1>1, DivisorIs DEF WA!Gcd, WA!Abs
<1> HIDE DEF g
<1>3. k \in Nat \ {0} /\ x[2] \div g \in Int
  BY <1>1, <1>2
<1> HIDE DEF k
<1>4. x[1] * k + y[1] * (x[2] \div g) \in Int /\ x[2] * k \in Int /\ x[2] * k /= 0
  BY <1>1, <1>3
<1> QED
  BY <1>4, RatIs DEF WA!Add, WA!AddOver, g, k

LEMMA SubIs == ASSUME NEW x \in Fraction, NEW y \in Fraction PROVE WA!Sub(x, y) \in Fraction
  BY NegIs, AddIs DEF WA!Sub

LEMMA InvIs == ASSUME NEW x \in Fraction, x[1] /= 0 PROVE WA!Inv(x) \in Fraction
<1>1. x[1] \in Int /\ x[2] \in Nat \ {0}
  BY DEF Fraction
<1>2. /\ x[2] \div 1 = x[2] /\ x[1] \div 1 = x[1]
      /\ (-x[2]) \div 1 = -x[2] /\ (-x[1]) \div 1 = -x[1]
  BY <1>1
<1> QED
  BY <1>1, <1>2 DEF WA!Inv, WA!Over, Fraction

LEMMA DivIs == ASSUME NEW x \in Fraction, NEW y \in Fraction, y[1] /= 0 PROVE WA!Div(x, y) \in Fraction
  BY InvIs, MulIs DEF WA!Div

LEMMA FloorIs == ASSUME NEW x \in Fraction PROVE WA!FloorRat(x) \in Int
  BY DEF WA!FloorRat, Fraction

LEMMA WholeIs == ASSUME NEW i \in Int PROVE WA!Whole(i) \in Fraction
  BY DEF WA!Whole, Fraction

-----------------------------------------------------------------------------
(* Sums and means. *)

AreSums(xs, n, f) == f = [i \in 0 .. n |-> IF i = 0 THEN WA!Zero ELSE WA!Add(f[i - 1], xs[i])]

LEMMA SumsThere == ASSUME NEW xs, NEW n \in Nat PROVE \E f : AreSums(xs, n, f)
<1> DEFINE missing == {k \in Nat : ~\E f : AreSums(xs, k, f)}
<1>1. SUFFICES ASSUME missing /= {} PROVE FALSE
  OBVIOUS
<1>2. PICK k \in missing : \A l \in missing : k <= l
  <2>1. missing \in SUBSET Nat
    OBVIOUS
  <2> HIDE DEF missing
  <2> QED
    BY <1>1, <2>1, Least
<1>3. k \in Nat /\ ~\E f : AreSums(xs, k, f)
  OBVIOUS
<1>4. \A l \in Nat : l < k => \E f : AreSums(xs, l, f)
  BY <1>2, <1>3
<1> HIDE DEF missing
<1>5. CASE k = 0
  <2> DEFINE f == [i \in 0 .. k |-> WA!Zero]
  <2>1. AreSums(xs, k, f)
    BY <1>5 DEF AreSums
  <2> QED
    BY <1>3, <2>1
<1>6. CASE k > 0
  <2>1. PICK f : AreSums(xs, k - 1, f)
    BY <1>3, <1>4, <1>6
  <2> DEFINE g == [i \in 0 .. k |-> IF i = 0 THEN WA!Zero ELSE WA!Add(f[i - 1], xs[i])]
  <2>2. \A i \in 0 .. k - 1 : g[i] = f[i]
    <3>1. \A i \in 0 .. k - 1 : i \in 0 .. k /\ f[i] = IF i = 0 THEN WA!Zero ELSE WA!Add(f[i - 1], xs[i])
      BY <1>3, <2>1 DEF AreSums
    <3> QED
      BY <3>1
  <2>3. \A i \in 0 .. k : i /= 0 => g[i - 1] = f[i - 1]
    BY <1>3, <2>2
  <2>4. g = [i \in 0 .. k |-> IF i = 0 THEN WA!Zero ELSE WA!Add(g[i - 1], xs[i])]
    BY <2>3
  <2> HIDE DEF g
  <2>5. AreSums(xs, k, g)
    BY <2>4 DEF AreSums
  <2> QED
    BY <1>3, <2>5
<1> QED
  BY <1>3, <1>5, <1>6

LEMMA SumsAre ==
  ASSUME NEW xs \in Seq(Fraction), NEW f, AreSums(xs, Len(xs), f)
  PROVE  \A i \in 0 .. Len(xs) : f[i] \in Fraction
<1> DEFINE wrong == {i \in 0 .. Len(xs) : f[i] \notin Fraction}
<1>1. SUFFICES ASSUME wrong /= {} PROVE FALSE
  OBVIOUS
<1>2. PICK i \in wrong : \A l \in wrong : i <= l
  <2>1. wrong \in SUBSET Nat
    OBVIOUS
  <2> HIDE DEF wrong
  <2> QED
    BY <1>1, <2>1, Least
<1>3. i \in 0 .. Len(xs) /\ f[i] \notin Fraction
  OBVIOUS
<1>4. f[i] = IF i = 0 THEN WA!Zero ELSE WA!Add(f[i - 1], xs[i])
  BY <1>3 DEF AreSums
<1>5. CASE i = 0
  BY <1>3, <1>4, <1>5, WholeIs DEF WA!Zero
<1>6. CASE i /= 0
  <2>1. i - 1 \in 0 .. Len(xs) /\ i - 1 < i /\ i \in 1 .. Len(xs)
    BY <1>3, <1>6
  <2>2. f[i - 1] \in Fraction
    BY <1>2, <2>1
  <2>3. xs[i] \in Fraction
    BY <2>1
  <2> QED
    BY <1>3, <1>4, <1>6, <2>2, <2>3, AddIs
<1> QED
  BY <1>5, <1>6

LEMMA TotalIs == ASSUME NEW xs \in Seq(Fraction) PROVE WA!Total(xs) \in Fraction
<1> DEFINE sum == CHOOSE f : f = [i \in 0 .. Len(xs) |-> IF i = 0 THEN WA!Zero ELSE WA!Add(f[i - 1], xs[i])]
<1>1. Len(xs) \in Nat
  OBVIOUS
<1>2. \E f : f = [i \in 0 .. Len(xs) |-> IF i = 0 THEN WA!Zero ELSE WA!Add(f[i - 1], xs[i])]
  BY <1>1, SumsThere DEF AreSums
<1>3. AreSums(xs, Len(xs), sum)
  BY <1>2, Zenon DEF AreSums
<1>4. WA!Total(xs) = sum[Len(xs)]
  BY DEF WA!Total
<1>5. Len(xs) \in 0 .. Len(xs)
  OBVIOUS
<1> QED
  BY <1>3, <1>4, <1>5, SumsAre

LEMMA MeanIs == ASSUME NEW xs \in Seq(Fraction), Len(xs) > 0 PROVE WA!Mean(xs) \in Fraction
<1>1. <<1, Len(xs)>> \in Fraction
  BY DEF Fraction
<1> QED
  BY <1>1, TotalIs, MulIs DEF WA!Mean

LEMMA ListIs ==
  ASSUME NEW n \in Nat, NEW f, f = [i \in 1 .. n |-> f[i]], \A i \in 1 .. n : f[i] \in Fraction
  PROVE  f \in Seq(Fraction) /\ Len(f) = n /\ DOMAIN f = 1 .. n
  OBVIOUS

\* Subsessions of q values have means.
LEMMA MeansAre ==
  ASSUME NEW xs \in Seq(Fraction), NEW q \in Nat \ {0}
  PROVE  /\ WA!SubsessionMeans(xs, q) \in Seq(Fraction)
         /\ Len(WA!SubsessionMeans(xs, q)) = Len(xs) \div q
<1> DEFINE n == Len(xs) \div q
           f == WA!SubsessionMeans(xs, q)
<1>1. n \in Nat /\ n * q <= Len(xs)
  BY SMT
<1>2. ASSUME NEW i \in 1 .. n PROVE WA!Mean(SubSeq(xs, (i - 1) * q + 1, i * q)) \in Fraction
  <2>1. (i - 1) * q + 1 \in 1 .. Len(xs) /\ i * q \in 1 .. Len(xs) /\ i * q - ((i - 1) * q + 1) + 1 = q
    BY <1>1
  <2> DEFINE part == SubSeq(xs, (i - 1) * q + 1, i * q)
  <2>2. part \in Seq(Fraction) /\ Len(part) = q
    BY <2>1
  <2> HIDE DEF part
  <2>3. WA!Mean(part) \in Fraction
    BY <2>2, MeanIs
  <2> QED
    BY <2>3 DEF part
<1>3. f = [i \in 1 .. n |-> WA!Mean(SubSeq(xs, (i - 1) * q + 1, i * q))]
  BY DEF WA!SubsessionMeans
<1> HIDE DEF f
<1>4. f = [i \in 1 .. n |-> f[i]] /\ \A i \in 1 .. n : f[i] \in Fraction
  BY <1>2, <1>3
<1> HIDE DEF n
<1>5. f \in Seq(Fraction) /\ Len(f) = n
  BY <1>1, <1>4, ListIs
<1> QED
  BY <1>5 DEF f, n

\* The deviations of the data from their mean, their squares and the products of two deviations.
LEMMA DeviationsAre ==
  ASSUME NEW xs \in Seq(Fraction), Len(xs) > 0
  PROVE  WA!Deviations(xs, 1) \in Seq(Fraction) /\ Len(WA!Deviations(xs, 1)) = Len(xs)
<1> DEFINE m == WA!Mean(xs)
           means == WA!SubsessionMeans(xs, 1)
           d == WA!From(means, m)
<1>1. m \in Fraction
  BY MeanIs
<1>2. means \in Seq(Fraction) /\ Len(means) = Len(xs)
  BY MeansAre
<1> HIDE DEF m, means
<1>3. d = [i \in 1 .. Len(xs) |-> WA!Sub(means[i], m)]
  BY <1>2 DEF WA!From
<1>4. \A i \in 1 .. Len(xs) : WA!Sub(means[i], m) \in Fraction
  BY <1>1, <1>2, SubIs
<1> HIDE DEF d
<1>5. d = [i \in 1 .. Len(xs) |-> d[i]] /\ \A i \in 1 .. Len(xs) : d[i] \in Fraction
  BY <1>3, <1>4
<1>6. Len(xs) \in Nat
  OBVIOUS
<1>7. d \in Seq(Fraction) /\ Len(d) = Len(xs)
  BY <1>5, <1>6, ListIs
<1> QED
  BY <1>7 DEF WA!Deviations, d, m, means

LEMMA ProductsAre ==
  ASSUME NEW n \in Nat, NEW d \in Seq(Fraction), NEW e \in Seq(Fraction), Len(d) = n, Len(e) = n
  PROVE  WA!Total([i \in DOMAIN d |-> WA!Mul(d[i], e[i])]) \in Fraction
<1> DEFINE f == [i \in DOMAIN d |-> WA!Mul(d[i], e[i])]
<1>1. f = [i \in 1 .. n |-> WA!Mul(d[i], e[i])]
  OBVIOUS
<1>2. \A i \in 1 .. n : WA!Mul(d[i], e[i]) \in Fraction
  BY MulIs
<1> HIDE DEF f
<1>3. f = [i \in 1 .. n |-> f[i]] /\ \A i \in 1 .. n : f[i] \in Fraction
  BY <1>1, <1>2
<1>4. f \in Seq(Fraction)
  BY <1>3, ListIs
<1>5. WA!Total(f) \in Fraction
  BY <1>4, TotalIs
<1> QED
  BY <1>5 DEF f

LEMMA SquaresAre ==
  ASSUME NEW n \in Nat, NEW d \in Seq(Fraction), Len(d) = n PROVE WA!SumOfSquares(d) \in Fraction
<1> DEFINE f == [i \in DOMAIN d |-> WA!Square(d[i])]
<1>1. f = [i \in 1 .. n |-> WA!Square(d[i])]
  OBVIOUS
<1>2. \A i \in 1 .. n : WA!Square(d[i]) \in Fraction
  BY TimesIs DEF WA!Square
<1> HIDE DEF f
<1>3. f = [i \in 1 .. n |-> f[i]] /\ \A i \in 1 .. n : f[i] \in Fraction
  BY <1>1, <1>2
<1>4. f \in Seq(Fraction)
  BY <1>3, ListIs
<1>5. WA!Total(f) \in Fraction
  BY <1>4, TotalIs
<1> QED
  BY <1>5 DEF f, WA!SumOfSquares

-----------------------------------------------------------------------------
(* The regression of some rounds, apart from the state. *)

Rounds == Seq(Nat \X Nat)

SizeFor(kept) == WA!OptimalSubsession([i \in DOMAIN kept |-> WA!Rat(kept[i][2], kept[i][1])], Limit)
Fitted(kept) ==
  WA!ModelOf(WA!Grouped(WA!AmountsOf(kept), SizeFor(kept)), WA!Grouped(WA!TimesOf(kept), SizeFor(kept)), kept)
Enough(kept) == Len(kept) >= 3 /\ ~(SizeFor(kept) < 0) /\ Fitted(kept).res /= "none"

LEMMA RegressIs ==
  ASSUME NEW limit
  PROVE  /\ WA!Regress(limit).res /= "none" <=> Enough(WA!Longer(limit))
         /\ Enough(WA!Longer(limit)) => WA!Regress(limit) = Fitted(WA!Longer(limit))
  BY DEF WA!Regress, WA!Grouping, WA!ModelRounds, Enough, Fitted, SizeFor

-----------------------------------------------------------------------------
(* The values of the numbers: x stands for n / d. *)

Is(x, n, d) == x[1] * d = n * x[2]

LEMMA DivideExactly == ASSUME NEW k \in Int, NEW g \in Nat \ {0} PROVE (k * g) \div g = k
  OBVIOUS

LEMMA Crossed == ASSUME NEW a \in Int, NEW b \in Int, NEW c \in Int, NEW d \in Int PROVE (a * b) * (c * d) = (a * d) * (b * c)
  OBVIOUS

LEMMA Paired == ASSUME NEW a \in Int, NEW b \in Int, NEW c \in Int, NEW d \in Int PROVE (a * b) * (c * d) = (a * c) * (b * d)
  OBVIOUS

LEMMA Regroup == ASSUME NEW a \in Int, NEW b \in Int, NEW c \in Int PROVE a * (b * c) = (a * b) * c
  OBVIOUS

LEMMA Swapped == ASSUME NEW a \in Int, NEW b \in Int, NEW c \in Int PROVE (a * b) * c = (a * c) * b
  OBVIOUS

LEMMA SignOf ==
  ASSUME NEW s \in Int, NEW t \in Int, NEW p \in Nat \ {0}, NEW q \in Nat \ {0}, s * p = t * q
  PROVE  (s <= 0 <=> t <= 0) /\ (s < 0 <=> t < 0)
  OBVIOUS

Divides(g, n) == \E k \in Int : n = k * g

LEMMA DivisorDivides ==
  ASSUME NEW a \in Nat, NEW b \in Nat \ {0}
  PROVE  Divides(WA!gcd[<<a, b>>], a) /\ Divides(WA!gcd[<<a, b>>], b)
<1> DEFINE g(x, n) == WA!gcd[<<x, n>>]
           wrong == {n \in Nat : n > 0 /\ \E x \in Nat : ~(Divides(g(x, n), x) /\ Divides(g(x, n), n))}
<1>1. SUFFICES ASSUME wrong /= {} PROVE FALSE
  <2>1. b \in wrong \/ (Divides(g(a, b), a) /\ Divides(g(a, b), b))
    <3> HIDE DEF g
    <3> QED
      OBVIOUS
  <2> HIDE DEF wrong
  <2> QED
    BY <2>1
<1>2. PICK n \in wrong : \A l \in wrong : n <= l
  <2>1. wrong \in SUBSET Nat
    OBVIOUS
  <2> HIDE DEF wrong
  <2> QED
    BY <1>1, <2>1, Least
<1>3. PICK x \in Nat : ~(Divides(g(x, n), x) /\ Divides(g(x, n), n))
  OBVIOUS
<1>4. n \in Nat /\ n > 0
  OBVIOUS
<1>5. \A l \in Nat : 0 < l /\ l < n => \A y \in Nat : Divides(g(y, l), y) /\ Divides(g(y, l), l)
  BY <1>2, <1>4
<1> HIDE DEF wrong
<1> DEFINE r == x % n
           m == x \div n
<1>6. r \in Nat /\ r < n /\ m \in Int /\ x = m * n + r
  BY <1>4
<1>7. g(x, n) = g(n, r)
  <2>1. <<x, n>> \in Nat \X Nat
    BY <1>4
  <2> QED
    BY <1>4, <2>1, EuclidIs
<1>8. CASE r = 0
  <2>1. <<n, r>> \in Nat \X Nat
    BY <1>4, <1>6
  <2>2. g(n, r) = n
    BY <1>8, <2>1, EuclidIs
  <2>3. Divides(n, n) /\ Divides(n, x)
    <3>1. n = 1 * n /\ x = m * n /\ 1 \in Int
      BY <1>4, <1>6, <1>8
    <3> HIDE DEF m
    <3> QED
      BY <1>6, <3>1 DEF Divides
  <2> QED
    BY <1>3, <1>7, <2>2, <2>3
<1>9. CASE r > 0
  <2>1. Divides(g(n, r), n) /\ Divides(g(n, r), r)
    BY <1>4, <1>5, <1>6, <1>9
  <2>2. g(n, r) \in Int
    <3>1. g(n, r) \in 1 .. r
      BY <1>4, <1>6, <1>9, DivisorIs
    <3> QED
      BY <1>6, <3>1
  <2> DEFINE d == g(n, r)
  <2> HIDE DEF g, r, m, d
  <2>3. PICK i \in Int : n = i * d
    BY <2>1 DEF Divides, d
  <2>4. PICK j \in Int : r = j * d
    BY <2>1 DEF Divides, d
  <2>5. x = (m * i + j) * d /\ m * i + j \in Int
    <3>1. m * (i * d) + j * d = (m * i + j) * d
      BY <1>6, <2>2 DEF d
    <3> QED
      BY <1>6, <2>3, <2>4, <3>1
  <2>6. Divides(d, x)
    BY <2>5 DEF Divides
  <2> QED
    BY <1>3, <1>7, <2>1, <2>6 DEF d
<1> QED
  BY <1>6, <1>8, <1>9

\* A fraction in lowest terms stands for the number it is made of.
LEMMA RatValue == ASSUME NEW a \in Int, NEW b \in Int, b /= 0 PROVE Is(WA!Rat(a, b), a, b)
<1> DEFINE g == WA!Gcd(a, b)
<1>1. WA!Abs(a) \in Nat /\ WA!Abs(b) \in Nat \ {0} /\ (WA!Abs(a) = a \/ WA!Abs(a) = -a) /\ (WA!Abs(b) = b \/ WA!Abs(b) = -b)
  BY DEF WA!Abs
<1>2. g \in 1 .. WA!Abs(b) /\ Divides(g, WA!Abs(a)) /\ Divides(g, WA!Abs(b))
  BY <1>1, DivisorIs, DivisorDivides DEF WA!Gcd
<1> HIDE DEF g
<1>3. g \in Nat \ {0}
  BY <1>1, <1>2
<1>4. PICK i \in Int : a = i * g
  <2>1. PICK k \in Int : WA!Abs(a) = k * g
    BY <1>2 DEF Divides
  <2>2. a = k * g \/ a = (-k) * g
    BY <1>1, <1>3, <2>1
  <2> QED
    BY <2>2
<1>5. PICK j \in Int : b = j * g
  <2>1. PICK k \in Int : WA!Abs(b) = k * g
    BY <1>2 DEF Divides
  <2>2. b = k * g \/ b = (-k) * g
    BY <1>1, <1>3, <2>1
  <2> QED
    BY <2>2
<1>6. a \div g = i /\ b \div g = j /\ (-a) \div g = -i /\ (-b) \div g = -j
  <2>1. -a = (-i) * g /\ -b = (-j) * g
    BY <1>3, <1>4, <1>5
  <2> QED
    BY <1>3, <1>4, <1>5, <2>1, DivideExactly
<1>7. WA!Rat(a, b) = IF b < 0 THEN <<-i, -j>> ELSE <<i, j>>
  BY <1>6 DEF WA!Rat, WA!Over, g
<1>8. i * (j * g) = (i * g) * j /\ (-i) * (j * g) = (i * g) * (-j)
  BY <1>3
<1> QED
  BY <1>4, <1>5, <1>7, <1>8 DEF Is

LEMMA MulValue ==
  ASSUME NEW x \in Fraction, NEW y \in Fraction PROVE Is(WA!Mul(x, y), x[1] * y[1], x[2] * y[2])
<1> DEFINE r == WA!Rat(x[1], y[2])
           s == WA!Rat(y[1], x[2])
<1>1. x[1] \in Int /\ y[1] \in Int /\ x[2] \in Int /\ y[2] \in Int /\ x[2] /= 0 /\ y[2] /= 0
  BY DEF Fraction
<1>2. r \in Fraction /\ s \in Fraction /\ Is(r, x[1], y[2]) /\ Is(s, y[1], x[2])
  BY <1>1, RatIs, RatValue
<1> HIDE DEF r, s
<1>3. r[1] \in Int /\ s[1] \in Int /\ r[2] \in Int /\ s[2] \in Int /\ r[1] * y[2] = x[1] * r[2] /\ s[1] * x[2] = y[1] * s[2]
  BY <1>2 DEF Fraction, Is
<1>4. (r[1] * s[1]) * (x[2] * y[2]) = (x[1] * y[1]) * (r[2] * s[2])
  <2>1. (r[1] * s[1]) * (x[2] * y[2]) = (r[1] * y[2]) * (s[1] * x[2])
    BY <1>1, <1>3, Crossed
  <2>2. (x[1] * y[1]) * (r[2] * s[2]) = (x[1] * r[2]) * (y[1] * s[2])
    BY <1>1, <1>3, Paired
  <2> QED
    BY <1>3, <2>1, <2>2, Zenon
<1>5. WA!Mul(x, y) = <<r[1] * s[1], r[2] * s[2]>>
  BY DEF WA!Mul, WA!Times, r, s
<1> QED
  BY <1>4, <1>5 DEF Is

LEMMA AddValue ==
  ASSUME NEW x \in Fraction, NEW y \in Fraction PROVE Is(WA!Add(x, y), x[1] * y[2] + y[1] * x[2], x[2] * y[2])
<1> DEFINE g == WA!Gcd(x[2], y[2])
           z == WA!Add(x, y)
<1>1. x[1] \in Int /\ y[1] \in Int /\ x[2] \in Nat \ {0} /\ y[2] \in Nat \ {0}
  BY DEF Fraction
<1>2. g \in 1 .. y[2] /\ Divides(g, x[2]) /\ Divides(g, y[2])
  BY <1>1, DivisorIs, DivisorDivides DEF WA!Gcd, WA!Abs
<1> HIDE DEF g
<1>3. g \in Nat \ {0}
  BY <1>1, <1>2
<1>4. PICK i \in Int : x[2] = i * g
  BY <1>2 DEF Divides
<1>5. PICK k \in Int : y[2] = k * g
  BY <1>2 DEF Divides
<1>6. x[2] \div g = i /\ y[2] \div g = k
  BY <1>3, <1>4, <1>5, DivideExactly
<1>7. k /= 0
  BY <1>1, <1>3, <1>5
<1> DEFINE a == x[1] * k + y[1] * i
           b == x[2] * k
<1>8. a \in Int /\ b \in Int /\ b /= 0
  BY <1>1, <1>7
<1>9. z = WA!Rat(a, b)
  BY <1>6 DEF WA!Add, WA!AddOver, g
<1>10. b * g = x[2] * y[2] /\ a * g = x[1] * y[2] + y[1] * x[2]
  <2>1. (x[2] * k) * g = x[2] * (k * g) /\ (x[1] * k + y[1] * i) * g = x[1] * (k * g) + y[1] * (i * g)
    BY <1>1, <1>3
  <2> QED
    BY <1>4, <1>5, <2>1
<1> HIDE DEF a, b, z
<1>11. z[1] * b = a * z[2] /\ z[1] \in Int /\ z[2] \in Int
  BY <1>8, <1>9, RatIs, RatValue DEF Is, Fraction
<1>12. z[1] * (b * g) = (a * g) * z[2]
  <2>1. z[1] * (b * g) = (z[1] * b) * g /\ (a * g) * z[2] = (a * z[2]) * g
    <3>1. g \in Int
      BY <1>3
    <3> QED
      BY <1>8, <1>11, <3>1, Regroup, Swapped
  <2> QED
    BY <1>11, <2>1, Zenon
<1> QED
  BY <1>10, <1>12 DEF Is, z

LEMMA SubValue ==
  ASSUME NEW x \in Fraction, NEW y \in Fraction PROVE Is(WA!Sub(x, y), x[1] * y[2] - y[1] * x[2], x[2] * y[2])
<1>1. WA!Neg(y) \in Fraction /\ WA!Neg(y)[1] = -y[1] /\ WA!Neg(y)[2] = y[2]
  BY NegIs DEF WA!Neg
<1>2. x[1] \in Int /\ y[1] \in Int /\ x[2] \in Int /\ y[2] \in Int
  BY DEF Fraction
<1>3. x[1] * y[2] + (-y[1]) * x[2] = x[1] * y[2] - y[1] * x[2]
  BY <1>2
<1> QED
  BY <1>1, <1>3, AddValue DEF WA!Sub

\* The order of two fractions, and the least integer that is not below one.
LEMMA LeqIs ==
  ASSUME NEW x \in Fraction, NEW y \in Fraction
  PROVE  (WA!Leq(x, y) <=> x[1] * y[2] <= y[1] * x[2]) /\ (WA!Less(x, y) <=> x[1] * y[2] < y[1] * x[2])
<1> DEFINE s == WA!Sub(x, y)
           t == x[1] * y[2] - y[1] * x[2]
           p == x[2] * y[2]
<1>1. x[1] \in Int /\ y[1] \in Int /\ x[2] \in Nat \ {0} /\ y[2] \in Nat \ {0}
  BY DEF Fraction
<1>2. s[1] \in Int /\ s[2] \in Nat \ {0} /\ s[1] * p = t * s[2]
  BY SubIs, SubValue DEF Is, Fraction
<1>3. x[1] * y[2] \in Int /\ y[1] * x[2] \in Int /\ p \in Nat \ {0} /\ t \in Int
  BY <1>1
<1> HIDE DEF s, p, t
<1>4. (s[1] <= 0 <=> t <= 0) /\ (s[1] < 0 <=> t < 0)
  BY <1>2, <1>3, SignOf
<1>5. (t <= 0 <=> x[1] * y[2] <= y[1] * x[2]) /\ (t < 0 <=> x[1] * y[2] < y[1] * x[2])
  BY <1>3 DEF t
<1> QED
  BY <1>4, <1>5 DEF WA!Leq, WA!Less, s

LEMMA CeilingIs ==
  ASSUME NEW x \in Fraction
  PROVE  WA!Ceiling(x) \in Int /\ \A h \in Int : WA!Ceiling(x) <= h <=> x[1] <= h * x[2]
<1>1. x[1] \in Int /\ x[2] \in Nat \ {0}
  BY DEF Fraction
<1> DEFINE a == x[1]
           b == x[2]
           c == (-a) \div b
<1>2. c \in Int /\ c * b <= -a /\ -a < (c + 1) * b
  BY <1>1
<1>3. WA!Ceiling(x) = -c
  BY DEF WA!Ceiling
<1> HIDE DEF a, b, c
<1>4. ASSUME NEW h \in Int PROVE -c <= h <=> a <= h * b
  <2>1. CASE -c <= h
    <3>1. (-h) * b <= c * b /\ (-h) * b = -(h * b)
      BY <1>1, <1>2, <2>1 DEF b
    <3> QED
      BY <1>1, <1>2, <2>1, <3>1 DEF a, b
  <2>2. CASE ~(-c <= h)
    <3>1. (c + 1) * b <= (-h) * b /\ (-h) * b = -(h * b)
      BY <1>1, <1>2, <2>2 DEF b
    <3> QED
      BY <1>1, <1>2, <2>2, <3>1 DEF a, b
  <2> QED
    BY <2>1, <2>2
<1> QED
  BY <1>2, <1>3, <1>4 DEF a, b

\* Numbers that stand for a / b and c / d.
LEMMA Typed == ASSUME NEW x \in Fraction PROVE x[1] \in Int /\ x[2] \in Int /\ x[2] > 0
  BY DEF Fraction

LEMMA Cancelled == ASSUME NEW a \in Int, NEW b \in Int, NEW k \in Int, k /= 0, a * k = b * k PROVE a = b
  OBVIOUS

\* What stands for a number that stands for another stands for that.
LEMMA Through ==
  ASSUME NEW z \in Fraction, NEW n \in Int, NEW d \in Int, d /= 0, Is(z, n, d), NEW p \in Int, NEW q \in Int, n * q = p * d
  PROVE  Is(z, p, q)
<1>1. z[1] \in Int /\ z[2] \in Int /\ z[1] * d = n * z[2]
  BY Typed DEF Is
<1>2. (z[1] * q) * d = (p * z[2]) * d
  <2>1. (z[1] * q) * d = (z[1] * d) * q
    BY <1>1, Swapped
  <2>2. (n * z[2]) * q = (n * q) * z[2]
    BY <1>1, Swapped
  <2>3. (p * d) * z[2] = (p * z[2]) * d
    BY <1>1, Swapped
  <2> QED
    BY <1>1, <2>1, <2>2, <2>3, Zenon
<1>3. z[1] * q \in Int /\ p * z[2] \in Int
  BY <1>1
<1>4. z[1] * q = p * z[2]
  BY <1>2, <1>3, Cancelled
<1> QED
  BY <1>4 DEF Is

LEMMA MulOf ==
  ASSUME NEW x \in Fraction, NEW y \in Fraction, NEW a \in Int, NEW b \in Int, NEW c \in Int, NEW d \in Int,
         Is(x, a, b), Is(y, c, d)
  PROVE  WA!Mul(x, y) \in Fraction /\ Is(WA!Mul(x, y), a * c, b * d)
<1>1. x[1] \in Int /\ y[1] \in Int /\ x[2] \in Int /\ y[2] \in Int /\ x[2] * y[2] /= 0 /\ x[1] * y[1] \in Int /\ x[2] * y[2] \in Int
  <2>1. x[1] \in Int /\ y[1] \in Int /\ x[2] \in Int /\ y[2] \in Int /\ x[2] > 0 /\ y[2] > 0
    BY Typed
  <2> QED
    BY <2>1
<1>2. (x[1] * y[1]) * (b * d) = (a * c) * (x[2] * y[2])
  <2>1. (x[1] * y[1]) * (b * d) = (x[1] * b) * (y[1] * d)
    BY <1>1, Paired
  <2>2. (a * c) * (x[2] * y[2]) = (a * x[2]) * (c * y[2])
    BY <1>1, Paired
  <2> QED
    BY <2>1, <2>2, Zenon DEF Is
<1>3. a * c \in Int /\ b * d \in Int
  OBVIOUS
<1> QED
  BY <1>1, <1>2, <1>3, MulIs, MulValue, Through

LEMMA Distributed ==
  ASSUME NEW a \in Int, NEW b \in Int, NEW c \in Int
  PROVE  (a + b) * c = a * c + b * c /\ (a - b) * c = a * c - b * c
  OBVIOUS

LEMMA AddOf ==
  ASSUME NEW x \in Fraction, NEW y \in Fraction, NEW a \in Int, NEW b \in Int, NEW c \in Int, NEW d \in Int,
         Is(x, a, b), Is(y, c, d)
  PROVE  /\ WA!Add(x, y) \in Fraction /\ Is(WA!Add(x, y), a * d + c * b, b * d)
         /\ WA!Sub(x, y) \in Fraction /\ Is(WA!Sub(x, y), a * d - c * b, b * d)
<1>1. /\ x[1] \in Int /\ y[1] \in Int /\ x[2] \in Int /\ y[2] \in Int /\ x[2] * y[2] /= 0 /\ x[2] * y[2] \in Int
      /\ x[1] * y[2] \in Int /\ y[1] * x[2] \in Int
  <2>1. x[1] \in Int /\ y[1] \in Int /\ x[2] \in Int /\ y[2] \in Int /\ x[2] > 0 /\ y[2] > 0
    BY Typed
  <2> QED
    BY <2>1
<1>2. a * d \in Int /\ c * b \in Int /\ b * d \in Int /\ a * d + c * b \in Int /\ a * d - c * b \in Int
      /\ x[1] * y[2] + y[1] * x[2] \in Int /\ x[1] * y[2] - y[1] * x[2] \in Int
  BY <1>1
<1>3. (x[1] * y[2]) * (b * d) = (a * d) * (x[2] * y[2])
  <2>1. (x[1] * y[2]) * (b * d) = (x[1] * b) * (y[2] * d)
    BY <1>1, Paired
  <2>2. (a * d) * (x[2] * y[2]) = (a * x[2]) * (d * y[2])
    BY <1>1, Paired
  <2>3. d * y[2] = y[2] * d
    BY <1>1
  <2> QED
    BY <2>1, <2>2, <2>3, Zenon DEF Is
<1>4. (y[1] * x[2]) * (b * d) = (c * b) * (x[2] * y[2])
  <2>1. (y[1] * x[2]) * (b * d) = (y[1] * d) * (x[2] * b)
    BY <1>1, Crossed
  <2>2. (c * b) * (x[2] * y[2]) = (c * y[2]) * (b * x[2])
    BY <1>1, Crossed
  <2>3. b * x[2] = x[2] * b
    BY <1>1
  <2> QED
    BY <2>1, <2>2, <2>3, Zenon DEF Is
<1>5. /\ (x[1] * y[2] + y[1] * x[2]) * (b * d) = (a * d + c * b) * (x[2] * y[2])
      /\ (x[1] * y[2] - y[1] * x[2]) * (b * d) = (a * d - c * b) * (x[2] * y[2])
  <2>1. /\ (x[1] * y[2] + y[1] * x[2]) * (b * d) = (x[1] * y[2]) * (b * d) + (y[1] * x[2]) * (b * d)
        /\ (x[1] * y[2] - y[1] * x[2]) * (b * d) = (x[1] * y[2]) * (b * d) - (y[1] * x[2]) * (b * d)
    BY <1>1, <1>2, Distributed
  <2>2. /\ (a * d + c * b) * (x[2] * y[2]) = (a * d) * (x[2] * y[2]) + (c * b) * (x[2] * y[2])
        /\ (a * d - c * b) * (x[2] * y[2]) = (a * d) * (x[2] * y[2]) - (c * b) * (x[2] * y[2])
    BY <1>1, <1>2, Distributed
  <2> QED
    BY <1>3, <1>4, <2>1, <2>2, Zenon
<1>6. WA!Add(x, y) \in Fraction /\ Is(WA!Add(x, y), a * d + c * b, b * d)
  BY <1>1, <1>2, <1>5, AddIs, AddValue, Through
<1>7. WA!Sub(x, y) \in Fraction /\ Is(WA!Sub(x, y), a * d - c * b, b * d)
  BY <1>1, <1>2, <1>5, SubIs, SubValue, Through
<1> QED
  BY <1>6, <1>7

LEMMA InvOf ==
  ASSUME NEW x \in Fraction, NEW a \in Int, NEW b \in Int, Is(x, a, b), a /= 0, b /= 0
  PROVE  WA!Inv(x) \in Fraction /\ Is(WA!Inv(x), b, a)
<1>1. x[1] \in Int /\ x[2] \in Int /\ x[2] > 0 /\ x[1] * b = a * x[2]
  BY Typed DEF Is
<1>2. x[1] /= 0
  <2>1. a * x[2] /= 0
    BY <1>1
  <2> QED
    BY <1>1, <2>1
<1>3. /\ x[2] \div 1 = x[2] /\ x[1] \div 1 = x[1]
      /\ (-x[2]) \div 1 = -x[2] /\ (-x[1]) \div 1 = -x[1]
  BY <1>1
<1>4. WA!Inv(x) = IF x[1] < 0 THEN <<-x[2], -x[1]>> ELSE <<x[2], x[1]>>
  BY <1>1, <1>3 DEF WA!Inv, WA!Over
<1>5. x[2] * a = b * x[1] /\ (-x[2]) * a = b * (-x[1])
  BY <1>1
<1> QED
  BY <1>2, <1>4, <1>5, InvIs DEF Is

LEMMA DivOf ==
  ASSUME NEW x \in Fraction, NEW y \in Fraction, NEW a \in Int, NEW b \in Int, NEW c \in Int, NEW d \in Int,
         Is(x, a, b), Is(y, c, d), c /= 0, d /= 0
  PROVE  WA!Div(x, y) \in Fraction /\ Is(WA!Div(x, y), a * d, b * c)
  BY InvOf, MulOf DEF WA!Div

LEMMA WholeOf == ASSUME NEW i \in Int PROVE WA!Whole(i) \in Fraction /\ Is(WA!Whole(i), i, 1)
  BY WholeIs DEF WA!Whole, Is

LEMMA ShareOf == ASSUME NEW n \in Nat \ {0} PROVE <<1, n>> \in Fraction /\ Is(<<1, n>>, 1, n)
  BY DEF Is, Fraction

LEMMA ItselfIs == ASSUME NEW x \in Fraction PROVE Is(x, x[1], x[2]) /\ x[1] \in Int /\ x[2] \in Nat \ {0}
  BY Typed DEF Is

LEMMA SquareOf ==
  ASSUME NEW x \in Fraction, NEW a \in Int, NEW b \in Int, Is(x, a, b)
  PROVE  WA!Square(x) \in Fraction /\ Is(WA!Square(x), a * a, b * b)
<1>1. x[1] \in Int /\ x[2] \in Int /\ x[1] * b = a * x[2]
  BY Typed DEF Is
<1>2. (x[1] * x[1]) * (b * b) = (a * a) * (x[2] * x[2])
  <2>1. (x[1] * x[1]) * (b * b) = (x[1] * b) * (x[1] * b)
    BY <1>1, Paired
  <2>2. (a * a) * (x[2] * x[2]) = (a * x[2]) * (a * x[2])
    BY <1>1, Paired
  <2> QED
    BY <1>1, <2>1, <2>2, Zenon
<1> QED
  BY <1>2, TimesIs DEF WA!Square, WA!Times, Is

\* The order of two numbers, and of a number and an integer.
LEMMA OrderOf ==
  ASSUME NEW x \in Fraction, NEW y \in Fraction, NEW a \in Int, NEW b \in Nat \ {0}, NEW c \in Int, NEW d \in Nat \ {0},
         Is(x, a, b), Is(y, c, d)
  PROVE  (WA!Leq(x, y) <=> a * d <= c * b) /\ (WA!Less(x, y) <=> a * d < c * b)
<1> DEFINE s == WA!Sub(x, y)
           t == a * d - c * b
<1>1. s \in Fraction /\ Is(s, t, b * d)
  BY AddOf
<1>2. s[1] \in Int /\ s[2] \in Nat \ {0} /\ s[1] * (b * d) = t * s[2]
  BY <1>1, ItselfIs DEF Is
<1>3. t \in Int /\ b * d \in Nat \ {0} /\ a * d \in Int /\ c * b \in Int
  OBVIOUS
<1> HIDE DEF s, t
<1>4. (s[1] <= 0 <=> t <= 0) /\ (s[1] < 0 <=> t < 0)
  BY <1>2, <1>3, SignOf
<1>5. (t <= 0 <=> a * d <= c * b) /\ (t < 0 <=> a * d < c * b)
  BY <1>3 DEF t
<1> QED
  BY <1>4, <1>5 DEF WA!Leq, WA!Less, s

LEMMA CeilingOf ==
  ASSUME NEW x \in Fraction, NEW a \in Int, NEW b \in Nat \ {0}, Is(x, a, b)
  PROVE  WA!Ceiling(x) \in Int /\ \A h \in Int : WA!Ceiling(x) <= h <=> a <= h * b
<1>1. x[1] \in Int /\ x[2] \in Nat \ {0} /\ x[1] * b = a * x[2]
  BY ItselfIs DEF Is
<1>2. WA!Ceiling(x) \in Int /\ \A h \in Int : WA!Ceiling(x) <= h <=> x[1] <= h * x[2]
  BY CeilingIs
<1>3. ASSUME NEW h \in Int PROVE x[1] <= h * x[2] <=> a <= h * b
  <2> DEFINE s == x[1] - h * x[2]
             t == a - h * b
  <2>1. s \in Int /\ t \in Int /\ h * x[2] \in Int /\ h * b \in Int
    BY <1>1
  <2>2. s * b = t * x[2]
    <3>1. s * b = x[1] * b - (h * x[2]) * b /\ t * x[2] = a * x[2] - (h * b) * x[2]
      BY <1>1, <2>1, Distributed
    <3>2. (h * x[2]) * b = (h * b) * x[2]
      BY <1>1, Swapped
    <3> QED
      BY <1>1, <3>1, <3>2, Zenon
  <2> HIDE DEF s, t
  <2>3. s <= 0 <=> t <= 0
    BY <1>1, <2>1, <2>2, SignOf
  <2> QED
    BY <1>1, <2>1, <2>3 DEF s, t
<1> QED
  BY <1>2, <1>3

-----------------------------------------------------------------------------
(* Variances, and how many readings are enough. *)

LEMMA ProductIs == ASSUME NEW a \in Nat \ {0}, NEW b \in Nat \ {0} PROVE a * b \in Nat \ {0}
  OBVIOUS

LEMMA ProductNotNegative == ASSUME NEW a \in Nat, NEW b \in Nat PROVE a * b \in Nat
  OBVIOUS

\* Sums of squares are not negative.
LEMMA SumNotNegative ==
  ASSUME NEW xs \in Seq(Fraction), \A i \in 1 .. Len(xs) : xs[i][1] >= 0 PROVE WA!Total(xs)[1] >= 0
<1> DEFINE sum == CHOOSE f : f = [i \in 0 .. Len(xs) |-> IF i = 0 THEN WA!Zero ELSE WA!Add(f[i - 1], xs[i])]
           wrong == {i \in 0 .. Len(xs) : ~(sum[i] \in Fraction /\ sum[i][1] >= 0)}
<1>1. Len(xs) \in Nat
  OBVIOUS
<1>2. AreSums(xs, Len(xs), sum)
  <2>1. \E f : f = [i \in 0 .. Len(xs) |-> IF i = 0 THEN WA!Zero ELSE WA!Add(f[i - 1], xs[i])]
    BY <1>1, SumsThere DEF AreSums
  <2> QED
    BY <2>1, Zenon DEF AreSums
<1>3. WA!Total(xs) = sum[Len(xs)]
  BY DEF WA!Total
<1> HIDE DEF sum
<1>4. ASSUME wrong /= {} PROVE FALSE
  <2>1. PICK i \in wrong : \A l \in wrong : i <= l
    <3>1. wrong \in SUBSET Nat
      OBVIOUS
    <3> HIDE DEF wrong
    <3> QED
      BY <1>4, <3>1, Least
  <2>2. i \in 0 .. Len(xs) /\ ~(sum[i] \in Fraction /\ sum[i][1] >= 0)
    OBVIOUS
  <2>3. sum[i] = IF i = 0 THEN WA!Zero ELSE WA!Add(sum[i - 1], xs[i])
    BY <1>2, <2>2 DEF AreSums
  <2>4. CASE i = 0
    <3>1. WA!Zero \in Fraction /\ WA!Zero[1] = 0
      BY WholeIs DEF WA!Zero, WA!Whole
    <3> QED
      BY <2>2, <2>3, <2>4, <3>1
  <2>5. CASE i /= 0
    <3>1. i - 1 \in 0 .. Len(xs) /\ i - 1 < i /\ i \in 1 .. Len(xs)
      BY <2>2, <2>5
    <3>2. sum[i - 1] \in Fraction /\ sum[i - 1][1] >= 0
      BY <2>1, <3>1
    <3>3. xs[i] \in Fraction /\ xs[i][1] >= 0
      BY <3>1
    <3> DEFINE x == sum[i - 1]
               y == xs[i]
               z == WA!Add(x, y)
               n == x[1] * y[2] + y[1] * x[2]
               d == x[2] * y[2]
    <3>4. z \in Fraction /\ Is(z, n, d)
      BY <3>2, <3>3, AddIs, AddValue
    <3>5. n \in Nat /\ d \in Nat \ {0}
      <4>1. x[1] \in Nat /\ y[1] \in Nat /\ x[2] \in Nat \ {0} /\ y[2] \in Nat \ {0}
        BY <3>2, <3>3, ItselfIs
      <4>2. x[2] \in Nat /\ y[2] \in Nat
        BY <4>1, Zenon
      <4>3. x[1] * y[2] \in Nat
        BY <4>1, <4>2, ProductNotNegative
      <4>4. y[1] * x[2] \in Nat
        BY <4>1, <4>2, ProductNotNegative
      <4>5. x[2] * y[2] \in Nat \ {0}
        BY <4>1, ProductIs
      <4> HIDE DEF x, y
      <4> QED
        BY <4>3, <4>4, <4>5
    <3> HIDE DEF z, n, d
    <3>6. z[1] \in Int /\ z[2] \in Nat \ {0} /\ z[1] * d = n * z[2]
      BY <3>4, ItselfIs DEF Is
    <3>7. z[1] < 0 <=> n < 0
      BY <3>5, <3>6, SignOf
    <3> QED
      BY <2>2, <2>3, <2>5, <3>4, <3>5, <3>6, <3>7 DEF z
  <2> QED
    BY <2>4, <2>5
<1> QED
  BY <1>1, <1>3, <1>4

LEMMA SquaresNotNegative ==
  ASSUME NEW n \in Nat, NEW d \in Seq(Fraction), Len(d) = n
  PROVE  WA!SumOfSquares(d) \in Fraction /\ WA!SumOfSquares(d)[1] >= 0
<1> DEFINE f == [i \in DOMAIN d |-> WA!Square(d[i])]
<1>1. f = [i \in 1 .. n |-> WA!Square(d[i])]
  OBVIOUS
<1>2. \A i \in 1 .. n : WA!Square(d[i]) \in Fraction /\ WA!Square(d[i])[1] >= 0
  <2> SUFFICES ASSUME NEW i \in 1 .. n PROVE WA!Square(d[i]) \in Fraction /\ WA!Square(d[i])[1] >= 0
    OBVIOUS
  <2>1. d[i] \in Fraction
    OBVIOUS
  <2>2. d[i][1] \in Int
    BY <2>1, Typed
  <2>3. d[i][1] * d[i][1] >= 0
    BY <2>2
  <2> QED
    BY <2>1, <2>3, TimesIs DEF WA!Square, WA!Times
<1> HIDE DEF f
<1>3. f = [i \in 1 .. n |-> f[i]] /\ \A i \in 1 .. n : f[i] \in Fraction /\ f[i][1] >= 0
  BY <1>1, <1>2
<1>4. f \in Seq(Fraction) /\ Len(f) = n
  BY <1>3, ListIs
<1>5. WA!Total(f) \in Fraction /\ WA!Total(f)[1] >= 0
  BY <1>3, <1>4, TotalIs, SumNotNegative
<1> QED
  BY <1>5 DEF f, WA!SumOfSquares

LEMMA DeviationsOf ==
  ASSUME NEW xs \in Seq(Fraction), Len(xs) > 0, NEW q \in Nat \ {0}
  PROVE  WA!Deviations(xs, q) \in Seq(Fraction) /\ Len(WA!Deviations(xs, q)) = Len(xs) \div q
<1> DEFINE m == WA!Mean(xs)
           means == WA!SubsessionMeans(xs, q)
           d == WA!From(means, m)
           n == Len(xs) \div q
<1>1. m \in Fraction
  BY MeanIs
<1>2. means \in Seq(Fraction) /\ Len(means) = n
  BY MeansAre
<1>3. n \in Nat
  BY SMT
<1> HIDE DEF m, means, n
<1>4. d = [i \in 1 .. n |-> WA!Sub(means[i], m)]
  BY <1>2 DEF WA!From
<1>5. \A i \in 1 .. n : WA!Sub(means[i], m) \in Fraction
  BY <1>1, <1>2, SubIs
<1> HIDE DEF d
<1>6. d = [i \in 1 .. n |-> d[i]] /\ \A i \in 1 .. n : d[i] \in Fraction
  BY <1>4, <1>5
<1>7. d \in Seq(Fraction) /\ Len(d) = n
  BY <1>3, <1>6, ListIs
<1> QED
  BY <1>7 DEF WA!Deviations, d, m, means, n

LEMMA VarianceIs ==
  ASSUME NEW xs \in Seq(Fraction), NEW q \in Nat \ {0}, Len(xs) > 0, Len(xs) \div q >= 2
  PROVE  WA!Variance(xs, q) \in Fraction /\ WA!Variance(xs, q)[1] >= 0
<1> DEFINE n == Len(xs) \div q
           d == WA!Deviations(xs, q)
           s == WA!SumOfSquares(d)
           v == WA!Variance(xs, q)
<1>1. n \in Nat /\ n >= 2
  BY SMT
<1>2. d \in Seq(Fraction) /\ Len(d) = n
  BY DeviationsOf
<1> HIDE DEF n, d
<1>3. s \in Fraction /\ s[1] >= 0
  BY <1>1, <1>2, SquaresNotNegative
<1>4. v = WA!Mul(s, <<1, n - 1>>)
  BY DEF WA!Variance, n, d
<1> HIDE DEF s
<1>5. Is(s, s[1], s[2]) /\ s[1] \in Int /\ s[2] \in Nat \ {0}
  BY <1>3, ItselfIs
<1>6. <<1, n - 1>> \in Fraction /\ Is(<<1, n - 1>>, 1, n - 1) /\ n - 1 \in Nat \ {0}
  BY <1>1, ShareOf
<1>7. v \in Fraction /\ Is(v, s[1] * 1, s[2] * (n - 1))
  BY <1>3, <1>4, <1>5, <1>6, MulOf
<1>8. s[1] * 1 \in Nat /\ s[2] * (n - 1) \in Nat \ {0}
  <2>1. s[1] * 1 \in Nat
    BY <1>3, <1>5
  <2>2. s[2] * (n - 1) \in Nat \ {0}
    BY <1>5, <1>6, ProductIs
  <2> QED
    BY <2>1, <2>2
<1> DEFINE a == s[1] * 1
           b == s[2] * (n - 1)
<1> HIDE DEF a, b, v
<1>9. v[1] \in Int /\ v[2] \in Nat \ {0} /\ v[1] * b = a * v[2]
  BY <1>7, ItselfIs DEF Is, a, b
<1>10. v[1] < 0 <=> a < 0
  BY <1>8, <1>9, SignOf DEF a, b
<1> QED
  BY <1>7, <1>8, <1>9, <1>10 DEF a, v

\* Positive numbers have a positive mean.
LEMMA SumPositive ==
  ASSUME NEW xs \in Seq(Fraction), \A i \in 1 .. Len(xs) : xs[i][1] > 0, Len(xs) > 0 PROVE WA!Total(xs)[1] > 0
<1> DEFINE sum == CHOOSE f : f = [i \in 0 .. Len(xs) |-> IF i = 0 THEN WA!Zero ELSE WA!Add(f[i - 1], xs[i])]
           wrong == {i \in 1 .. Len(xs) : ~(sum[i][1] > 0)}
<1>1. Len(xs) \in Nat
  OBVIOUS
<1>2. AreSums(xs, Len(xs), sum)
  <2>1. \E f : f = [i \in 0 .. Len(xs) |-> IF i = 0 THEN WA!Zero ELSE WA!Add(f[i - 1], xs[i])]
    BY <1>1, SumsThere DEF AreSums
  <2> QED
    BY <2>1, Zenon DEF AreSums
<1>3. WA!Total(xs) = sum[Len(xs)]
  BY DEF WA!Total
<1> HIDE DEF sum
<1>4. \A i \in 0 .. Len(xs) : sum[i] \in Fraction
  BY <1>2, SumsAre
<1>5. ASSUME wrong /= {} PROVE FALSE
  <2>1. PICK i \in wrong : \A l \in wrong : i <= l
    <3>1. wrong \in SUBSET Nat
      OBVIOUS
    <3> HIDE DEF wrong
    <3> QED
      BY <1>5, <3>1, Least
  <2>2. i \in 1 .. Len(xs) /\ ~(sum[i][1] > 0)
    OBVIOUS
  <2>3. sum[i] = WA!Add(sum[i - 1], xs[i])
    BY <1>2, <2>2 DEF AreSums
  <2>4. i - 1 \in 0 .. Len(xs) /\ i - 1 < i
    BY <2>2
  <2> DEFINE x == sum[i - 1]
             y == xs[i]
  <2>5. x \in Fraction /\ y \in Fraction /\ y[1] > 0
    BY <1>4, <2>2, <2>4
  <2>6. x[1] >= 0
    <3>1. CASE i = 1
      <4>1. x = WA!Zero
        BY <1>1, <1>2, <3>1 DEF AreSums
      <4> QED
        BY <4>1 DEF WA!Zero, WA!Whole
    <3>2. CASE i /= 1
      <4>1. i - 1 \notin wrong
        BY <2>1, <2>4
      <4>2. i - 1 \in 1 .. Len(xs)
        BY <2>2, <3>2
      <4>3. x[1] > 0
        BY <4>1, <4>2
      <4>4. x[1] \in Int
        BY <2>5, Typed
      <4> QED
        BY <4>3, <4>4
    <3> QED
      BY <3>1, <3>2
  <2> HIDE DEF x, y
  <2> DEFINE z == WA!Add(x, y)
             n == x[1] * y[2] + y[1] * x[2]
             d == x[2] * y[2]
  <2>7. z \in Fraction /\ Is(z, n, d)
    BY <2>5, AddIs, AddValue
  <2>8. n \in Nat \ {0} /\ d \in Nat \ {0}
    <3>1. x[1] \in Nat /\ y[1] \in Nat \ {0} /\ x[2] \in Nat \ {0} /\ y[2] \in Nat \ {0}
      BY <2>5, <2>6, ItselfIs
    <3>2. y[2] \in Nat
      BY <3>1, Zenon
    <3>3. x[1] * y[2] \in Nat
      BY <3>1, <3>2, ProductNotNegative
    <3>4. y[1] * x[2] \in Nat \ {0} /\ x[2] * y[2] \in Nat \ {0}
      BY <3>1, ProductIs
    <3> QED
      BY <3>3, <3>4
  <2> HIDE DEF z, n, d
  <2>9. z[1] \in Int /\ z[2] \in Nat \ {0} /\ z[1] * d = n * z[2]
    BY <2>7, ItselfIs DEF Is
  <2>10. z[1] <= 0 <=> n <= 0
    BY <2>8, <2>9, SignOf
  <2> QED
    BY <2>2, <2>3, <2>8, <2>9, <2>10 DEF x, y, z
<1>6. Len(xs) \in 1 .. Len(xs)
  BY <1>1
<1> QED
  BY <1>3, <1>5, <1>6

LEMMA MeanPositive ==
  ASSUME NEW xs \in Seq(Fraction), \A i \in 1 .. Len(xs) : xs[i][1] > 0, Len(xs) > 0
  PROVE  WA!Mean(xs) \in Fraction /\ WA!Mean(xs)[1] > 0
<1> DEFINE s == WA!Total(xs)
           n == Len(xs)
           y == WA!Mean(xs)
<1>1. n \in Nat \ {0}
  OBVIOUS
<1>2. s \in Fraction /\ s[1] > 0
  BY TotalIs, SumPositive
<1>3. y = WA!Mul(s, <<1, n>>)
  BY DEF WA!Mean
<1> HIDE DEF s, n, y
<1>4. s[1] \in Nat \ {0} /\ s[2] \in Nat \ {0} /\ Is(s, s[1], s[2])
  BY <1>2, ItselfIs
<1>5. y \in Fraction /\ Is(y, s[1] * 1, s[2] * n)
  BY <1>1, <1>2, <1>3, <1>4, ShareOf, MulOf
<1> DEFINE d == s[2] * n
           t == s[1] * 1
<1>6. d \in Nat \ {0} /\ t \in Nat \ {0}
  BY <1>1, <1>4, ProductIs
<1> HIDE DEF d, t
<1>7. y[1] \in Int /\ y[2] \in Nat \ {0} /\ y[1] * d = t * y[2]
  BY <1>5, ItselfIs DEF Is, d, t
<1>8. y[1] <= 0 <=> t <= 0
  BY <1>6, <1>7, SignOf
<1> QED
  BY <1>5, <1>6, <1>7, <1>8 DEF y

\* What both say of a variance v / w: how many subsessions are enough, and how wide is the interval of h.
LEMMA NarrowOf ==
  ASSUME NEW V \in Fraction, NEW T \in Fraction, NEW W \in Fraction, W[1] > 0, NEW h \in Nat \ {0},
         NEW v \in Int, NEW w \in Nat \ {0}, Is(V, v, w)
  PROVE  LET size == WA!Ceiling(WA!Mul(V, WA!Div(T, WA!Square(W))))
             enough == v * (T[1] * (W[2] * W[2])) <= h * (w * (T[2] * (W[1] * W[1])))
         IN /\ size \in Int
            /\ size <= h <=> enough
            /\ WA!Leq(WA!Mul(T, WA!Mul(V, <<1, h>>)), WA!Square(W)) <=> enough
<1> DEFINE S == WA!Square(W)
           D == WA!Div(T, S)
           Z == WA!Mul(V, D)
           M == WA!Mul(V, <<1, h>>)
           N == WA!Mul(T, M)
           s == W[1] * W[1]
           r == W[2] * W[2]
           t == T[1]
           u == T[2]
<1>1. /\ t \in Int /\ u \in Nat \ {0} /\ Is(T, t, u)
      /\ W[1] \in Int /\ W[2] \in Nat \ {0} /\ Is(W, W[1], W[2])
  BY ItselfIs
<1>2. s \in Nat \ {0} /\ r \in Nat \ {0}
  BY <1>1
<1>3. S \in Fraction /\ Is(S, s, r)
  BY <1>1, SquareOf
<1> HIDE DEF S, s, r, t, u
<1>4. D \in Fraction /\ Is(D, t * r, u * s)
  BY <1>1, <1>2, <1>3, DivOf
<1>5. t * r \in Int /\ u * s \in Nat \ {0}
  BY <1>1, <1>2
<1> HIDE DEF D
<1>6. Z \in Fraction /\ Is(Z, v * (t * r), w * (u * s))
  BY <1>1, <1>4, <1>5, MulOf
<1>7. v * (t * r) \in Int /\ w * (u * s) \in Nat \ {0}
  BY <1>1, <1>5
<1>8. WA!Ceiling(Z) \in Int /\ (WA!Ceiling(Z) <= h <=> v * (t * r) <= h * (w * (u * s)))
  BY <1>6, <1>7, CeilingOf
<1>9. M \in Fraction /\ Is(M, v * 1, w * h)
  BY <1>1, ShareOf, MulOf
<1>10. v * 1 = v /\ w * h \in Nat \ {0}
  BY <1>1
<1> HIDE DEF M
<1>11. N \in Fraction /\ Is(N, t * v, u * (w * h))
  BY <1>1, <1>9, <1>10, MulOf
<1>12. t * v \in Int /\ u * (w * h) \in Nat \ {0}
  BY <1>1, <1>10
<1> HIDE DEF N, Z
<1>13. WA!Leq(N, S) <=> (t * v) * r <= s * (u * (w * h))
  BY <1>2, <1>3, <1>11, <1>12, OrderOf
<1>14. (t * v) * r = v * (t * r) /\ s * (u * (w * h)) = h * (w * (u * s))
  BY <1>1, <1>2
<1> QED
  BY <1>8, <1>13, <1>14 DEF Z, D, N, M, S, s, r, t, u

\* The interval of h subsessions is as narrow as required exactly if h reaches the sample size.
LEMMA NarrowIs ==
  ASSUME NEW V \in Fraction, NEW T \in Fraction, NEW W \in Fraction, W[1] > 0, NEW h \in Nat \ {0}
  PROVE  LET size == WA!Ceiling(WA!Mul(V, WA!Div(T, WA!Square(W))))
         IN /\ size \in Int
            /\ size <= h <=> WA!Leq(WA!Mul(T, WA!Mul(V, <<1, h>>)), WA!Square(W))
<1>1. V[1] \in Int /\ V[2] \in Nat \ {0} /\ Is(V, V[1], V[2])
  BY ItselfIs
<1> DEFINE size == WA!Ceiling(WA!Mul(V, WA!Div(T, WA!Square(W))))
           narrow == WA!Leq(WA!Mul(T, WA!Mul(V, <<1, h>>)), WA!Square(W))
           enough == V[1] * (T[1] * (W[2] * W[2])) <= h * (V[2] * (T[2] * (W[1] * W[1])))
<1>2. size \in Int /\ (size <= h <=> enough) /\ (narrow <=> enough)
  BY <1>1, NarrowOf
<1> HIDE DEF size, narrow, enough
<1> QED
  BY <1>2 DEF size, narrow

\* With the variance K / n^2 of a proportion the interval of n values is no wider than with
\* that of a sample, K * n / (n^2 * (n - 1)).
LEMMA NarrowProportion ==
  ASSUME NEW P \in Fraction, NEW V \in Fraction, NEW T \in Fraction, T[1] >= 0, NEW W \in Fraction, W[1] > 0,
         NEW n \in Nat, n >= 2, NEW K \in Nat, Is(P, K, n * n), Is(V, K * n, (n * n) * (n - 1)),
         WA!Ceiling(WA!Mul(V, WA!Div(T, WA!Square(W)))) <= n
  PROVE  WA!Leq(WA!Mul(T, WA!Mul(P, <<1, n>>)), WA!Square(W))
<1> DEFINE t == T[1] * (W[2] * W[2])
           u == T[2] * (W[1] * W[1])
           e == n * n
           size == WA!Ceiling(WA!Mul(V, WA!Div(T, WA!Square(W))))
           narrow == WA!Leq(WA!Mul(T, WA!Mul(P, <<1, n>>)), WA!Square(W))
<1>1. t \in Nat /\ u \in Nat \ {0} /\ n \in Nat \ {0} /\ n - 1 \in Nat \ {0}
  <2>1. T[1] \in Nat /\ T[2] \in Nat \ {0} /\ W[1] \in Nat \ {0} /\ W[2] \in Nat \ {0}
    BY ItselfIs
  <2>2. W[1] * W[1] \in Nat \ {0} /\ W[2] * W[2] \in Nat
    BY <2>1, ProductIs
  <2>3. t \in Nat
    BY <2>1, <2>2, ProductNotNegative
  <2>4. u \in Nat \ {0}
    BY <2>1, <2>2, ProductIs
  <2> HIDE DEF t, u
  <2> QED
    BY <2>3, <2>4
<1>2. e \in Nat \ {0} /\ e * (n - 1) \in Nat \ {0} /\ K * n \in Nat
  BY <1>1, ProductIs, ProductNotNegative
<1>3. size <= n <=> (K * n) * t <= n * ((e * (n - 1)) * u)
  <2> DEFINE v == K * n
             w == e * (n - 1)
  <2>1. v \in Int /\ w \in Nat \ {0} /\ Is(V, v, w)
    BY <1>2
  <2> HIDE DEF v, w
  <2>2. size <= n <=> v * t <= n * (w * u)
    BY <1>1, <2>1, NarrowOf
  <2> QED
    BY <2>2 DEF v, w
<1>4. narrow <=> K * t <= n * (e * u)
  BY <1>1, <1>2, NarrowOf
<1> HIDE DEF t, u, e, size, narrow
<1> DEFINE A == K * t
           B == e * u
<1>5. A \in Nat /\ B \in Nat
  BY <1>1, <1>2, ProductNotNegative
<1>6. (K * n) * t = n * A /\ n * ((e * (n - 1)) * u) = n * ((n - 1) * B)
  BY <1>1, <1>2
<1>7. size <= n
  BY DEF size
<1> HIDE DEF A, B
<1>8. n * A <= n * ((n - 1) * B)
  BY <1>3, <1>6, <1>7
<1>9. A <= (n - 1) * B
  BY <1>1, <1>5, <1>8
<1>10. A <= n * B
  BY <1>1, <1>5, <1>9
<1> QED
  BY <1>4, <1>10 DEF narrow, A, B

-----------------------------------------------------------------------------
(* Harmonic means: from 1 / (ybar + d) to 1 / (ybar - d). With ybar = a / b, the required width w = c / g
   and T^2 V / h = p / m, P = p b^2, M = m a^2, G = (g b)^2 and C = (c a)^2: *)

\* d is less than ybar, and 2 d / (ybar^2 - d^2) is at most w.
WithinWidth(P, G, C, M) == M > P /\ 4 * ((P * G) * M) <= C * ((M - P) * (M - P))

LEMMA ScaledOrder == ASSUME NEW a \in Nat, NEW x \in Int, NEW y \in Int, x <= y PROVE a * x <= a * y
  OBVIOUS

LEMMA CancelFactor == ASSUME NEW a \in Nat \ {0}, NEW x \in Int, NEW y \in Int PROVE (a * x <= a * y <=> x <= y) /\ (x >= 0 <=> a * x >= 0)
  OBVIOUS

LEMMA SmallerSquare == ASSUME NEW x \in Nat, NEW y \in Nat, x <= y PROVE x * x <= y * y
<1>1. x * x <= x * y
  BY ScaledOrder
<1>2. y * x <= y * y
  BY ScaledOrder
<1> QED
  BY <1>1, <1>2

\* The number M of subsessions is within the width exactly if it reaches the root.
LEMMA WidthByRoot ==
  ASSUME NEW P \in Nat \ {0}, NEW G \in Nat \ {0}, NEW C \in Nat \ {0}, NEW M \in Int
  PROVE  LET N == C * (M - P) - 2 * (P * G)
         IN N >= 0 /\ 4 * (((G + C) * G) * (P * P)) <= N * N <=> WithinWidth(P, G, C, M)
<1> DEFINE U == M - P
           Q == P * G
           N == C * U - 2 * Q
           R == 4 * (((G + C) * G) * (P * P))
           D == C * (U * U) - 4 * (Q * M)
<1>1. Q \in Nat \ {0} /\ U \in Int /\ C * U \in Int /\ U * U \in Int /\ Q * M \in Int
  BY ProductIs
<1>2. M = U + P
  OBVIOUS
<1>3. N * N - R = C * D
  <2>1. N * N = (C * U) * (C * U) - 4 * (Q * (C * U)) + 4 * (Q * Q)
    BY <1>1
  <2>2. R = 4 * (Q * Q) + 4 * (C * (Q * P))
    OBVIOUS
  <2>3. C * D = (C * U) * (C * U) - 4 * (Q * (C * U)) - 4 * (C * (Q * P))
    <3>1. Q * M = Q * U + Q * P
      BY <1>1, <1>2
    <3>2. C * (C * (U * U)) = (C * U) * (C * U) /\ C * (4 * (Q * U)) = 4 * (Q * (C * U))
      BY <1>1
    <3>3. C * D = C * (C * (U * U)) - C * (4 * (Q * U)) - C * (4 * (Q * P))
      BY <1>1, <3>1
    <3> QED
      BY <1>1, <3>2, <3>3
  <2>4. Q * Q \in Int /\ C * (Q * P) \in Int /\ (C * U) * (C * U) \in Int /\ Q * (C * U) \in Int
    BY <1>1
  <2> QED
    BY <2>1, <2>2, <2>3, <2>4
<1>4. D \in Int /\ R \in Int /\ N \in Int
  BY <1>1
<1>5. R <= N * N <=> D >= 0
  BY <1>3, <1>4, CancelFactor
<1>6. D >= 0 <=> 4 * (Q * M) <= C * (U * U)
  BY <1>1
<1>7. N >= 0 => U > 0
  BY <1>1
<1>8. ASSUME U > 0, D >= 0 PROVE N >= 0
  <2>1. Q * U <= Q * M
    BY <1>1, ScaledOrder
  <2>2. (4 * Q) * U <= (C * U) * U
    <3>1. C * (U * U) = (C * U) * U /\ (4 * Q) * U = 4 * (Q * U) /\ Q * U \in Int
      BY <1>1
    <3> QED
      BY <1>1, <1>6, <1>8, <2>1, <3>1
  <2>3. 4 * Q <= C * U
    <3> DEFINE x == 4 * Q
               y == C * U
    <3>1. x \in Int /\ y \in Int /\ U \in Nat \ {0} /\ U * x <= U * y
      BY <1>1, <1>8, <2>2
    <3> HIDE DEF x, y, U
    <3> QED
      BY <3>1, CancelFactor DEF x, y
  <2> QED
    BY <1>1, <2>3
<1> QED
  BY <1>5, <1>6, <1>7, <1>8 DEF WithinWidth

\* More subsessions stay within the width.
LEMMA WidthKept ==
  ASSUME NEW P \in Nat \ {0}, NEW G \in Nat \ {0}, NEW C \in Nat \ {0}, NEW M \in Int, NEW L \in Int,
         WithinWidth(P, G, C, M), M <= L
  PROVE  WithinWidth(P, G, C, L)
<1> DEFINE N(X) == C * (X - P) - 2 * (P * G)
           R == 4 * (((G + C) * G) * (P * P))
<1>1. N(M) >= 0 /\ R <= N(M) * N(M)
  BY WidthByRoot
<1>2. C * (M - P) <= C * (L - P)
  BY ScaledOrder
<1>3. N(M) \in Int /\ N(L) \in Int /\ N(M) <= N(L) /\ R \in Int
  BY <1>2
<1>4. N(M) * N(M) <= N(L) * N(L)
  <2> HIDE DEF N
  <2> QED
    BY <1>1, <1>3, SmallerSquare
<1>5. N(L) >= 0 /\ R <= N(L) * N(L)
  <2>1. N(M) * N(M) \in Int /\ N(L) * N(L) \in Int
    BY <1>3
  <2> HIDE DEF N, R
  <2> QED
    BY <1>1, <1>3, <1>4, <2>1
<1> QED
  BY <1>5, WidthByRoot

\* Twice the part without the root is always enough.
LEMMA WidthReached ==
  ASSUME NEW P \in Nat \ {0}, NEW G \in Nat \ {0}, NEW C \in Nat \ {0}, NEW M \in Int,
         2 * (P * (2 * G + C)) <= C * M
  PROVE  WithinWidth(P, G, C, M)
<1> DEFINE N == C * (M - P) - 2 * (P * G)
           X == P * (2 * G + C)
           R == 4 * (((G + C) * G) * (P * P))
<1>1. N = C * M - X /\ X \in Nat /\ C * M \in Int
  OBVIOUS
<1>2. N \in Nat /\ X <= N
  BY <1>1
<1>3. X * X <= N * N
  <2> HIDE DEF N, X
  <2> QED
    BY <1>1, <1>2, SmallerSquare
<1>4. X * X = R + (P * C) * (P * C)
  OBVIOUS
<1>5. (P * C) * (P * C) >= 0 /\ R \in Int /\ N * N \in Int
  BY <1>2
<1> HIDE DEF X, R
<1>6. R <= N * N
  BY <1>1, <1>3, <1>4, <1>5
<1> QED
  BY <1>2, <1>6, WidthByRoot DEF R

\* What an interval of variance p / d says: it is finite and as narrow as required.
LEMMA HarmonicWidthOf ==
  ASSUME NEW y \in Fraction, NEW a \in Nat \ {0}, NEW b \in Nat \ {0}, Is(y, a, b),
         NEW e \in Fraction, NEW p \in Nat, NEW d \in Nat \ {0}, Is(e, p, d),
         NEW W \in Fraction, NEW c \in Nat \ {0}, NEW g \in Nat \ {0}, Is(W, c, g)
  PROVE  WA!HarmonicWidthSquared(y, e) /= WA!Infinite /\ WA!Leq(WA!HarmonicWidthSquared(y, e), WA!Square(W))
           <=> WithinWidth(p * (b * b), (g * g) * (b * b), (c * c) * (a * a), d * (a * a))
<1> DEFINE A == a * a
           B == b * b
           S == WA!Square(y)
           U == d * A - p * B
           Z == WA!Sub(S, e)
           F == WA!Mul(WA!Whole(4), e)
           H == WA!Div(F, WA!Square(Z))
           w == WA!Square(W)
           within == WithinWidth(p * B, (g * g) * B, (c * c) * A, d * A)
<1>1. A \in Nat \ {0} /\ B \in Nat \ {0} /\ g * g \in Nat \ {0} /\ c * c \in Nat \ {0}
  BY ProductIs
<1>2. S \in Fraction /\ Is(S, A, B) /\ w \in Fraction /\ Is(w, c * c, g * g)
  BY SquareOf
<1> HIDE DEF A, B, S, w
<1>3. WA!Leq(S, e) <=> A * d <= p * B
  BY <1>1, <1>2, OrderOf
<1>4. U \in Int /\ A * d = d * A /\ (A * d <= p * B <=> U <= 0) /\ d * A \in Nat /\ p * B \in Nat
  BY <1>1
<1>5. CASE WA!Leq(S, e)
  <2>1. WA!HarmonicWidthSquared(y, e) = WA!Infinite
    BY <1>5 DEF WA!HarmonicWidthSquared, S
  <2>2. ~ within
    BY <1>3, <1>4, <1>5 DEF WithinWidth
  <2> QED
    BY <2>1, <2>2 DEF A, B, w
<1>6. CASE ~WA!Leq(S, e)
  <2>1. U > 0
    BY <1>3, <1>4, <1>6
  <2>2. Z \in Fraction /\ Is(Z, U, B * d)
    <3>1. Z \in Fraction /\ Is(Z, A * d - p * B, B * d)
      BY <1>1, <1>2, AddOf
    <3> QED
      BY <1>4, <3>1
  <2>3. F \in Fraction /\ Is(F, 4 * p, 1 * d)
    BY WholeOf, MulOf
  <2>4. WA!HarmonicWidthSquared(y, e) = H
    BY <1>6 DEF WA!HarmonicWidthSquared, S
  <2>5. B * d \in Nat \ {0} /\ 4 * p \in Nat /\ 1 * d = d
    BY <1>1, ProductIs
  <2> DEFINE V == U * U
             D == (B * d) * (B * d)
  <2>6. V \in Nat \ {0} /\ D \in Nat \ {0}
    BY <1>4, <2>1, <2>5, ProductIs
  <2> HIDE DEF U, Z, F
  <2>7. WA!Square(Z) \in Fraction /\ Is(WA!Square(Z), V, D)
    BY <1>4, <2>2, <2>5, SquareOf
  <2>8. (4 * p) * D \in Nat /\ d * V \in Nat \ {0}
    BY <2>5, <2>6, ProductIs, ProductNotNegative
  <2> HIDE DEF V, D
  <2>9. H \in Fraction /\ Is(H, (4 * p) * D, d * V)
    BY <2>3, <2>5, <2>6, <2>7, DivOf
  <2> HIDE DEF H
  <2>10. WA!Leq(H, w) <=> ((4 * p) * D) * (g * g) <= (c * c) * (d * V)
    BY <1>1, <1>2, <2>8, <2>9, OrderOf
  <2>11. H /= WA!Infinite
    BY <2>9, Typed DEF WA!Infinite
  <2>12. within <=> 4 * (((p * B) * ((g * g) * B)) * (d * A)) <= ((c * c) * A) * V
    BY <1>4, <2>1 DEF WithinWidth, U, V
  <2> DEFINE l == ((4 * p) * D) * (g * g)
             r == (c * c) * (d * V)
             m == 4 * (((p * B) * ((g * g) * B)) * (d * A))
             n == ((c * c) * A) * V
  <2>13. l \in Int /\ r \in Int /\ m \in Int /\ n \in Int
    BY <1>1, <2>6
  <2>14. A * l = d * m /\ A * r = d * n
    <3>1. D = (B * B) * (d * d)
      BY <1>1 DEF D
    <3> DEFINE k == g * g
               x == B * B
               z == d * d
    <3>2. k \in Int /\ x \in Int /\ z \in Int
      BY <1>1
    <3>3. A * l = 4 * ((((A * p) * x) * k) * z)
      <4> HIDE DEF k, x, z
      <4> QED
        BY <1>1, <3>1, <3>2 DEF k, x, z
    <3>4. d * m = 4 * ((((A * p) * x) * k) * z)
      BY <1>1
    <3>5. A * r = d * n
      <4> DEFINE o == c * c
      <4>1. o \in Int
        BY <1>1
      <4> HIDE DEF o
      <4>2. A * (o * (d * V)) = d * ((o * A) * V)
        BY <1>1, <2>6, <4>1
      <4> QED
        BY <4>2 DEF o
    <3> QED
      BY <3>3, <3>4, <3>5
  <2> HIDE DEF l, r, m, n
  <2>15. l <= r <=> m <= n
    BY <1>1, <2>13, <2>14, CancelFactor
  <2> QED
    BY <2>4, <2>10, <2>11, <2>12, <2>15 DEF l, r, m, n, A, B, w
<1> QED
  BY <1>5, <1>6

\* The numbers of which HarmonicSize takes the least are those that are within the width.
LEMMA NotBelowIs ==
  ASSUME NEW k \in Fraction, NEW Q \in Nat \ {0}, NEW K \in Nat \ {0}, Is(k, Q, K),
         NEW r2 \in Fraction, NEW C \in Nat \ {0}, NEW G \in Nat \ {0}, Is(r2, C, G), NEW n \in Nat
  PROVE  WA!NotBelow(n, k, r2) <=>
           LET N == (n * K) * G - (2 * G + C) * Q
           IN N >= 0 /\ (4 * (G + C)) * ((Q * G) * (Q * G)) <= (N * N) * G
<1> DEFINE x == WA!Mul(WA!Whole(4), WA!Add(WA!One, r2))
           t == WA!Div(WA!Whole(n), k)
           s == WA!Add(WA!Whole(2), r2)
           z == WA!Sub(t, s)
           N == (n * K) * G - (2 * G + C) * Q
           D == Q * G
<1>1. WA!Add(WA!One, r2) \in Fraction /\ Is(WA!Add(WA!One, r2), 1 * G + C * 1, 1 * G)
  BY WholeOf, AddOf DEF WA!One
<1>2. 1 * G + C * 1 = G + C /\ 1 * G = G /\ G + C \in Int /\ 4 * (G + C) \in Int /\ 2 * G + C * 1 = 2 * G + C
  OBVIOUS
<1>3. x \in Fraction /\ Is(x, 4 * (G + C), G)
  BY <1>1, <1>2, WholeOf, MulOf
<1>4. s \in Fraction /\ Is(s, 2 * G + C, G)
  <2>1. s \in Fraction /\ Is(s, 2 * G + C * 1, 1 * G)
    BY WholeOf, AddOf
  <2> QED
    BY <1>2, <2>1
<1>5. t \in Fraction /\ Is(t, n * K, Q)
  <2>1. t \in Fraction /\ Is(t, n * K, 1 * Q)
    BY WholeOf, DivOf
  <2> QED
    BY <2>1
<1> HIDE DEF x, t, s
<1>6. z \in Fraction /\ Is(z, N, D)
  BY <1>4, <1>5, AddOf
<1>7. N \in Int /\ D \in Nat \ {0}
  BY ProductIs
<1> HIDE DEF z, N, D
<1>8. WA!Leq(WA!Zero, z) <=> N >= 0
  <2>1. WA!Leq(WA!Zero, z) <=> 0 * D <= N * 1
    BY <1>6, <1>7, WholeOf, OrderOf DEF WA!Zero
  <2> QED
    BY <1>7, <2>1
<1>9. WA!Square(z) \in Fraction /\ Is(WA!Square(z), N * N, D * D) /\ D * D \in Nat \ {0} /\ N * N \in Int
  BY <1>6, <1>7, SquareOf, ProductIs
<1>10. WA!Leq(x, WA!Square(z)) <=> (4 * (G + C)) * (D * D) <= (N * N) * G
  BY <1>2, <1>3, <1>9, OrderOf
<1> QED
  BY <1>8, <1>10 DEF WA!NotBelow, WA!RootAtMost, x, z, s, t, N, D

\* They are as many as the width asks for.
LEMMA NotBelowWithin ==
  ASSUME NEW P \in Nat \ {0}, NEW G \in Nat \ {0}, NEW C \in Nat \ {0}, NEW A \in Nat \ {0}, NEW n \in Nat,
         NEW k \in Fraction, Is(k, P * G, A * C), NEW r2 \in Fraction, Is(r2, C, G)
  PROVE  WA!NotBelow(n, k, r2) <=> WithinWidth(P, G, C, n * A)
<1> DEFINE Q == P * G
           K == A * C
           L == (n * K) * G - (2 * G + C) * Q
           N == C * (n * A - P) - 2 * (P * G)
           R == ((G + C) * G) * (P * P)
           F == (G * G) * G
<1>1. Q \in Nat \ {0} /\ K \in Nat \ {0} /\ F \in Nat \ {0} /\ n * A \in Int
  BY ProductIs
<1>2. WA!NotBelow(n, k, r2) <=> L >= 0 /\ (4 * (G + C)) * ((Q * G) * (Q * G)) <= (L * L) * G
  <2>1. Is(k, Q, K)
    OBVIOUS
  <2> HIDE DEF Q, K
  <2> QED
    BY <1>1, <2>1, NotBelowIs
<1>3. L = G * N /\ N \in Int
  <2>1. (n * K) * G = G * (C * (n * A))
    OBVIOUS
  <2>2. (2 * G + C) * Q = G * (C * P + 2 * (P * G))
    OBVIOUS
  <2>3. C * (n * A - P) = C * (n * A) - C * P
    OBVIOUS
  <2> QED
    BY <2>1, <2>2, <2>3
<1>4. R \in Int /\ N * N \in Int
  BY <1>3
<1>5. (L * L) * G = F * (N * N)
  <2> HIDE DEF N, L
  <2> QED
    BY <1>3
<1>6. (4 * (G + C)) * ((Q * G) * (Q * G)) = F * (4 * R)
  OBVIOUS
<1>7. L >= 0 <=> N >= 0
  <2> HIDE DEF N, L
  <2> QED
    BY <1>3, CancelFactor
<1>8. N >= 0 /\ 4 * R <= N * N <=> WithinWidth(P, G, C, n * A)
  BY <1>1, WidthByRoot
<1>9. F * (4 * R) <= F * (N * N) <=> 4 * R <= N * N
  <2> HIDE DEF N, R, F
  <2> QED
    BY <1>1, <1>4, CancelFactor
<1> HIDE DEF N, L, F, R
<1> QED
  BY <1>2, <1>5, <1>6, <1>7, <1>8, <1>9

\* The least of them is reached by h exactly if h subsessions are within the width.
LEMMA LeastWithin ==
  ASSUME NEW P \in Nat \ {0}, NEW G \in Nat \ {0}, NEW C \in Nat \ {0}, NEW A \in Nat \ {0}, NEW h \in Nat,
         NEW k \in Fraction, Is(k, P * G, A * C), NEW r2 \in Fraction, Is(r2, C, G)
  PROVE  WA!LeastNotBelow(k, r2) \in Int /\ (WA!LeastNotBelow(k, r2) <= h <=> WithinWidth(P, G, C, h * A))
<1> DEFINE Q == P * G
           K == A * C
           x == WA!Mul(WA!Mul(WA!Whole(2), k), WA!Add(WA!Whole(2), r2))
           most == WA!Ceiling(x)
           S == {n \in 0 .. most : WA!NotBelow(n, k, r2)}
           size == WA!Min(S)
<1>1. Q \in Nat \ {0} /\ K \in Nat \ {0} /\ K * G \in Nat \ {0} /\ 2 * G + C \in Nat \ {0}
  BY ProductIs
<1>2. WA!Add(WA!Whole(2), r2) \in Fraction /\ Is(WA!Add(WA!Whole(2), r2), 2 * G + C, G)
  <2>1. /\ WA!Add(WA!Whole(2), r2) \in Fraction /\ Is(WA!Add(WA!Whole(2), r2), 2 * G + C * 1, 1 * G)
    BY WholeOf, AddOf
  <2>2. 2 * G + C * 1 = 2 * G + C /\ 1 * G = G
    OBVIOUS
  <2> QED
    BY <2>1, <2>2
<1>3. WA!Mul(WA!Whole(2), k) \in Fraction /\ Is(WA!Mul(WA!Whole(2), k), 2 * Q, K)
  <2>1. WA!Mul(WA!Whole(2), k) \in Fraction /\ Is(WA!Mul(WA!Whole(2), k), 2 * Q, 1 * K)
    BY WholeOf, MulOf
  <2>2. 1 * K = K
    OBVIOUS
  <2> QED
    BY <2>1, <2>2
<1> DEFINE r == (2 * Q) * (2 * G + C)
<1>4. x \in Fraction /\ Is(x, r, K * G)
  BY <1>1, <1>2, <1>3, MulOf
<1>5. r \in Nat \ {0}
  BY <1>1, ProductIs
<1> HIDE DEF x, r
<1>6. most \in Int /\ r <= most * (K * G)
  BY <1>1, <1>4, <1>5, CeilingOf
<1> HIDE DEF most
<1>7. most \in Nat
  <2> DEFINE d == K * G
  <2>1. d \in Nat \ {0} /\ r <= most * d
    BY <1>1, <1>6
  <2> HIDE DEF d
  <2> QED
    BY <1>5, <1>6, <2>1
<1>8. WithinWidth(P, G, C, most * A)
  <2>1. G * (2 * (P * (2 * G + C))) <= G * (C * (most * A))
    <3>1. r = G * (2 * (P * (2 * G + C)))
      BY DEF r
    <3>2. most * (K * G) = G * (C * (most * A))
      BY <1>7
    <3> QED
      BY <1>6, <3>1, <3>2
  <2> DEFINE u == 2 * (P * (2 * G + C))
             w == C * (most * A)
  <2>2. u \in Int /\ w \in Int /\ most * A \in Int
    BY <1>7
  <2> HIDE DEF u, w
  <2>3. u <= w
    BY <2>1, <2>2, CancelFactor DEF u, w
  <2> QED
    BY <2>2, <2>3, WidthReached DEF u, w
<1>9. \A n \in Nat : WA!NotBelow(n, k, r2) <=> WithinWidth(P, G, C, n * A)
  BY NotBelowWithin
<1>10. S \in SUBSET Nat /\ most \in S
  BY <1>7, <1>8, <1>9
<1>11. size \in S /\ \A n \in S : size <= n
  <2> HIDE DEF S
  <2> QED
    BY <1>10, Least DEF WA!Min
<1>12. size \in Nat /\ size <= most /\ WithinWidth(P, G, C, size * A)
  <2>1. size \in 0 .. most /\ WA!NotBelow(size, k, r2)
    BY <1>11
  <2> HIDE DEF size
  <2> QED
    BY <1>7, <1>9, <2>1
<1>13. ASSUME WithinWidth(P, G, C, h * A) PROVE size <= h
  <2>1. CASE h <= most
    <3>1. h \in S
      BY <1>7, <1>9, <1>13, <2>1
    <3> QED
      BY <1>11, <3>1
  <2>2. CASE ~(h <= most)
    BY <1>7, <1>12, <2>2
  <2> QED
    BY <2>1, <2>2
<1> HIDE DEF size
<1>14. ASSUME size <= h PROVE WithinWidth(P, G, C, h * A)
  <2>1. size * A <= h * A
    <3>1. A * size <= A * h
      BY <1>12, <1>14, ScaledOrder
    <3> QED
      BY <1>12, <3>1
  <2>2. size * A \in Int /\ h * A \in Int
    BY <1>12
  <2> QED
    BY <1>12, <2>1, <2>2, WidthKept
<1> QED
  BY <1>12, <1>13, <1>14 DEF WA!LeastNotBelow, size, S, most, x

\* The number asked for is reached by h exactly if the interval of h subsessions is finite and as narrow as required.
LEMMA HarmonicNarrowOf ==
  ASSUME NEW y \in Fraction, NEW a \in Nat \ {0}, NEW b \in Nat \ {0}, Is(y, a, b),
         NEW W \in Fraction, NEW c \in Nat \ {0}, NEW g \in Nat \ {0}, Is(W, c, g),
         NEW v \in Fraction, NEW p \in Nat, NEW m \in Nat \ {0}, Is(v, p, m), NEW h \in Nat \ {0}
  PROVE  /\ WA!HarmonicSize(y, v, W) \in Int
         /\ WA!HarmonicSize(y, v, W) <= h <=>
              WithinWidth(p * (b * b), (g * g) * (b * b), (c * c) * (a * a), (h * m) * (a * a))
<1> DEFINE A == a * a
           B == b * b
           P == p * B
           G == (g * g) * B
           C == (c * c) * A
           N == m * A
           r2 == WA!Square(WA!Mul(W, y))
           y2 == WA!Square(y)
           k == WA!Div(v, WA!Mul(r2, y2))
           size == WA!HarmonicSize(y, v, W)
<1>1. A \in Nat \ {0} /\ B \in Nat \ {0} /\ g * g \in Nat \ {0} /\ c * c \in Nat \ {0}
  BY ProductIs
<1>2. G \in Nat \ {0} /\ C \in Nat \ {0} /\ N \in Nat \ {0} /\ (h * m) * A = h * N
  <2>1. G \in Nat \ {0} /\ C \in Nat \ {0} /\ N \in Nat \ {0}
    BY <1>1, ProductIs
  <2> HIDE DEF A
  <2> QED
    BY <1>1, <2>1
<1>3. WA!Leq(v, WA!Zero) <=> p <= 0
  <2>1. WA!Leq(v, WA!Zero) <=> p * 1 <= 0 * m
    BY WholeOf, OrderOf DEF WA!Zero
  <2> QED
    BY <2>1
<1>4. size = IF p <= 0 THEN 0 ELSE WA!LeastNotBelow(k, r2)
  BY <1>3 DEF WA!HarmonicSize, WA!SizeOfRatio
<1>5. CASE p <= 0
  <2>1. size = 0 /\ P = 0
    BY <1>1, <1>4, <1>5
  <2> DEFINE M == h * N
  <2>2. M \in Nat \ {0}
    BY <1>2, ProductIs
  <2>3. WithinWidth(0, G, C, M)
    <3>1. (M - 0) * (M - 0) \in Nat
      BY <2>2
    <3>2. C * ((M - 0) * (M - 0)) \in Nat
      BY <1>2, <3>1, ProductNotNegative
    <3>3. 4 * ((0 * G) * M) = 0
      BY <1>2, <2>2
    <3> HIDE DEF M, C, G
    <3> QED
      BY <2>2, <3>2, <3>3 DEF WithinWidth
  <2> HIDE DEF P, size
  <2> QED
    BY <1>2, <2>1, <2>3 DEF P, size
<1>6. CASE p > 0
  <2>1. P \in Nat \ {0}
    <3>1. p \in Nat \ {0}
      BY <1>6
    <3> QED
      BY <1>1, <3>1, ProductIs
  <2>2. r2 \in Fraction /\ Is(r2, C, G)
    <3>1. WA!Mul(W, y) \in Fraction /\ Is(WA!Mul(W, y), c * a, g * b)
      BY MulOf
    <3>2. c * a \in Int /\ g * b \in Int
      OBVIOUS
    <3>3. r2 \in Fraction /\ Is(r2, (c * a) * (c * a), (g * b) * (g * b))
      BY <3>1, <3>2, SquareOf
    <3>4. (c * a) * (c * a) = C /\ (g * b) * (g * b) = G
      BY Paired
    <3> QED
      BY <3>3, <3>4
  <2>3. y2 \in Fraction /\ Is(y2, A, B)
    BY SquareOf
  <2> HIDE DEF r2, y2
  <2>4. WA!Mul(r2, y2) \in Fraction /\ Is(WA!Mul(r2, y2), C * A, G * B)
    BY <1>1, <1>2, <2>2, <2>3, MulOf
  <2>5. C * A \in Nat \ {0} /\ G * B \in Nat \ {0}
    BY <1>1, <1>2, ProductIs
  <2> HIDE DEF A, B, C, G
  <2>6. k \in Fraction /\ Is(k, P * G, N * C)
    <3>1. k \in Fraction /\ Is(k, p * (G * B), m * (C * A))
      BY <2>4, <2>5, DivOf
    <3>2. p * (G * B) = P * G /\ m * (C * A) = N * C
      BY <1>1, <1>2
    <3> QED
      BY <3>1, <3>2
  <2>7. h \in Nat
    OBVIOUS
  <2> HIDE DEF P, N, k, size
  <2>8. WA!LeastNotBelow(k, r2) \in Int /\ (WA!LeastNotBelow(k, r2) <= h <=> WithinWidth(P, G, C, h * N))
    BY <1>2, <2>1, <2>2, <2>6, <2>7, LeastWithin
  <2>9. size = WA!LeastNotBelow(k, r2)
    BY <1>4, <1>6
  <2>10. size \in Int /\ (size <= h <=> WithinWidth(P, G, C, (h * m) * A))
    BY <1>2, <2>8, <2>9
  <2> QED
    BY <2>10 DEF size, P, G, C, A, B
<1> QED
  BY <1>5, <1>6

LEMMA HarmonicNarrow ==
  ASSUME NEW y \in Fraction, y[1] > 0, NEW V \in Fraction, V[1] >= 0, NEW T \in Fraction, T[1] > 0,
         NEW W \in Fraction, W[1] > 0, NEW h \in Nat \ {0}
  PROVE  LET size == WA!HarmonicSize(y, WA!Mul(T, V), W)
             square == WA!HarmonicWidthSquared(y, WA!Mul(T, WA!Mul(V, <<1, h>>)))
         IN size \in Int /\ (size <= h <=> square /= WA!Infinite /\ WA!Leq(square, WA!Square(W)))
<1> DEFINE a == y[1]
           b == y[2]
           c == W[1]
           g == W[2]
           p == T[1] * V[1]
           m == T[2] * V[2]
           d == h * m
           v == WA!Mul(T, V)
           e == WA!Mul(T, WA!Mul(V, <<1, h>>))
           size == WA!HarmonicSize(y, v, W)
           square == WA!HarmonicWidthSquared(y, e)
           narrow == square /= WA!Infinite /\ WA!Leq(square, WA!Square(W))
           Within(x) == WithinWidth(p * (b * b), (g * g) * (b * b), (c * c) * (a * a), x * (a * a))
<1>1. /\ a \in Nat \ {0} /\ b \in Nat \ {0} /\ Is(y, a, b) /\ c \in Nat \ {0} /\ g \in Nat \ {0} /\ Is(W, c, g)
      /\ T[1] \in Nat \ {0} /\ T[2] \in Nat \ {0} /\ Is(T, T[1], T[2])
      /\ V[1] \in Nat /\ V[2] \in Nat \ {0} /\ Is(V, V[1], V[2])
  BY ItselfIs
<1>2. p \in Nat /\ m \in Nat \ {0}
  BY <1>1, ProductIs, ProductNotNegative
<1>3. v \in Fraction /\ Is(v, p, m)
  BY <1>1, MulOf
<1>4. e \in Fraction /\ Is(e, p, d)
  <2>1. WA!Mul(V, <<1, h>>) \in Fraction /\ Is(WA!Mul(V, <<1, h>>), V[1] * 1, V[2] * h)
    BY <1>1, ShareOf, MulOf
  <2>2. V[1] * 1 = V[1] /\ V[2] * h \in Int /\ T[2] * (V[2] * h) = h * m
    BY <1>1
  <2>3. e \in Fraction /\ Is(e, T[1] * V[1], T[2] * (V[2] * h))
    BY <1>1, <2>1, <2>2, MulOf
  <2> QED
    BY <2>2, <2>3
<1> HIDE DEF a, b, c, g, p, m, v, e
<1>5. d \in Nat \ {0}
  BY <1>2, ProductIs
<1>6. size \in Int /\ (size <= h <=> Within(d))
  BY <1>1, <1>2, <1>3, HarmonicNarrowOf
<1> HIDE DEF d
<1>7. narrow <=> Within(d)
  BY <1>1, <1>2, <1>4, <1>5, HarmonicWidthOf
<1> HIDE DEF size, narrow, Within
<1> QED
  BY <1>6, <1>7 DEF size, narrow, square, v, e

-----------------------------------------------------------------------------
(* The number of readings that is required. *)

LEMMA GreaterOfTwo == ASSUME NEW a \in Int, NEW b \in Int PROVE WA!Max({a, b}) = IF a >= b THEN a ELSE b
<1> DEFINE S == {a, b}
           m == IF a >= b THEN a ELSE b
<1>1. m \in S /\ \A y \in S : m >= y
  OBVIOUS
<1>2. \A x \in S : (\A y \in S : x >= y) => x = m
  OBVIOUS
<1> HIDE DEF S, m
<1>3. (CHOOSE x \in S : \A y \in S : x >= y) = m
  BY <1>1, <1>2, Zenon
<1> QED
  BY <1>3 DEF WA!Max, S, m

\* A number of subsessions is there when the readings of all of them are.
LEMMA Fills ==
  ASSUME NEW n \in Nat, NEW q \in Nat \ {0}, NEW m \in Nat PROVE n \div q \in Nat /\ (n >= q * m <=> n \div q >= m)
<1> DEFINE h == n \div q
           r == n % q
<1>1. h \in Nat /\ r \in 0 .. q - 1 /\ n = q * h + r
  OBVIOUS
<1> HIDE DEF h, r
<1>2. ASSUME h >= m PROVE n >= q * m
  <2>1. q * (h - m) \in Nat
    BY <1>1, <1>2
  <2>2. q * h = q * (h - m) + q * m
    BY <1>1
  <2> HIDE <1>2
  <2> QED
    BY <1>1, <2>1, <2>2
<1>3. ASSUME ~(h >= m) PROVE ~(n >= q * m)
  <2>1. m - h - 1 \in Nat /\ q * (m - h - 1) \in Nat
    BY <1>1, <1>3
  <2>2. q * m = q * h + q + q * (m - h - 1)
    BY <1>1
  <2> QED
    BY <1>1, <2>1, <2>2
<1> QED
  BY <1>1, <1>2, <1>3 DEF h

LEMMA SubsessionIs ==
  ASSUME NEW xs, Len(xs) \in Nat, NEW limit
  PROVE  LET q == WA!OptimalSubsession(xs, limit)
         IN q = -1 \/ (q \in Nat \ {0} /\ Len(xs) >= 3 /\ Len(xs) \div q \in Nat /\ Len(xs) \div q >= 3)
<1> DEFINE T == {q \in 1 .. Len(xs) \div 3 : WA!Leq(WA!AbsRat(WA!AutoCoef(xs, q)), limit)}
           q == WA!OptimalSubsession(xs, limit)
           n == Len(xs)
<1>1. q = IF n <= 1 \/ T = {} THEN -1 ELSE WA!Min(T)
  BY DEF WA!OptimalSubsession
<1>2. T \in SUBSET Nat
  OBVIOUS
<1>3. \A s \in T : s \in Nat \ {0} /\ s <= n \div 3
  OBVIOUS
<1> HIDE DEF T, q
<1>4. T /= {} => WA!Min(T) \in T
  BY <1>2, Least DEF WA!Min
<1>5. CASE q /= -1
  <2>1. q \in Nat \ {0} /\ q <= n \div 3
    BY <1>1, <1>3, <1>4, <1>5
  <2>2. n \div 3 >= q <=> n >= 3 * q
    BY <2>1, Fills
  <2>3. n >= q * 3 /\ n >= 3 /\ n \div 3 \in Nat
    BY <2>1, <2>2
  <2>4. n \div q \in Nat /\ n \div q >= 3
    BY <2>1, <2>3, Fills
  <2> QED
    BY <2>1, <2>3, <2>4 DEF q
<1> QED
  BY <1>5 DEF q

\* The number required is reached when there are as many subsessions as each of the two asks for.
LEMMA RequiredIs ==
  ASSUME NEW n \in Nat, NEW q \in Nat \ {0}, NEW size \in Int, NEW M \in Nat, WA!RequiredOf(n, <<q, size>>, M) > 0
  PROVE  n >= WA!RequiredOf(n, <<q, size>>, M) <=> n \div q >= size /\ n \div q >= M
<1> DEFINE m == WA!Max({size, M})
<1>1. m = IF size >= M THEN size ELSE M
  BY GreaterOfTwo
<1>2. WA!RequiredOf(n, <<q, size>>, M) = q * m
  BY DEF WA!RequiredOf
<1> HIDE DEF m
<1>3. m \in Nat
  BY <1>1
<1>4. n \div q \in Nat /\ (n >= q * m <=> n \div q >= m)
  BY <1>3, Fills
<1>5. n \div q >= m <=> n \div q >= size /\ n \div q >= M
  BY <1>1, <1>4
<1> QED
  BY <1>2, <1>4, <1>5

LEMMA FiniteIs == ASSUME NEW x \in Fraction PROVE x /= WA!Infinite
  BY Typed DEF WA!Infinite

LEMMA MeanSizeRight ==
  ASSUME NEW xs \in Seq(Fraction), NEW W \in Fraction, W[1] > 0 \/ W = WA!Zero, NEW limit, NEW t2 \in Fraction,
         NEW M \in Nat, WA!Required(xs, W, limit, t2, "mean", M) > 0
  PROVE  LET q == WA!OptimalSubsession(xs, limit)
         IN /\ Len(xs) >= WA!Required(xs, W, limit, t2, "mean", M)
                 <=> WA!Leq(WA!WidthSquared(xs, q, t2, "mean"), WA!Square(W)) /\ Len(xs) \div q >= M
            /\ WA!WidthSquared(xs, q, t2, "mean") /= WA!Infinite
<1> DEFINE n == Len(xs)
           q == WA!OptimalSubsession(xs, limit)
           T == WA!Mul(WA!Whole(4), t2)
           V == WA!Variance(xs, q)
           size == WA!Ceiling(WA!Mul(V, WA!Div(T, WA!Square(W))))
           r == WA!Required(xs, W, limit, t2, "mean", M)
<1>1. n \in Nat
  OBVIOUS
<1>2. r = WA!RequiredOf(n, WA!SizeFor(xs, q, W, t2, "mean"), M)
  BY DEF WA!Required, WA!OptimalSampleSize
<1>3. r > 0
  OBVIOUS
<1>4. q = -1 \/ (q \in Nat \ {0} /\ n >= 3 /\ n \div q \in Nat /\ n \div q >= 3)
  BY <1>1, SubsessionIs
<1> HIDE DEF q
<1>5. q /= -1 /\ W /= WA!Zero
  BY <1>2, <1>3 DEF WA!SizeFor, WA!RequiredOf, r
<1>6. q \in Nat \ {0} /\ n >= 3 /\ n \div q \in Nat \ {0} /\ n \div q >= 2
  BY <1>4, <1>5
<1>7. WA!SizeFor(xs, q, W, t2, "mean") = <<q, size>>
  BY <1>5, <1>6 DEF WA!SizeFor
<1>8. T \in Fraction
  BY WholeIs, MulIs
<1>9. V \in Fraction
  BY <1>6, VarianceIs
<1> HIDE DEF T, V
<1>10. /\ size \in Int
       /\ size <= n \div q <=> WA!Leq(WA!Mul(T, WA!Mul(V, <<1, n \div q>>)), WA!Square(W))
  BY <1>5, <1>6, <1>8, <1>9, NarrowIs
<1>11. WA!WidthSquared(xs, q, t2, "mean") = WA!Mul(T, WA!Mul(V, <<1, n \div q>>))
  BY DEF WA!WidthSquared, T, V
<1> HIDE DEF size, r
<1>12. n >= r <=> n \div q >= size /\ n \div q >= M
  BY <1>1, <1>2, <1>3, <1>6, <1>7, <1>10, RequiredIs
<1>13. n \div q >= size <=> size <= n \div q
  BY <1>6, <1>10
<1>14. WA!Mul(T, WA!Mul(V, <<1, n \div q>>)) /= WA!Infinite
  BY <1>6, <1>8, <1>9, ShareOf, MulIs, FiniteIs
<1> QED
  BY <1>10, <1>11, <1>12, <1>13, <1>14 DEF q, r

\* The number for a harmonic mean, of readings that are the reciprocals of the data.
LEMMA HarmonicSizeRight ==
  ASSUME NEW xs \in Seq(Fraction), \A i \in 1 .. Len(xs) : xs[i][1] > 0, NEW W \in Fraction, W[1] > 0 \/ W = WA!Zero,
         NEW limit, NEW t2 \in Fraction, t2[1] > 0, NEW M \in Nat, WA!Required(xs, W, limit, t2, "harmonic", M) > 0
  PROVE  LET q == WA!OptimalSubsession(xs, limit)
             square == WA!WidthSquared(xs, q, t2, "harmonic")
         IN Len(xs) >= WA!Required(xs, W, limit, t2, "harmonic", M)
              <=> (square /= WA!Infinite /\ WA!Leq(square, WA!Square(W))) /\ Len(xs) \div q >= M
<1> DEFINE n == Len(xs)
           q == WA!OptimalSubsession(xs, limit)
           V == WA!Variance(xs, q)
           y == WA!Mean(xs)
           size == WA!HarmonicSize(y, WA!Mul(t2, V), W)
           r == WA!Required(xs, W, limit, t2, "harmonic", M)
           h == n \div q
           square == WA!HarmonicWidthSquared(y, WA!Mul(t2, WA!Mul(V, <<1, h>>)))
           narrow == square /= WA!Infinite /\ WA!Leq(square, WA!Square(W))
<1>1. n \in Nat /\ r > 0
  OBVIOUS
<1>2. r = WA!RequiredOf(n, WA!SizeFor(xs, q, W, t2, "harmonic"), M)
  <2>1. "harmonic" /= "proportion"
    OBVIOUS
  <2> QED
    BY <2>1 DEF WA!Required, WA!OptimalSampleSize
<1>3. q = -1 \/ (q \in Nat \ {0} /\ n >= 3 /\ n \div q \in Nat /\ n \div q >= 3)
  BY <1>1, SubsessionIs
<1> HIDE DEF q
<1>4. q /= -1 /\ W /= WA!Zero
  BY <1>1, <1>2 DEF WA!SizeFor, WA!RequiredOf
<1>5. q \in Nat \ {0} /\ n >= 3 /\ h \in Nat \ {0} /\ h >= 2
  BY <1>3, <1>4
<1>6. WA!SizeFor(xs, q, W, t2, "harmonic") = <<q, size>>
  BY <1>4, <1>5 DEF WA!SizeFor
<1>7. V \in Fraction /\ V[1] >= 0
  BY <1>5, VarianceIs
<1>8. y \in Fraction /\ y[1] > 0
  BY <1>5, MeanPositive
<1>9. WA!WidthSquared(xs, q, t2, "harmonic") = square
  BY DEF WA!WidthSquared
<1> HIDE DEF V, y
<1>10. size \in Int /\ (size <= h <=> narrow)
  BY <1>4, <1>5, <1>7, <1>8, HarmonicNarrow
<1> HIDE DEF size, r, square
<1>11. n >= r <=> h >= size /\ h >= M
  BY <1>1, <1>2, <1>5, <1>6, <1>10, RequiredIs
<1>12. h >= size <=> size <= h
  BY <1>5, <1>10
<1> QED
  BY <1>9, <1>10, <1>11, <1>12 DEF q, r

-----------------------------------------------------------------------------
(* Proportions: the readings are zeros and ones. *)

\* A total of fractions with the denominator D has the total of their numerators.
LEMMA TotalOf ==
  ASSUME NEW xs \in Seq(Fraction), NEW f, NEW g, NEW D \in Nat \ {0}, f[0] = 0,
         \A i \in 0 .. Len(xs) : f[i] \in Int,
         \A i \in 1 .. Len(xs) : g[i] \in Int /\ Is(xs[i], g[i], D) /\ f[i] = f[i - 1] + g[i]
  PROVE  WA!Total(xs) \in Fraction /\ Is(WA!Total(xs), f[Len(xs)], D)
<1> DEFINE sum == CHOOSE h : h = [i \in 0 .. Len(xs) |-> IF i = 0 THEN WA!Zero ELSE WA!Add(h[i - 1], xs[i])]
           wrong == {i \in 0 .. Len(xs) : ~(sum[i] \in Fraction /\ Is(sum[i], f[i], D))}
<1>1. Len(xs) \in Nat
  OBVIOUS
<1>2. AreSums(xs, Len(xs), sum)
  <2>1. \E h : h = [i \in 0 .. Len(xs) |-> IF i = 0 THEN WA!Zero ELSE WA!Add(h[i - 1], xs[i])]
    BY <1>1, SumsThere DEF AreSums
  <2> QED
    BY <2>1, Zenon DEF AreSums
<1>3. WA!Total(xs) = sum[Len(xs)]
  BY DEF WA!Total
<1> HIDE DEF sum
<1>4. ASSUME wrong /= {} PROVE FALSE
  <2>1. PICK i \in wrong : \A l \in wrong : i <= l
    <3>1. wrong \in SUBSET Nat
      OBVIOUS
    <3> HIDE DEF wrong
    <3> QED
      BY <1>4, <3>1, Least
  <2>2. i \in 0 .. Len(xs) /\ ~(sum[i] \in Fraction /\ Is(sum[i], f[i], D))
    OBVIOUS
  <2>3. sum[i] = IF i = 0 THEN WA!Zero ELSE WA!Add(sum[i - 1], xs[i])
    BY <1>2, <2>2 DEF AreSums
  <2>4. CASE i = 0
    <3>1. WA!Zero \in Fraction /\ WA!Zero = <<0, 1>>
      BY WholeIs DEF WA!Zero, WA!Whole
    <3>2. Is(WA!Zero, 0, D)
      BY <3>1 DEF Is
    <3> QED
      BY <2>2, <2>3, <2>4, <3>1, <3>2
  <2>5. CASE i /= 0
    <3>1. i - 1 \in 0 .. Len(xs) /\ i - 1 < i /\ i \in 1 .. Len(xs)
      BY <2>2, <2>5
    <3>2. sum[i - 1] \in Fraction /\ Is(sum[i - 1], f[i - 1], D)
      BY <2>1, <3>1
    <3>3. xs[i] \in Fraction
      BY <3>1
    <3>4. f[i - 1] \in Int /\ g[i] \in Int /\ Is(xs[i], g[i], D) /\ f[i] = f[i - 1] + g[i] /\ f[i] \in Int
      BY <2>2, <3>1
    <3> DEFINE p == f[i - 1]
               r == g[i]
               z == WA!Add(sum[i - 1], xs[i])
    <3>5. p \in Int /\ r \in Int /\ f[i] = p + r /\ Is(sum[i - 1], p, D) /\ Is(xs[i], r, D)
      BY <3>2, <3>4
    <3> HIDE DEF p, r
    <3>6. z \in Fraction /\ Is(z, p * D + r * D, D * D)
      <4>1. D \in Int
        OBVIOUS
      <4> QED
        BY <4>1, <3>2, <3>3, <3>5, AddOf
    <3> HIDE DEF z
    <3> DEFINE n == p * D + r * D
               E == D * D
    <3>7. n \in Int /\ E \in Int /\ E /= 0 /\ p + r \in Int /\ D \in Int
      <4>1. E \in Nat \ {0}
        BY ProductIs
      <4>2. p * D \in Int /\ r * D \in Int
        BY <3>5
      <4> QED
        BY <3>5, <4>1, <4>2
    <3>8. n * D = (p + r) * E
      BY <3>5
    <3> HIDE DEF n, E
    <3>9. Is(z, n, E)
      BY <3>6 DEF n, E
    <3>10. Is(z, p + r, D)
      BY <3>6, <3>7, <3>8, <3>9, Through
    <3> QED
      BY <2>2, <2>3, <2>5, <3>5, <3>6, <3>10 DEF z
  <2> QED
    BY <2>4, <2>5
<1> QED
  BY <1>1, <1>3, <1>4

\* The mean of one value is its value.
LEMMA MeanOfOne ==
  ASSUME NEW xs \in Seq(Fraction), NEW i \in 1 .. Len(xs), NEW e \in Int, Is(xs[i], e, 1)
  PROVE  LET m == WA!Mean(SubSeq(xs, (i - 1) * 1 + 1, i * 1)) IN m \in Fraction /\ Is(m, e, 1)
<1> DEFINE l == SubSeq(xs, i, i)
           f == [j \in 0 .. 1 |-> j * e]
           g == [j \in 1 .. 1 |-> e]
<1>1. (i - 1) * 1 + 1 = i /\ i * 1 = i
  OBVIOUS
<1>2. l \in Seq(Fraction) /\ Len(l) = 1 /\ l[1] = xs[i]
  OBVIOUS
<1>3. /\ f[0] = 0 /\ f[1] = e
      /\ \A j \in 0 .. 1 : f[j] \in Int
      /\ \A j \in 1 .. 1 : g[j] \in Int /\ f[j] = f[j - 1] + g[j] /\ g[j] = e
  OBVIOUS
<1> HIDE DEF l, f, g
<1>4. \A j \in 1 .. 1 : Is(l[j], g[j], 1)
  BY <1>2, <1>3
<1>5. WA!Total(l) \in Fraction /\ Is(WA!Total(l), e, 1)
  <2>1. /\ \A j \in 0 .. Len(l) : f[j] \in Int
        /\ \A j \in 1 .. Len(l) : g[j] \in Int /\ Is(l[j], g[j], 1) /\ f[j] = f[j - 1] + g[j]
    BY <1>2, <1>3, <1>4
  <2>2. WA!Total(l) \in Fraction /\ Is(WA!Total(l), f[Len(l)], 1)
    <3>1. 1 \in Nat \ {0} /\ f[0] = 0 /\ l \in Seq(Fraction)
      BY <1>2, <1>3
    <3> QED
      BY <2>1, <3>1, TotalOf, Zenon
  <2> QED
    BY <1>2, <1>3, <2>2
<1>6. WA!Mean(l) = WA!Mul(WA!Total(l), <<1, 1>>)
  BY <1>2 DEF WA!Mean
<1>7. <<1, 1>> \in Fraction /\ Is(<<1, 1>>, 1, 1)
  BY ShareOf
<1>8. WA!Mean(l) \in Fraction /\ Is(WA!Mean(l), e * 1, 1 * 1)
  BY <1>5, <1>6, <1>7, MulOf
<1>9. e * 1 = e /\ 1 * 1 = 1
  OBVIOUS
<1>10. WA!Mean(l) \in Fraction /\ Is(WA!Mean(l), e, 1)
  BY <1>8, <1>9, Zenon
<1> QED
  BY <1>1, <1>10 DEF l

\* How many of the first i readings are ones.
Ones(xs, i) == {j \in 1 .. i : xs[j] = WA!One}
Bit(x) == IF x = WA!One THEN 1 ELSE 0

LEMMA BitIs ==
  ASSUME NEW x \in {WA!Zero, WA!One} PROVE x \in Fraction /\ Bit(x) \in {0, 1} /\ Is(x, Bit(x), 1)
<1>1. WA!Zero = <<0, 1>> /\ WA!One = <<1, 1>>
  BY DEF WA!Zero, WA!One, WA!Whole
<1>2. x \in Fraction
  BY WholeIs DEF WA!Zero, WA!One
<1> QED
  BY <1>1, <1>2 DEF Bit, Is

LEMMA OnesCount ==
  ASSUME NEW xs, NEW n \in Nat, \A i \in 1 .. n : xs[i] \in {WA!Zero, WA!One}
  PROVE  /\ Cardinality(Ones(xs, 0)) = 0
         /\ \A i \in 0 .. n : Cardinality(Ones(xs, i)) \in 0 .. i
         /\ \A i \in 1 .. n : Cardinality(Ones(xs, i)) = Cardinality(Ones(xs, i - 1)) + Bit(xs[i])
<1>1. \A i \in 0 .. n : IsFiniteSet(Ones(xs, i)) /\ Cardinality(Ones(xs, i)) \in Nat /\ Cardinality(Ones(xs, i)) <= i
  <2> SUFFICES ASSUME NEW i \in 0 .. n
               PROVE  IsFiniteSet(Ones(xs, i)) /\ Cardinality(Ones(xs, i)) \in Nat /\ Cardinality(Ones(xs, i)) <= i
    OBVIOUS
  <2>1. i \in Nat
    OBVIOUS
  <2>2. IsFiniteSet(1 .. i) /\ Cardinality(1 .. i) = i
    BY <2>1, FS_Interval
  <2>3. Ones(xs, i) \subseteq 1 .. i
    BY DEF Ones
  <2>4. IsFiniteSet(Ones(xs, i)) /\ Cardinality(Ones(xs, i)) <= i
    BY <2>2, <2>3, FS_Subset
  <2> QED
    BY <2>4, FS_CardinalityType
<1>2. Cardinality(Ones(xs, 0)) = 0
  <2>1. 0 \in 0 .. n
    OBVIOUS
  <2> QED
    BY <1>1, <2>1
<1>3. ASSUME NEW i \in 1 .. n PROVE Cardinality(Ones(xs, i)) = Cardinality(Ones(xs, i - 1)) + Bit(xs[i])
  <2>1. i - 1 \in 0 .. n
    OBVIOUS
  <2>2. CASE xs[i] = WA!One
    <3>1. Ones(xs, i) = Ones(xs, i - 1) \union {i} /\ i \notin Ones(xs, i - 1)
      <4>1. \A j : j \in Ones(xs, i) <=> j \in Ones(xs, i - 1) \/ j = i
        BY <2>2 DEF Ones
      <4>2. i \notin Ones(xs, i - 1)
        BY DEF Ones
      <4> QED
        BY <4>1, <4>2
    <3>2. Cardinality(Ones(xs, i - 1) \union {i}) = Cardinality(Ones(xs, i - 1)) + 1
      BY <1>1, <2>1, <3>1, FS_AddElement
    <3> QED
      BY <2>2, <3>1, <3>2 DEF Bit
  <2>3. CASE xs[i] /= WA!One
    <3>1. Ones(xs, i) = Ones(xs, i - 1)
      <4>1. \A j : j \in Ones(xs, i) <=> j \in Ones(xs, i - 1)
        BY <2>3 DEF Ones
      <4> QED
        BY <4>1
    <3>2. Cardinality(Ones(xs, i - 1)) \in Nat
      BY <1>1, <2>1
    <3> QED
      BY <2>3, <3>1, <3>2 DEF Bit
  <2> QED
    BY <2>2, <2>3
<1>4. \A i \in 0 .. n : Cardinality(Ones(xs, i)) \in 0 .. i
  BY <1>1
<1> QED
  BY <1>2, <1>3, <1>4

\* The mean of n readings of which s are ones.
LEMMA MeanOfOnes ==
  ASSUME NEW xs \in Seq(Fraction), NEW n \in Nat \ {0}, Len(xs) = n, \A i \in 1 .. n : xs[i] \in {WA!Zero, WA!One}
  PROVE  WA!Mean(xs) \in Fraction /\ Is(WA!Mean(xs), Cardinality(Ones(xs, n)), n)
<1> DEFINE f == [i \in 0 .. n |-> Cardinality(Ones(xs, i))]
           g == [i \in 1 .. n |-> Bit(xs[i])]
           s == Cardinality(Ones(xs, n))
<1>1. /\ f[0] = 0
      /\ \A i \in 0 .. n : f[i] \in Int
      /\ \A i \in 1 .. n : g[i] \in Int /\ Is(xs[i], g[i], 1) /\ f[i] = f[i - 1] + g[i]
      /\ f[n] = s /\ s \in Int
  <2>1. \A i \in 1 .. n : Bit(xs[i]) \in Int /\ Is(xs[i], Bit(xs[i]), 1)
    BY BitIs
  <2>2. /\ Cardinality(Ones(xs, 0)) = 0
        /\ \A i \in 0 .. n : Cardinality(Ones(xs, i)) \in Int
        /\ \A i \in 1 .. n : Cardinality(Ones(xs, i)) = Cardinality(Ones(xs, i - 1)) + Bit(xs[i])
    BY OnesCount
  <2>3. n \in 0 .. n /\ 0 \in 0 .. n
    OBVIOUS
  <2>4. \A i \in 1 .. n : i \in 0 .. n /\ i - 1 \in 0 .. n
    OBVIOUS
  <2> QED
    BY <2>1, <2>2, <2>3, <2>4
<1> HIDE DEF f, g, s
<1>2. WA!Total(xs) \in Fraction /\ Is(WA!Total(xs), s, 1)
  <2>1. 1 \in Nat \ {0}
    OBVIOUS
  <2>2. WA!Total(xs) \in Fraction /\ Is(WA!Total(xs), f[Len(xs)], 1)
    BY <1>1, <2>1, TotalOf, Zenon
  <2> QED
    BY <1>1, <2>2
<1>3. WA!Mean(xs) = WA!Mul(WA!Total(xs), <<1, n>>)
  BY DEF WA!Mean
<1>4. <<1, n>> \in Fraction /\ Is(<<1, n>>, 1, n)
  BY ShareOf
<1>5. WA!Mean(xs) \in Fraction /\ Is(WA!Mean(xs), s * 1, 1 * n)
  BY <1>1, <1>2, <1>3, <1>4, MulOf
<1>6. s * 1 = s /\ 1 * n = n
  BY <1>1
<1> QED
  BY <1>5, <1>6, Zenon DEF s

\* The squared deviations of the first i readings from a mean of s / n, k of them ones, times n^2.
SquaresOfOnes(n, s, i, k) == i * (s * s) + k * (n * n - 2 * (n * s))
Bits == {0, 1}
Off(n, s, e) == (e * n - s) * (e * n - s)
OneMore(n, s, i, k, e) == /\ SquaresOfOnes(n, s, i, k + e) = SquaresOfOnes(n, s, i - 1, k) + Off(n, s, e)
                         /\ SquaresOfOnes(n, s, i, k) \in Int

LEMMA SquareOfOne ==
  ASSUME NEW u \in Nat, NEW v \in Nat, NEW j \in Nat, NEW p \in Nat, NEW bit \in Bits
  PROVE  OneMore(u, v, j, p, bit)
<1> DEFINE q == v * v
           c == u * u - 2 * (u * v)
<1>1. q \in Int /\ c \in Int
  OBVIOUS
<1>2. (bit * u - v) * (bit * u - v) = q + bit * c
  <2>1. CASE bit = 0
    BY <2>1
  <2>2. CASE bit = 1
    <3>1. (u - v) * (u - v) = q + c
      OBVIOUS
    <3> QED
      BY <2>2, <3>1
  <2> QED
    BY <2>1, <2>2 DEF Bits
<1> DEFINE t == (bit * u - v) * (bit * u - v)
<1> HIDE DEF q, c, t
<1>0. bit \in Int
  BY DEF Bits
<1>3. j * q = (j - 1) * q + q /\ (p + bit) * c = p * c + bit * c
  BY <1>0, <1>1
<1>4. j * q \in Int /\ (j - 1) * q \in Int /\ p * c \in Int /\ bit * c \in Int
  BY <1>0, <1>1
<1>5. SquaresOfOnes(u, v, j, p + bit) = j * q + (p + bit) * c /\ SquaresOfOnes(u, v, j - 1, p) = (j - 1) * q + p * c
      /\ SquaresOfOnes(u, v, j, p) = j * q + p * c
  BY DEF SquaresOfOnes, q, c
<1>6. t = q + bit * c
  BY <1>2 DEF t
<1>7. j * q + (p + bit) * c = ((j - 1) * q + p * c) + t
  BY <1>1, <1>3, <1>4, <1>6
<1> QED
  BY <1>4, <1>5, <1>7 DEF t, Off, OneMore

LEMMA AllSquares ==
  ASSUME NEW n \in Nat, NEW s \in Nat
  PROVE  SquaresOfOnes(n, s, n, s) = (s * (n - s)) * n /\ SquaresOfOnes(n, s, 0, 0) = 0
<1>1. n * (s * s) + s * (n * n - 2 * (n * s)) = (s * (n - s)) * n
  <2> DEFINE a == n * (s * s)
             b == s * (n * n)
  <2>1. a \in Int /\ b \in Int
    OBVIOUS
  <2>2. s * (n * n - 2 * (n * s)) = b - 2 * a /\ (s * (n - s)) * n = b - a
    OBVIOUS
  <2> HIDE DEF a, b
  <2>3. a + (b - 2 * a) = b - a
    BY <2>1
  <2> QED
    BY <2>2, <2>3 DEF a
<1> QED
  BY <1>1 DEF SquaresOfOnes

\* The variance of n readings of which s are ones.
LEMMA VarianceOfOnes ==
  ASSUME NEW xs \in Seq(Fraction), NEW n \in Nat, n >= 2, Len(xs) = n, \A i \in 1 .. n : xs[i] \in {WA!Zero, WA!One}
  PROVE  LET s == Cardinality(Ones(xs, n))
         IN WA!Variance(xs, 1) \in Fraction /\ Is(WA!Variance(xs, 1), (s * (n - s)) * n, (n * n) * (n - 1))
<1> DEFINE s == Cardinality(Ones(xs, n))
           k(i) == Cardinality(Ones(xs, i))
           m == WA!Mean(xs)
           one(i) == WA!Mean(SubSeq(xs, (i - 1) * 1 + 1, i * 1))
           d == WA!Deviations(xs, 1)
           sq == [i \in DOMAIN d |-> WA!Square(d[i])]
           e(i) == Bit(xs[i])
           F == [i \in 0 .. n |-> SquaresOfOnes(n, s, i, k(i))]
           G == [i \in 1 .. n |-> (e(i) * n - s) * (e(i) * n - s)]
           D == n * n
<1>1. n \in Nat \ {0} /\ D \in Nat \ {0}
  BY ProductIs
<1>2. m \in Fraction /\ Is(m, s, n)
  BY <1>1, MeanOfOnes
<1>3. /\ k(0) = 0 /\ k(n) = s /\ s \in Nat /\ s <= n
      /\ \A i \in 0 .. n : k(i) \in Nat
      /\ \A i \in 1 .. n : k(i) = k(i - 1) + e(i)
  <2>1. n \in 0 .. n
    OBVIOUS
  <2> QED
    BY <2>1, OnesCount
<1>4. d = [i \in 1 .. n |-> WA!Sub(one(i), m)]
  <2>1. Len(xs) \div 1 = n
    OBVIOUS
  <2>2. WA!SubsessionMeans(xs, 1) = [i \in 1 .. n |-> one(i)]
    BY <2>1 DEF WA!SubsessionMeans
  <2> HIDE DEF one, m
  <2>3. WA!From([i \in 1 .. n |-> one(i)], m) = [i \in 1 .. n |-> WA!Sub(one(i), m)]
    BY DEF WA!From
  <2> QED
    BY <2>2, <2>3 DEF WA!Deviations, m
<1> HIDE DEF m, d
<1>5. ASSUME NEW i \in 1 .. n
      PROVE  sq[i] \in Fraction /\ G[i] \in Int /\ Is(sq[i], G[i], D) /\ F[i] = F[i - 1] + G[i]
  <2> DEFINE b == e(i)
             o == one(i)
             x == d[i]
  <2>1. xs[i] \in Fraction /\ b \in {0, 1} /\ Is(xs[i], b, 1) /\ b \in Int /\ i \in 1 .. Len(xs)
    BY BitIs
  <2>2. o \in Fraction /\ Is(o, b, 1)
    <3> HIDE DEF b
    <3> QED
      BY <2>1, MeanOfOne
  <2>3. x = WA!Sub(o, m)
    BY <1>4
  <2> HIDE DEF b, o, x
  <2>4. 1 \in Int /\ n \in Int /\ s \in Int /\ b \in Int
    BY <1>3, <2>1
  <2>5. x \in Fraction /\ Is(x, b * n - s * 1, 1 * n)
    <3> HIDE DEF s
    <3> QED
      BY <1>2, <2>2, <2>3, <2>4, AddOf, Zenon
  <2>6. b * n - s * 1 = b * n - s /\ 1 * n = n /\ b * n - s \in Int
    BY <2>4
  <2>7. Is(x, b * n - s, n)
    BY <2>5, <2>6, Zenon
  <2>8. WA!Square(x) \in Fraction /\ Is(WA!Square(x), (b * n - s) * (b * n - s), n * n)
    BY <2>4, <2>5, <2>6, <2>7, SquareOf, Zenon
  <2>9. sq[i] = WA!Square(x)
    BY <1>4 DEF x
  <2>10. G[i] = (b * n - s) * (b * n - s) /\ G[i] \in Int
    <3>1. G[i] = (b * n - s) * (b * n - s)
      BY DEF b
    <3> QED
      BY <2>6, <3>1
  <2>11. F[i] = F[i - 1] + G[i]
    <3>1. i \in 0 .. n /\ i - 1 \in 0 .. n /\ i \in Nat \ {0}
      OBVIOUS
    <3>2. k(i) = k(i - 1) + b /\ k(i - 1) \in Nat
      BY <1>3, <3>1 DEF b
    <3>3. SquaresOfOnes(n, s, i, k(i - 1) + b) = SquaresOfOnes(n, s, i - 1, k(i - 1)) + Off(n, s, b)
      <4> DEFINE h == k(i - 1)
      <4>1. h \in Nat /\ s \in Nat
        BY <1>3, <3>2
      <4> HIDE DEF h, s
      <4>2. SquaresOfOnes(n, s, i, h + b) = SquaresOfOnes(n, s, i - 1, h) + Off(n, s, b)
        <5>1. n \in Nat /\ s \in Nat /\ i \in Nat /\ h \in Nat /\ b \in Bits
          BY <2>1, <3>1, <4>1 DEF Bits
        <5>2. OneMore(n, s, i, h, b)
          BY <5>1, SquareOfOne, Zenon
        <5> QED
          BY <5>2 DEF OneMore
      <4> QED
        BY <4>2 DEF h
    <3>4. F[i] = SquaresOfOnes(n, s, i, k(i)) /\ F[i - 1] = SquaresOfOnes(n, s, i - 1, k(i - 1))
      BY <3>1
    <3> QED
      BY <2>10, <3>2, <3>3, <3>4, Zenon DEF Off
  <2> HIDE DEF sq, G, F
  <2> QED
    BY <2>8, <2>9, <2>10, <2>11 DEF D
<1>6. F[0] = 0 /\ F[n] = (s * (n - s)) * n /\ \A i \in 0 .. n : F[i] \in Int
  <2>1. F[0] = SquaresOfOnes(n, s, 0, 0) /\ F[n] = SquaresOfOnes(n, s, n, s)
    BY <1>3
  <2>2. SquaresOfOnes(n, s, n, s) = (s * (n - s)) * n /\ SquaresOfOnes(n, s, 0, 0) = 0
    <3> HIDE DEF s
    <3> QED
      BY <1>3, AllSquares
  <2>3. ASSUME NEW i \in 0 .. n PROVE F[i] \in Int
    <3> DEFINE h == k(i)
    <3>1. h \in Nat /\ s \in Nat
      BY <1>3
    <3>2. F[i] = SquaresOfOnes(n, s, i, h)
      OBVIOUS
    <3> HIDE DEF h, s, F
    <3>3. i * (s * s) + h * (n * n - 2 * (n * s)) \in Int
      BY <3>1
    <3> QED
      BY <3>2, <3>3 DEF SquaresOfOnes
  <2> QED
    BY <2>1, <2>2, <2>3, Zenon
<1>7. sq \in Seq(Fraction) /\ Len(sq) = n
  <2>1. sq = [i \in 1 .. n |-> sq[i]]
    BY <1>4
  <2>2. \A i \in 1 .. n : sq[i] \in Fraction
    BY <1>5
  <2> HIDE DEF sq
  <2> QED
    BY <2>1, <2>2, ListIs
<1>8. WA!SumOfSquares(d) = WA!Total(sq)
  BY DEF WA!SumOfSquares
<1> HIDE DEF sq, F, G, D
<1>9. WA!Total(sq) \in Fraction /\ Is(WA!Total(sq), (s * (n - s)) * n, D)
  <2>1. \A i \in 1 .. n : G[i] \in Int /\ Is(sq[i], G[i], D) /\ F[i] = F[i - 1] + G[i]
    BY <1>5
  <2>2. WA!Total(sq) \in Fraction /\ Is(WA!Total(sq), F[Len(sq)], D)
    BY <1>1, <1>6, <1>7, <2>1, TotalOf, Zenon
  <2> QED
    BY <1>6, <1>7, <2>2
<1>10. WA!Variance(xs, 1) = WA!Mul(WA!Total(sq), <<1, n - 1>>)
  <2>1. Len(xs) \div 1 - 1 = n - 1
    OBVIOUS
  <2> QED
    BY <1>8, <2>1 DEF WA!Variance, d
<1> DEFINE K == (s * (n - s)) * n
<1>11. <<1, n - 1>> \in Fraction /\ Is(<<1, n - 1>>, 1, n - 1) /\ K \in Int /\ n - 1 \in Int
  <2>1. n - 1 \in Nat \ {0} /\ s \in Int
    BY <1>3
  <2>2. K \in Int
    <3> HIDE DEF s
    <3> QED
      BY <2>1
  <2> QED
    BY <2>1, <2>2, ShareOf
<1>12. WA!Variance(xs, 1) \in Fraction /\ Is(WA!Variance(xs, 1), K * 1, D * (n - 1))
  <2>1. 1 \in Int /\ D \in Int
    BY <1>1
  <2>2. Is(WA!Total(sq), K, D)
    BY <1>9
  <2> HIDE DEF K
  <2> QED
    <3> DEFINE w == <<1, n - 1>>
               r == n - 1
               t == WA!Total(sq)
    <3>1. t \in Fraction /\ w \in Fraction /\ Is(t, K, D) /\ Is(w, 1, r) /\ K \in Int /\ r \in Int
      BY <1>9, <1>11, <2>2
    <3> HIDE DEF w, r, t
    <3>2. WA!Mul(t, w) \in Fraction /\ Is(WA!Mul(t, w), K * 1, D * r)
      BY <2>1, <3>1, MulOf, Zenon
    <3> QED
      BY <1>10, <3>2 DEF w, r, t
<1>13. K * 1 = K
  <2> HIDE DEF K
  <2> QED
    BY <1>11
<1> QED
  BY <1>12, <1>13, Zenon DEF K, D

\* The variance of a proportion.
LEMMA ProportionOfOnes ==
  ASSUME NEW m \in Fraction, NEW n \in Nat \ {0}, NEW s \in Nat, Is(m, s, n)
  PROVE  WA!OfProportion(m) \in Fraction /\ Is(WA!OfProportion(m), s * (n - s), n * n)
<1> DEFINE o == WA!Sub(WA!One, m)
<1>1. WA!One \in Fraction /\ Is(WA!One, 1, 1)
  BY WholeOf DEF WA!One
<1>2. 1 \in Int /\ s \in Int /\ n \in Int
  OBVIOUS
<1>3. o \in Fraction /\ Is(o, 1 * n - s * 1, 1 * n)
  BY <1>1, <1>2, AddOf, Zenon
<1>4. 1 * n - s * 1 = n - s /\ 1 * n = n /\ n - s \in Int
  OBVIOUS
<1> HIDE DEF o
<1>5. Is(o, n - s, n)
  BY <1>3, <1>4, Zenon
<1>6. WA!Mul(m, o) \in Fraction /\ Is(WA!Mul(m, o), s * (n - s), n * n)
  BY <1>2, <1>3, <1>4, <1>5, MulOf, Zenon
<1> QED
  BY <1>6 DEF WA!OfProportion, o

LEMMA FourTimes ==
  ASSUME NEW t2 \in Fraction, t2[1] >= 0
  PROVE  WA!Mul(WA!Whole(4), t2) \in Fraction /\ WA!Mul(WA!Whole(4), t2)[1] >= 0
<1> DEFINE T == WA!Mul(WA!Whole(4), t2)
           a == t2[1]
           b == t2[2]
<1>1. a \in Nat /\ b \in Nat \ {0} /\ Is(t2, a, b)
  BY ItselfIs
<1>2. WA!Whole(4) \in Fraction /\ Is(WA!Whole(4), 4, 1)
  BY WholeOf
<1> HIDE DEF a, b
<1>3. 4 \in Int /\ 1 \in Int /\ a \in Int /\ b \in Int
  BY <1>1
<1>4. T \in Fraction /\ Is(T, 4 * a, 1 * b)
  BY <1>1, <1>2, <1>3, MulOf, Zenon
<1> HIDE DEF T
<1>5. T[1] \in Int /\ T[2] \in Nat \ {0} /\ T[1] * (1 * b) = (4 * a) * T[2]
  BY <1>4, ItselfIs DEF Is
<1>6. 1 * b \in Nat \ {0} /\ 4 * a \in Nat
  BY <1>1
<1>7. T[1] < 0 <=> 4 * a < 0
  BY <1>5, <1>6, SignOf
<1> QED
  BY <1>4, <1>5, <1>6, <1>7 DEF T

\* A proportion is not reported to have enough readings before its interval is narrow.
LEMMA ProportionSizeRight ==
  ASSUME NEW xs \in Seq(Fraction), \A i \in 1 .. Len(xs) : xs[i] \in {WA!Zero, WA!One},
         NEW W \in Fraction, W[1] > 0 \/ W = WA!Zero, NEW limit, NEW t2 \in Fraction, t2[1] >= 0, NEW M \in Nat,
         WA!Required(xs, W, limit, t2, "proportion", M) > 0,
         Len(xs) >= WA!Required(xs, W, limit, t2, "proportion", M)
  PROVE  /\ WA!WidthSquared(xs, 1, t2, "proportion") /= WA!Infinite
         /\ WA!Leq(WA!WidthSquared(xs, 1, t2, "proportion"), WA!Square(W))
<1> DEFINE n == Len(xs)
           T == WA!Mul(WA!Whole(4), t2)
           V == WA!Variance(xs, 1)
           P == WA!OfProportion(WA!Mean(xs))
           size == WA!Ceiling(WA!Mul(V, WA!Div(T, WA!Square(W))))
           r == WA!Required(xs, W, limit, t2, "proportion", M)
           s == Cardinality(Ones(xs, n))
           K == s * (n - s)
<1>1. n \in Nat /\ r > 0 /\ n >= r
  OBVIOUS
<1>2. r = WA!RequiredOf(n, WA!SizeFor(xs, 1, W, t2, "proportion"), M)
  BY DEF WA!Required, WA!OptimalSampleSize
<1>3. n >= 3 /\ W /= WA!Zero
  BY <1>1, <1>2 DEF WA!SizeFor, WA!RequiredOf
<1>4. WA!SizeFor(xs, 1, W, t2, "proportion") = <<1, size>>
  <2>1. "proportion" /= "harmonic"
    OBVIOUS
  <2> QED
    BY <1>3, <2>1 DEF WA!SizeFor
<1>5. T \in Fraction /\ T[1] >= 0
  BY FourTimes
<1>6. WA!Mean(xs) \in Fraction /\ Is(WA!Mean(xs), s, n)
  BY <1>1, <1>3, MeanOfOnes
<1>7. V \in Fraction /\ Is(V, K * n, (n * n) * (n - 1))
  BY <1>1, <1>3, VarianceOfOnes
<1>8. s \in Nat /\ s <= n
  <2>1. n \in 0 .. n
    BY <1>1
  <2> QED
    <3>1. \A i \in 1 .. n : xs[i] \in {WA!Zero, WA!One}
      OBVIOUS
    <3> HIDE DEF n
    <3>2. \A i \in 0 .. n : Cardinality(Ones(xs, i)) \in 0 .. i
      BY <1>1, <3>1, OnesCount
    <3> QED
      BY <1>1, <2>1, <3>2
<1> HIDE DEF s
<1>9. P \in Fraction /\ Is(P, s * (n - s), n * n)
  BY <1>1, <1>3, <1>6, <1>8, ProportionOfOnes
<1>10. K \in Nat
  <2>1. n - s \in Nat
    BY <1>1, <1>8
  <2> QED
    BY <1>8, <2>1, ProductNotNegative
<1>11. WA!WidthSquared(xs, 1, t2, "proportion") = WA!Mul(T, WA!Mul(P, <<1, n>>))
  <2>1. "proportion" /= "mean" /\ "proportion" /= "harmonic" /\ n \div 1 = n
    BY <1>1
  <2> QED
    BY <2>1 DEF WA!WidthSquared
<1> HIDE DEF T, V, P, r
<1>12. size \in Int
  <2>1. 1 \in Nat \ {0}
    OBVIOUS
  <2> QED
    BY <1>3, <1>5, <1>7, <2>1, NarrowIs
<1> HIDE DEF size, n
<1>13. n >= size
  <2>1. 1 \in Nat \ {0} /\ n \div 1 = n
    BY <1>1
  <2>2. n \div 1 >= size
    BY <1>1, <1>2, <1>4, <1>12, <2>1, RequiredIs
  <2> QED
    BY <2>1, <2>2
<1>14. size <= n /\ n >= 2 /\ W[1] > 0
  BY <1>1, <1>3, <1>12, <1>13
<1>15. Is(P, K, n * n)
  BY <1>9
<1> HIDE DEF K
<1>16. WA!Leq(WA!Mul(T, WA!Mul(P, <<1, n>>)), WA!Square(W))
  BY <1>1, <1>5, <1>7, <1>9, <1>10, <1>14, <1>15, NarrowProportion DEF size
<1>17. WA!Mul(T, WA!Mul(P, <<1, n>>)) /= WA!Infinite
  BY <1>1, <1>5, <1>9, <1>14, ShareOf, MulIs, FiniteIs
<1> QED
  BY <1>11, <1>16, <1>17

-----------------------------------------------------------------------------
(* The comparison of two means. *)

LEMMA RatOfZero == ASSUME NEW b \in Nat \ {0} PROVE WA!Rat(0, b) = WA!Zero
<1>1. WA!Abs(0) = 0 /\ WA!Abs(b) = b
  BY DEF WA!Abs
<1>2. WA!gcd[<<0, b>>] = b
  <2>1. <<0, b>> \in Nat \X Nat /\ <<b, 0>> \in Nat \X Nat /\ 0 % b = 0
    OBVIOUS
  <2>2. WA!gcd[<<0, b>>] = WA!gcd[<<b, 0>>]
    BY <2>1, EuclidIs
  <2>3. WA!gcd[<<b, 0>>] = b
    BY <2>1, EuclidIs
  <2> QED
    BY <2>2, <2>3
<1>3. 0 \div b = 0 /\ b \div b = 1 /\ ~(b < 0)
  OBVIOUS
<1> QED
  BY <1>1, <1>2, <1>3 DEF WA!Rat, WA!Gcd, WA!Over, WA!Zero, WA!Whole

\* A difference with the numerator 0 is written as Zero.
LEMMA NoDifference ==
  ASSUME NEW x \in Fraction, NEW y \in Fraction, WA!Sub(x, y)[1] = 0 PROVE WA!Sub(x, y) = WA!Zero
<1> DEFINE z == WA!Neg(y)
           g == WA!Gcd(x[2], z[2])
           k == z[2] \div g
           n == x[1] * k + z[1] * (x[2] \div g)
           e == x[2] * k
           r == WA!Rat(n, e)
<1>1. x[1] \in Int /\ z[1] \in Int /\ x[2] \in Nat \ {0} /\ z[2] \in Nat \ {0}
  BY NegIs DEF Fraction
<1>2. WA!Sub(x, y) = r
  BY DEF WA!Sub, WA!Add, WA!AddOver
<1> HIDE DEF z
<1>3. g \in 1 .. z[2]
  BY <1>1, DivisorIs DEF WA!Gcd, WA!Abs
<1> HIDE DEF g
<1>4. k \in Nat \ {0} /\ x[2] \div g \in Int
  BY <1>1, <1>3
<1> HIDE DEF k
<1>5. n \in Int /\ e \in Nat \ {0}
  <2>1. e \in Nat \ {0}
    BY <1>1, <1>4, ProductIs
  <2>2. x[1] * k \in Int /\ z[1] * (x[2] \div g) \in Int
    BY <1>1, <1>4
  <2> QED
    BY <2>1, <2>2
<1> HIDE DEF n, e
<1>6. r \in Fraction /\ r[1] * e = n * r[2]
  BY <1>5, RatIs, RatValue DEF Is
<1>7. r[1] = 0 /\ r[2] \in Nat \ {0}
  BY <1>2, <1>6, ItselfIs
<1>8. n = 0
  BY <1>5, <1>6, <1>7
<1> QED
  BY <1>2, <1>5, <1>8, RatOfZero

\* What significance comes to, in integers.
LEMMA RoomFor ==
  ASSUME NEW p \in Int, NEW q \in Int, NEW u \in Int, NEW v \in Int, NEW a \in Int, NEW e \in Int,
         NEW b \in Int, NEW f \in Int
  PROVE  p * (v * (e * f)) - (u * (a * f + b * e)) * q = f * ((p * v) * e - a * (q * u)) - b * ((q * u) * e)
<1> DEFINE A == p * v
           B == q * u
<1>1. p * (v * (e * f)) = (A * e) * f
  OBVIOUS
<1>2. (u * (a * f + b * e)) * q = (a * B) * f + (b * B) * e
  OBVIOUS
<1>3. f * (A * e - a * B) = (A * e) * f - (a * B) * f
  <2>1. A * e \in Int /\ a * B \in Int
    OBVIOUS
  <2> HIDE DEF A, B
  <2> QED
    BY <2>1
<1>4. b * (B * e) = (b * B) * e
  OBVIOUS
<1>5. (A * e) * f \in Int /\ (a * B) * f \in Int /\ (b * B) * e \in Int
  OBVIOUS
<1> QED
  BY <1>1, <1>2, <1>3, <1>4, <1>5

\* The room that the error a / e of the baseline leaves below the squared difference p / q.
RoomOf(p, q, u, v, a, e) == (p * v) * e - a * (q * u)

LEMMA RoomIs ==
  ASSUME NEW S \in Fraction, NEW T \in Fraction, NEW E \in Fraction, NEW p \in Nat, NEW q \in Nat \ {0},
         NEW u \in Nat \ {0}, NEW v \in Nat \ {0}, NEW a \in Nat, NEW e \in Nat \ {0},
         Is(S, p, q), Is(T, u, v), Is(E, a, e)
  PROVE  LET R == WA!Sub(WA!Div(S, T), E)
         IN /\ R \in Fraction /\ Is(R, RoomOf(p, q, u, v, a, e), (q * u) * e)
            /\ WA!Leq(R, WA!Zero) <=> RoomOf(p, q, u, v, a, e) <= 0
            /\ RoomOf(p, q, u, v, a, e) \in Int /\ (q * u) * e \in Nat \ {0}
<1> DEFINE D == WA!Div(S, T)
           R == WA!Sub(D, E)
           B == q * u
           A == p * v
           X == A * e - a * B
           Y == B * e
<1>1. p \in Int /\ q \in Int /\ u \in Int /\ v \in Int /\ a \in Int /\ e \in Int /\ u /= 0 /\ v /= 0
  OBVIOUS
<1>2. D \in Fraction /\ Is(D, A, B)
  BY <1>1, DivOf, Zenon
<1>3. B \in Nat \ {0} /\ A \in Int
  BY <1>1, ProductIs
<1> HIDE DEF A, B, D
<1>4. A * e \in Int /\ a * B \in Int
  BY <1>1, <1>3
<1>5. X \in Int
  <2>1. \A x, y \in Int : x - y \in Int
    OBVIOUS
  <2> QED
    BY <1>4, <2>1
<1>6. Y \in Nat \ {0}
  BY <1>3, ProductIs
<1>7. R \in Fraction /\ Is(R, X, Y)
  <2>1. B \in Int
    BY <1>3
  <2> QED
    BY <1>1, <1>2, <1>3, <2>1, AddOf, Zenon
<1>8. WA!Zero \in Fraction /\ Is(WA!Zero, 0, 1)
  BY WholeOf DEF WA!Zero
<1> HIDE DEF X, Y, R
<1>9. WA!Leq(R, WA!Zero) <=> X <= 0
  <2>1. 1 \in Nat \ {0} /\ 0 \in Int
    OBVIOUS
  <2>2. WA!Leq(R, WA!Zero) <=> X * 1 <= 0 * Y
    BY <1>5, <1>6, <1>7, <1>8, <2>1, OrderOf
  <2> QED
    BY <1>5, <1>6, <2>2
<1> QED
  BY <1>5, <1>6, <1>7, <1>9 DEF RoomOf, R, X, Y, A, B, D

\* A difference is significant with an error a / e of the baseline and b / f of the new readings if
\* the room is large enough.
LEMMA SignificantIs ==
  ASSUME NEW S \in Fraction, NEW T \in Fraction, NEW E \in Fraction, NEW N \in Fraction, NEW p \in Nat,
         NEW q \in Nat \ {0}, NEW u \in Nat \ {0}, NEW v \in Nat \ {0}, NEW a \in Nat, NEW e \in Nat \ {0},
         NEW b \in Nat, NEW f \in Nat \ {0}, Is(S, p, q), Is(T, u, v), Is(E, a, e), Is(N, b, f)
  PROVE  /\ WA!Less(WA!Mul(T, E), S) <=> RoomOf(p, q, u, v, a, e) > 0
         /\ WA!Leq(WA!Mul(T, WA!Add(E, N)), S) <=> b * ((q * u) * e) <= f * RoomOf(p, q, u, v, a, e)
<1>1. /\ p \in Int /\ q \in Int /\ u \in Int /\ v \in Int /\ a \in Int /\ e \in Int /\ b \in Int /\ f \in Int
      /\ p \in Nat /\ q \in Nat
  OBVIOUS
<1>2. WA!Less(WA!Mul(T, E), S) <=> RoomOf(p, q, u, v, a, e) > 0
  <2> DEFINE Z == WA!Mul(T, E)
             n == u * a
             m == v * e
  <2>1. Z \in Fraction /\ Is(Z, n, m)
    BY <1>1, MulOf, Zenon
  <2>2. m \in Nat \ {0} /\ n \in Int
    BY <1>1, ProductIs
  <2> HIDE DEF Z, n, m
  <2>3. WA!Less(Z, S) <=> n * q < p * m
    BY <1>1, <2>1, <2>2, OrderOf
  <2>4. n * q = a * (q * u) /\ p * m = (p * v) * e
    BY <1>1 DEF n, m
  <2>5. a * (q * u) \in Int /\ (p * v) * e \in Int
    BY <1>1
  <2>6. a * (q * u) < (p * v) * e <=> (p * v) * e - a * (q * u) > 0
    <3>1. \A x, y \in Int : x < y <=> y - x > 0
      OBVIOUS
    <3> QED
      BY <2>5, <3>1
  <2> QED
    BY <2>3, <2>4, <2>6 DEF RoomOf, Z
<1>3. WA!Leq(WA!Mul(T, WA!Add(E, N)), S) <=> b * ((q * u) * e) <= f * RoomOf(p, q, u, v, a, e)
  <2> DEFINE A == WA!Add(E, N)
             Z == WA!Mul(T, A)
             x == a * f + b * e
             y == e * f
             n == u * x
             m == v * y
             L == b * ((q * u) * e)
             R == f * RoomOf(p, q, u, v, a, e)
  <2>1. A \in Fraction /\ Is(A, x, y)
    BY <1>1, AddOf, Zenon
  <2>2. x \in Int /\ y \in Nat \ {0} /\ y \in Int
    <3>1. y \in Nat \ {0}
      BY ProductIs
    <3>2. x \in Int
      BY <1>1
    <3> QED
      BY <3>1, <3>2
  <2> HIDE DEF A, x, y
  <2>3. Z \in Fraction /\ Is(Z, n, m)
    BY <1>1, <2>1, <2>2, MulOf, Zenon
  <2>4. m \in Nat \ {0} /\ n \in Int
    BY <1>1, <2>2, ProductIs
  <2> HIDE DEF Z, n, m
  <2>5. WA!Leq(Z, S) <=> n * q <= p * m
    BY <1>1, <2>3, <2>4, OrderOf
  <2>6. p * m - n * q = R - L
    BY <1>1, RoomFor DEF n, m, x, y, RoomOf
  <2>7. p * m \in Int /\ n * q \in Int /\ R \in Int /\ L \in Int
    <3>1. RoomOf(p, q, u, v, a, e) \in Int
      <4>1. (p * v) * e \in Int /\ a * (q * u) \in Int
        BY <1>1
      <4>2. \A i, j \in Int : i - j \in Int
        OBVIOUS
      <4> QED
        BY <4>1, <4>2 DEF RoomOf
    <3>2. L \in Int
      BY <1>1
    <3> QED
      BY <1>1, <2>4, <3>1, <3>2
  <2> HIDE DEF L, R
  <2>8. n * q <= p * m <=> L <= R
    <3>1. \A i, j, k, l \in Int : i - j = k - l => (j <= i <=> l <= k)
      OBVIOUS
    <3> QED
      BY <2>6, <2>7, <3>1
  <2> QED
    BY <2>5, <2>8 DEF Z, A, L, R
<1> QED
  BY <1>2, <1>3

\* The size is the least with which the room is enough: b / g new variance, a room of X / Y.
LEMMA NewSizeIs ==
  ASSUME NEW V \in Fraction, NEW R \in Fraction, NEW b \in Nat, NEW g \in Nat \ {0}, NEW X \in Int, NEW Y \in Nat \ {0},
         Is(V, b, g), Is(R, X, Y), X > 0
  PROVE  LET c == WA!Ceiling(WA!Div(V, R))
         IN c \in Nat /\ \A m \in Nat : m >= c <=> b * Y <= (g * m) * X
<1> DEFINE Z == WA!Div(V, R)
           n == b * Y
           k == g * X
           c == WA!Ceiling(Z)
<1>1. b \in Int /\ g \in Int /\ Y \in Int /\ X /= 0 /\ Y /= 0
  OBVIOUS
<1>2. Z \in Fraction /\ Is(Z, n, k)
  BY <1>1, DivOf, Zenon
<1>3. n \in Nat /\ k \in Nat \ {0}
  <2>1. X \in Nat \ {0} /\ Y \in Nat
    BY <1>1
  <2> QED
    BY <2>1, ProductIs, ProductNotNegative
<1> HIDE DEF Z, n, k
<1>4. c \in Int /\ \A h \in Int : c <= h <=> n <= h * k
  BY <1>2, <1>3, CeilingOf
<1> HIDE DEF c
<1>5. c \in Nat
  <2>1. c <= -1 <=> n <= (-1) * k
    BY <1>4
  <2>2. ~(n <= (-1) * k)
    BY <1>3
  <2> QED
    BY <1>4, <2>1, <2>2
<1>6. ASSUME NEW m \in Nat PROVE m >= c <=> b * Y <= (g * m) * X
  <2>1. m * k = (g * m) * X
    BY <1>1 DEF k
  <2>2. c <= m <=> n <= m * k
    BY <1>4
  <2>3. c <= m <=> m >= c
    BY <1>5
  <2> QED
    BY <2>1, <2>2, <2>3 DEF n
<1> QED
  BY <1>5, <1>6 DEF c, Z

LEMMA DivideByWhole ==
  ASSUME NEW V \in Fraction, NEW n \in Nat \ {0}
  PROVE  /\ WA!Div(V, WA!Whole(n)) \in Fraction /\ Is(WA!Div(V, WA!Whole(n)), V[1], V[2] * n)
         /\ WA!Mul(V, <<1, n>>) \in Fraction /\ Is(WA!Mul(V, <<1, n>>), V[1], V[2] * n)
         /\ V[2] * n \in Nat \ {0}
<1> DEFINE a == V[1]
           k == V[2]
           W == WA!Whole(n)
           H == <<1, n>>
<1>1. a \in Int /\ k \in Int /\ k \in Nat \ {0} /\ Is(V, a, k)
  BY ItselfIs
<1>2. W \in Fraction /\ Is(W, n, 1) /\ H \in Fraction /\ Is(H, 1, n)
  BY WholeOf, ShareOf
<1>3. n \in Int /\ 1 \in Int /\ n /= 0 /\ 1 /= 0
  OBVIOUS
<1> HIDE DEF a, k, W, H
<1>4. WA!Div(V, W) \in Fraction /\ Is(WA!Div(V, W), a * 1, k * n)
  BY <1>1, <1>2, <1>3, DivOf, Zenon
<1>5. WA!Mul(V, H) \in Fraction /\ Is(WA!Mul(V, H), a * 1, k * n)
  BY <1>1, <1>2, <1>3, MulOf, Zenon
<1>6. a * 1 = a
  BY <1>1
<1>7. k * n \in Nat \ {0}
  BY <1>1, ProductIs
<1> QED
  BY <1>4, <1>5, <1>6, <1>7, Zenon DEF a, k, W, H

LEMMA ComparisonRight ==
  ASSUME NEW d \in Fraction, d[1] = 0 => d = WA!Zero, NEW na \in Nat, na >= 2, NEW nb \in Nat, nb >= 2,
         NEW va \in Fraction, va[1] >= 0, NEW vb \in Fraction, vb[1] >= 0, NEW T \in Fraction, T[1] > 0,
         NEW m \in Nat \ {0}
  PROVE  LET c == WA!EqTestSize(d, na, va, nb, vb, T)
             E == WA!Div(va, WA!Whole(na))
         IN (/\ WA!Less(WA!Mul(T, E), WA!Square(d))
             /\ WA!Leq(WA!Mul(T, WA!Add(E, WA!Div(vb, WA!Whole(m)))), WA!Square(d)))
              <=> c /= -1 /\ m >= c
<1> DEFINE S == WA!Square(d)
           E == WA!Div(va, WA!Whole(na))
           F == WA!Mul(va, <<1, na>>)
           N == WA!Div(vb, WA!Whole(m))
           R == WA!Sub(WA!Div(S, T), F)
           c == WA!EqTestSize(d, na, va, nb, vb, T)
           p == d[1] * d[1]
           q == d[2] * d[2]
           u == T[1]
           v == T[2]
           a == va[1]
           e == va[2] * na
           b == vb[1]
           g == vb[2]
           f == g * m
           X == RoomOf(p, q, u, v, a, e)
           Y == (q * u) * e
           small == WA!Less(WA!Mul(T, E), S)
           enough == WA!Leq(WA!Mul(T, WA!Add(E, N)), S)
<1>1. /\ d[1] \in Int /\ d[2] \in Nat \ {0} /\ u \in Nat \ {0} /\ v \in Nat \ {0} /\ Is(T, u, v)
      /\ a \in Nat /\ b \in Nat /\ g \in Nat \ {0} /\ Is(vb, b, g) /\ na \in Nat \ {0}
  BY ItselfIs
<1>2. S \in Fraction /\ Is(S, p, q)
  <2>1. d[1] \in Int /\ d[2] \in Int /\ Is(d, d[1], d[2])
    BY ItselfIs
  <2> QED
    BY <2>1, SquareOf, Zenon
<1>3. p \in Nat /\ q \in Nat \ {0} /\ (p = 0 => d[1] = 0)
  <2>1. q \in Nat \ {0}
    BY <1>1, ProductIs
  <2> DEFINE i == d[1]
  <2>2. i \in Int
    BY <1>1
  <2> HIDE DEF i
  <2>3. i * i \in Nat /\ (i * i = 0 => i = 0)
    BY <2>2
  <2> QED
    BY <2>1, <2>3 DEF i
<1>4. /\ E \in Fraction /\ Is(E, a, e) /\ F \in Fraction /\ Is(F, a, e) /\ e \in Nat \ {0}
      /\ N \in Fraction /\ Is(N, b, f) /\ f \in Nat \ {0}
  BY <1>1, DivideByWhole
<1>5. c = IF va = WA!Zero /\ vb = WA!Zero THEN (IF d = WA!Zero THEN -1 ELSE 0)
          ELSE IF WA!Leq(R, WA!Zero) THEN -1 ELSE WA!Ceiling(WA!Div(vb, R))
  <2>1. ~(na < 2 \/ nb < 2)
    OBVIOUS
  <2> QED
    BY <2>1 DEF WA!EqTestSize, WA!NewSize
<1>6. (va = WA!Zero => a = 0) /\ (vb = WA!Zero => b = 0) /\ (d = WA!Zero => p = 0)
  <2>1. WA!Zero = <<0, 1>>
    BY DEF WA!Zero, WA!Whole
  <2>2. d = WA!Zero => d[1] = 0
    BY <2>1
  <2> QED
    BY <2>1, <2>2
<1>7. d = WA!Zero <=> p = 0
  BY <1>3, <1>6
<1>8. f = g * m
  OBVIOUS
<1> HIDE DEF S, E, F, N, c, p, q, u, v, a, e, b, g, f
<1>9. R \in Fraction /\ Is(R, X, Y) /\ (WA!Leq(R, WA!Zero) <=> X <= 0) /\ X \in Int /\ Y \in Nat \ {0}
  BY <1>1, <1>2, <1>3, <1>4, RoomIs
<1>10. (small <=> X > 0) /\ (enough <=> b * Y <= f * X)
  BY <1>1, <1>2, <1>3, <1>4, SignificantIs
<1> HIDE DEF small, enough, R
<1>11. X = (p * v) * e - a * (q * u)
  BY DEF RoomOf
<1> HIDE DEF X, Y
<1>12. small /\ enough <=> c /= -1 /\ m >= c
  <2>1. CASE va = WA!Zero /\ vb = WA!Zero
    <3>1. a = 0 /\ b = 0 /\ c = IF d = WA!Zero THEN -1 ELSE 0
      BY <1>5, <1>6, <2>1
    <3>2. X = (p * v) * e
      <4>1. a * (q * u) = 0 /\ (p * v) * e \in Int
        BY <1>1, <1>3, <1>4, <3>1
      <4> QED
        BY <1>11, <4>1
    <3>3. CASE p = 0
      <4>1. X = 0
        BY <1>1, <1>4, <3>2, <3>3
      <4> QED
        BY <1>7, <1>10, <3>1, <3>3, <4>1
    <3>4. CASE p /= 0
      <4>1. p * v \in Nat \ {0}
        BY <1>1, <1>3, <3>4, ProductIs
      <4>2. X \in Nat \ {0}
        BY <1>4, <3>2, <4>1, ProductIs
      <4>3. b * Y = 0
        BY <1>9, <3>1
      <4>4. f * X \in Nat
        BY <1>4, <4>2, ProductNotNegative
      <4> QED
        BY <1>7, <1>10, <3>1, <3>4, <4>2, <4>3, <4>4
    <3> QED
      BY <3>3, <3>4
  <2>2. CASE ~(va = WA!Zero /\ vb = WA!Zero)
    <3>1. c = IF X <= 0 THEN -1 ELSE WA!Ceiling(WA!Div(vb, R))
      BY <1>5, <1>9, <2>2
    <3>2. CASE X <= 0
      BY <1>9, <1>10, <3>1, <3>2
    <3>3. CASE X > 0
      <4>1. c \in Nat /\ (m >= c <=> b * Y <= (g * m) * X)
        <5>1. c = WA!Ceiling(WA!Div(vb, R))
          BY <1>9, <3>1, <3>3
        <5>2. m \in Nat
          OBVIOUS
        <5> QED
          BY <1>1, <1>9, <3>3, <5>1, <5>2, NewSizeIs
      <4> QED
        BY <1>8, <1>10, <3>3, <4>1
    <3> QED
      BY <1>9, <3>2, <3>3
  <2> QED
    BY <2>1, <2>2
<1> QED
  BY <1>12 DEF small, enough, c, E, N, S

-----------------------------------------------------------------------------
(* Samples and WpsAnalysis have the same numbers. *)

LEMMA SameRat ==
  \A x, y : /\ SA!Rat(x, y) = WA!Rat(x, y) /\ SA!Gcd(x, y) = WA!Gcd(x, y) /\ SA!Over(x, y, 1) = WA!Over(x, y, 1)
            /\ SA!Whole(x) = WA!Whole(x) /\ SA!Zero = WA!Zero /\ SA!One = WA!One
<1>1. SA!gcd = WA!gcd
  BY DEF SA!gcd, WA!gcd
<1>2. \A x, y : SA!Gcd(x, y) = WA!Gcd(x, y)
  BY <1>1 DEF SA!Gcd, WA!Gcd, SA!Abs, WA!Abs
<1> QED
  BY <1>2 DEF SA!Rat, WA!Rat, SA!Over, WA!Over, SA!Whole, WA!Whole, SA!Zero, WA!Zero, SA!One, WA!One

LEMMA SameArithmetic ==
  \A x, y : /\ SA!Add(x, y) = WA!Add(x, y) /\ SA!Sub(x, y) = WA!Sub(x, y) /\ SA!Mul(x, y) = WA!Mul(x, y)
            /\ SA!Div(x, y) = WA!Div(x, y) /\ SA!Square(x) = WA!Square(x) /\ SA!AbsRat(x) = WA!AbsRat(x)
            /\ SA!Leq(x, y) = WA!Leq(x, y) /\ SA!Less(x, y) = WA!Less(x, y) /\ SA!Ceiling(x) = WA!Ceiling(x)
<1>1. \A x, y : SA!Add(x, y) = WA!Add(x, y)
  BY SameRat DEF SA!Add, WA!Add, SA!AddOver, WA!AddOver
<1>2. \A x, y : SA!Sub(x, y) = WA!Sub(x, y)
  BY <1>1 DEF SA!Sub, WA!Sub, SA!Neg, WA!Neg
<1>3. \A x, y : SA!Mul(x, y) = WA!Mul(x, y)
  BY SameRat DEF SA!Mul, WA!Mul, SA!Times, WA!Times
<1>4. \A x, y : SA!Div(x, y) = WA!Div(x, y)
  BY <1>3, SameRat DEF SA!Div, WA!Div, SA!Inv, WA!Inv
<1>5. \A x : SA!Square(x) = WA!Square(x) /\ SA!AbsRat(x) = WA!AbsRat(x) /\ SA!Ceiling(x) = WA!Ceiling(x)
  BY DEF SA!Square, WA!Square, SA!Times, WA!Times, SA!AbsRat, WA!AbsRat, SA!Abs, WA!Abs, SA!Ceiling, WA!Ceiling
<1>6. \A x, y : SA!Leq(x, y) = WA!Leq(x, y) /\ SA!Less(x, y) = WA!Less(x, y)
  BY <1>2 DEF SA!Leq, WA!Leq, SA!Less, WA!Less
<1> QED
  BY <1>1, <1>2, <1>3, <1>4, <1>5, <1>6

LEMMA SameTotal == \A xs : SA!Total(xs) = WA!Total(xs)
  BY DEF SA!Total, WA!Total, SA!Add, WA!Add, SA!AddOver, WA!AddOver, SA!Rat, WA!Rat, SA!Over, WA!Over, SA!Gcd, WA!Gcd,
         SA!gcd, WA!gcd, SA!Abs, WA!Abs, SA!Zero, WA!Zero, SA!Whole, WA!Whole

LEMMA SameMeans ==
  \A xs, q : /\ SA!Mean(xs) = WA!Mean(xs) /\ SA!Deviations(xs, q) = WA!Deviations(xs, q)
             /\ SA!Variance(xs, q) = WA!Variance(xs, q)
<1>1. \A xs : SA!Mean(xs) = WA!Mean(xs)
  BY SameTotal, SameArithmetic DEF SA!Mean, WA!Mean
<1>2. \A xs, q : SA!SubsessionMeans(xs, q) = WA!SubsessionMeans(xs, q)
  BY <1>1 DEF SA!SubsessionMeans, WA!SubsessionMeans
<1>3. \A xs, q : SA!Deviations(xs, q) = WA!Deviations(xs, q)
  BY <1>1, <1>2, SameArithmetic DEF SA!Deviations, WA!Deviations, SA!From, WA!From
<1>4. \A d : SA!SumOfSquares(d) = WA!SumOfSquares(d)
  BY SameTotal, SameArithmetic DEF SA!SumOfSquares, WA!SumOfSquares
<1> QED
  BY <1>1, <1>3, <1>4, SameArithmetic DEF SA!Variance, WA!Variance

LEMMA SameInfinite == SA!Infinite = WA!Infinite
  BY DEF SA!Infinite, WA!Infinite

LEMMA SameHarmonic == \A y, v, w : SA!HarmonicSize(y, v, w) = WA!HarmonicSize(y, v, w)
<1>1. \A n, k, r2 : SA!NotBelow(n, k, r2) = WA!NotBelow(n, k, r2)
  BY SameArithmetic, SameRat DEF SA!NotBelow, WA!NotBelow, SA!RootAtMost, WA!RootAtMost
<1>2. ASSUME NEW k, NEW r2 PROVE SA!LeastNotBelow(k, r2) = WA!LeastNotBelow(k, r2)
  <2> DEFINE S == {n \in 0 .. SA!Ceiling(SA!Mul(SA!Mul(SA!Whole(2), k), SA!Add(SA!Whole(2), r2))) : SA!NotBelow(n, k, r2)}
             W == {n \in 0 .. WA!Ceiling(WA!Mul(WA!Mul(WA!Whole(2), k), WA!Add(WA!Whole(2), r2))) : WA!NotBelow(n, k, r2)}
  <2>1. S = W
    BY <1>1, SameArithmetic, SameRat
  <2>2. SA!LeastNotBelow(k, r2) = SA!Min(S) /\ WA!LeastNotBelow(k, r2) = WA!Min(W)
    BY DEF SA!LeastNotBelow, WA!LeastNotBelow
  <2> HIDE DEF S, W
  <2>3. SA!Min(S) = WA!Min(S)
    BY DEF SA!Min, WA!Min
  <2> QED
    BY <2>1, <2>2, <2>3
<1> QED
  BY <1>2, SameArithmetic, SameRat DEF SA!HarmonicSize, WA!HarmonicSize, SA!SizeOfRatio, WA!SizeOfRatio

LEMMA SameSizes ==
  \A xs, q, limit, width, t2, ci, n, d, m, v, w :
    /\ SA!OptimalSubsession(xs, limit) = WA!OptimalSubsession(xs, limit)
    /\ SA!WidthSquared(xs, q, t2, ci) = WA!WidthSquared(xs, q, t2, ci)
    /\ SA!Required(xs, width, limit, t2, ci, n) = WA!Required(xs, width, limit, t2, ci, n)
    /\ SA!EqTestSize(d, n, v, m, w, t2) = WA!EqTestSize(d, n, v, m, w, t2)
<1>1. \A xs, q : SA!AutoCoef(xs, q) = WA!AutoCoef(xs, q)
  <2>1. \A d : SA!MeanProduct(d) = WA!MeanProduct(d)
    BY SameMeans, SameArithmetic DEF SA!MeanProduct, WA!MeanProduct
  <2>2. \A xs, q : SA!AutoCov(xs, q) = WA!AutoCov(xs, q)
    BY <2>1, SameMeans DEF SA!AutoCov, WA!AutoCov
  <2> QED
    BY <2>2, SameMeans, SameArithmetic, SameRat DEF SA!AutoCoef, WA!AutoCoef, SA!Coefficient, WA!Coefficient
<1>2. \A xs, limit : SA!OptimalSubsession(xs, limit) = WA!OptimalSubsession(xs, limit)
  <2> SUFFICES ASSUME NEW xs, NEW limit PROVE SA!OptimalSubsession(xs, limit) = WA!OptimalSubsession(xs, limit)
    OBVIOUS
  <2> DEFINE S == {q \in 1 .. Len(xs) \div 3 : SA!Leq(SA!AbsRat(SA!AutoCoef(xs, q)), limit)}
             W == {q \in 1 .. Len(xs) \div 3 : WA!Leq(WA!AbsRat(WA!AutoCoef(xs, q)), limit)}
  <2>1. S = W
    BY <1>1, SameArithmetic
  <2>2. /\ SA!OptimalSubsession(xs, limit) = IF Len(xs) <= 1 \/ S = {} THEN -1 ELSE SA!Min(S)
        /\ WA!OptimalSubsession(xs, limit) = IF Len(xs) <= 1 \/ W = {} THEN -1 ELSE WA!Min(W)
    BY DEF SA!OptimalSubsession, WA!OptimalSubsession
  <2> HIDE DEF S, W
  <2>3. SA!Min(S) = WA!Min(S)
    BY DEF SA!Min, WA!Min
  <2> QED
    BY <2>1, <2>2, <2>3
<1>3. \A xs, q, t2, ci : SA!WidthSquared(xs, q, t2, ci) = WA!WidthSquared(xs, q, t2, ci)
  <2>1. \A y, e : SA!HarmonicWidthSquared(y, e) = WA!HarmonicWidthSquared(y, e)
    BY SameArithmetic, SameRat, SameInfinite DEF SA!HarmonicWidthSquared, WA!HarmonicWidthSquared
  <2> QED
    BY <2>1, SameMeans, SameArithmetic, SameRat DEF SA!WidthSquared, WA!WidthSquared, SA!OfProportion, WA!OfProportion
<1>4. \A xs, q, width, t2, ci : SA!SizeFor(xs, q, width, t2, ci) = WA!SizeFor(xs, q, width, t2, ci)
  BY SameMeans, SameArithmetic, SameRat, SameHarmonic DEF SA!SizeFor, WA!SizeFor
<1>5. \A n, opt, m : SA!RequiredOf(n, opt, m) = WA!RequiredOf(n, opt, m)
  BY DEF SA!RequiredOf, WA!RequiredOf, SA!Max, WA!Max
<1>6. \A d, n, v, m, w, t2 : SA!EqTestSize(d, n, v, m, w, t2) = WA!EqTestSize(d, n, v, m, w, t2)
  BY SameArithmetic, SameRat DEF SA!EqTestSize, WA!EqTestSize, SA!NewSize, WA!NewSize
<1> QED
  BY <1>2, <1>3, <1>4, <1>5, <1>6 DEF SA!Required, WA!Required, SA!OptimalSampleSize, WA!OptimalSampleSize

-----------------------------------------------------------------------------
(* The behaviours of Samples: what is said of two samples. *)

SaidOf(a, b, o) ==
  /\ o.required = SA!Required(SA!Readings(a), Width, Limit, TSquared, "mean", MinSample)
  /\ o.rate = IF SA!AreRates(a) THEN SA!Required(SA!Readings(a), RateWidth, Limit, TSquared, "harmonic", MinSample) ELSE -1
  /\ o.proportion = SA!Required(SA!Readings(a), ShareWidth, Limit, TSquared, "proportion", MinSample)
  /\ o.compare = SA!EqTestSize(SA!Sub(SA!Mean(SA!Readings(a)), SA!Mean(SA!Readings(b))), Len(a),
                               SA!Variance(SA!Readings(a), 1), Len(b), SA!Variance(SA!Readings(b), 1), TSquared)

\* The samples are sequences of numbers, and what is said is said of them as they are now.
Sampled == /\ sampleA \in Seq(Int) /\ sampleB \in Seq(Int)
           /\ outcome = SA!Unknown \/ SaidOf(sampleA, sampleB, outcome)

LEMMA SamplesInit == SA!Init => Sampled
  BY DEF SA!Init, Sampled

LEMMA SamplesStep == Sampled /\ [SA!Next]_(SA!samples) => Sampled'
<1> SUFFICES ASSUME Sampled, [SA!Next]_(SA!samples) PROVE Sampled'
  OBVIOUS
<1>1. CASE SA!Read
  <2>1. PICK r \in Ranges : \E x \in r[1] :
          (sampleA' = Append(sampleA, x) /\ sampleB' = sampleB) \/ (sampleB' = Append(sampleB, x) /\ sampleA' = sampleA)
    BY <1>1 DEF SA!Read
  <2>2. r[1] \subseteq Int
    BY SamplesAssumption
  <2>3. sampleA' \in Seq(Int) /\ sampleB' \in Seq(Int)
    <3>1. sampleA \in Seq(Int) /\ sampleB \in Seq(Int)
      BY DEF Sampled
    <3>2. PICK x \in r[1] : (sampleA' = Append(sampleA, x) /\ sampleB' = sampleB)
                             \/ (sampleB' = Append(sampleB, x) /\ sampleA' = sampleA)
      BY <2>1
    <3>3. x \in Int
      BY <2>2
    <3>4. Append(sampleA, x) \in Seq(Int) /\ Append(sampleB, x) \in Seq(Int)
      BY <3>1, <3>3
    <3> QED
      BY <3>1, <3>2, <3>4
  <2>4. outcome' = SA!Unknown
    BY <1>1 DEF SA!Read
  <2>5. SA!Unknown' = SA!Unknown
    BY DEF SA!Unknown, SA!One, SA!Whole
  <2> QED
    BY <2>3, <2>4, <2>5 DEF Sampled
<1>2. CASE SA!Analyse
  <2>1. sampleA' = sampleA /\ sampleB' = sampleB
    BY <1>2 DEF SA!Analyse
  <2>2. SaidOf(sampleA, sampleB, outcome')
    BY <1>2 DEF SA!Analyse, SaidOf
  <2>3. SaidOf(sampleA', sampleB', outcome')
    BY <2>1, <2>2
  <2> QED
    BY <2>1, <2>3 DEF Sampled, SaidOf
<1>3. CASE UNCHANGED SA!samples
  BY <1>3 DEF SA!samples, Sampled, SaidOf
<1> QED
  BY <1>1, <1>2, <1>3 DEF SA!Next

LEMMA ReadingsAre ==
  ASSUME NEW xs \in Seq(Int)
  PROVE  /\ SA!Readings(xs) \in Seq(Fraction) /\ Len(SA!Readings(xs)) = Len(xs)
         /\ \A i \in 1 .. Len(xs) : SA!Readings(xs)[i] = WA!Whole(xs[i])
<1> DEFINE n == Len(xs)
           f == SA!Readings(xs)
<1>1. n \in Nat /\ DOMAIN xs = 1 .. n /\ \A i \in 1 .. n : xs[i] \in Int
  OBVIOUS
<1>2. f = [i \in 1 .. n |-> WA!Whole(xs[i])]
  BY <1>1, SameRat DEF SA!Readings
<1>3. \A i \in 1 .. n : WA!Whole(xs[i]) \in Fraction
  BY <1>1, WholeIs
<1> HIDE DEF n, f
<1>4. f = [i \in 1 .. n |-> f[i]] /\ \A i \in 1 .. n : f[i] \in Fraction /\ f[i] = WA!Whole(xs[i])
  BY <1>2, <1>3
<1>5. f \in Seq(Fraction) /\ Len(f) = n
  BY <1>1, <1>4, ListIs
<1> QED
  BY <1>4, <1>5 DEF n, f

LEMMA ParametersAre ==
  /\ TSquared \in Fraction /\ TSquared[1] > 0 /\ MinSample \in Nat
  /\ Width \in Fraction /\ (Width[1] > 0 \/ Width = WA!Zero)
  /\ RateWidth \in Fraction /\ (RateWidth[1] > 0 \/ RateWidth = WA!Zero)
  /\ ShareWidth \in Fraction /\ (ShareWidth[1] > 0 \/ ShareWidth = WA!Zero)
<1>1. WA!Zero = <<0, 1>> /\ WA!Zero \in Fraction
  BY WholeIs DEF WA!Zero, WA!Whole
<1>2. \A x \in (Nat \ {0}) \X (Nat \ {0}) : x \in Fraction /\ x[1] > 0
  BY DEF Fraction
<1> QED
  BY <1>1, <1>2, SamplesAssumption

LEMMA SizeHolds == Sampled => SA!SizeMeetsWidth
<1> DEFINE xs == SA!Readings(sampleA)
           n == Len(sampleA)
           q == SA!OptimalSubsession(xs, Limit)
           Narrow(size, ci, width) ==
             /\ SA!WidthSquared(xs, size, TSquared, ci) /= SA!Infinite
             /\ SA!Leq(SA!WidthSquared(xs, size, TSquared, ci), SA!Square(width))
           Narrowed(size, ci, width) ==
             /\ WA!WidthSquared(xs, size, TSquared, ci) /= WA!Infinite
             /\ WA!Leq(WA!WidthSquared(xs, size, TSquared, ci), WA!Square(width))
<1>1. SUFFICES ASSUME Sampled, outcome /= SA!Unknown
               PROVE  /\ outcome.required > 0 =>
                           (n >= outcome.required <=> Narrow(q, "mean", Width) /\ n \div q >= MinSample)
                      /\ outcome.rate > 0 =>
                           (n >= outcome.rate <=> Narrow(q, "harmonic", RateWidth) /\ n \div q >= MinSample)
                      /\ (outcome.proportion > 0 /\ SA!Range(sampleA) \subseteq {0, 1} /\ n >= outcome.proportion) =>
                           Narrow(1, "proportion", ShareWidth)
  BY DEF SA!SizeMeetsWidth
<1>2. sampleA \in Seq(Int) /\ SaidOf(sampleA, sampleB, outcome)
  BY <1>1 DEF Sampled
<1>3. xs \in Seq(Fraction) /\ Len(xs) = n /\ n \in Nat /\ \A i \in 1 .. n : xs[i] = WA!Whole(sampleA[i])
  BY <1>2, ReadingsAre
<1>4. /\ outcome.required = WA!Required(xs, Width, Limit, TSquared, "mean", MinSample)
      /\ outcome.rate = IF SA!AreRates(sampleA) THEN WA!Required(xs, RateWidth, Limit, TSquared, "harmonic", MinSample) ELSE -1
      /\ outcome.proportion = WA!Required(xs, ShareWidth, Limit, TSquared, "proportion", MinSample)
      /\ q = WA!OptimalSubsession(xs, Limit)
  BY <1>2, SameSizes DEF SaidOf
<1>5. \A size, ci, width : Narrow(size, ci, width) = Narrowed(size, ci, width)
  BY SameArithmetic, SameSizes, SameInfinite
<1>6. \A i \in 1 .. n : SA!Range(sampleA) \subseteq {0, 1} => xs[i] \in {WA!Zero, WA!One}
  <2> SUFFICES ASSUME NEW i \in 1 .. n, SA!Range(sampleA) \subseteq {0, 1} PROVE xs[i] \in {WA!Zero, WA!One}
    OBVIOUS
  <2>1. sampleA[i] \in SA!Range(sampleA)
    BY <1>2 DEF SA!Range
  <2>2. sampleA[i] \in {0, 1}
    BY <2>1
  <2>3. xs[i] = WA!Whole(sampleA[i])
    BY <1>3
  <2> QED
    BY <2>2, <2>3 DEF WA!Zero, WA!One
<1>7. SA!AreRates(sampleA) => \A i \in 1 .. n : xs[i][1] > 0
  <2>1. \A i \in 1 .. n : xs[i][1] = sampleA[i]
    BY <1>3 DEF WA!Whole
  <2> QED
    BY <1>2, <2>1 DEF SA!AreRates
<1> HIDE DEF xs, n, q, Narrow
<1>8. ASSUME outcome.required > 0
      PROVE  n >= outcome.required <=> Narrowed(q, "mean", Width) /\ n \div q >= MinSample
  BY <1>3, <1>4, <1>8, MeanSizeRight, ParametersAre
<1>9. ASSUME outcome.rate > 0
      PROVE  n >= outcome.rate <=> Narrowed(q, "harmonic", RateWidth) /\ n \div q >= MinSample
  <2>1. SA!AreRates(sampleA) /\ outcome.rate = WA!Required(xs, RateWidth, Limit, TSquared, "harmonic", MinSample)
    BY <1>4, <1>9
  <2>2. \A i \in 1 .. Len(xs) : xs[i][1] > 0
    BY <1>3, <1>7, <2>1
  <2> QED
    BY <1>3, <1>4, <1>9, <2>1, <2>2, HarmonicSizeRight, ParametersAre
<1>10. ASSUME outcome.proportion > 0, SA!Range(sampleA) \subseteq {0, 1}, n >= outcome.proportion
       PROVE  Narrowed(1, "proportion", ShareWidth)
  <2>1. \A i \in 1 .. Len(xs) : xs[i] \in {WA!Zero, WA!One}
    BY <1>3, <1>6, <1>10
  <2>2. TSquared[1] >= 0
    BY ParametersAre DEF Fraction
  <2> QED
    BY <1>3, <1>4, <1>10, <2>1, <2>2, ProportionSizeRight, ParametersAre
<1> HIDE DEF Narrowed
<1> QED
  BY <1>5, <1>8, <1>9, <1>10

LEMMA ComparisonHolds == Sampled => SA!ComparisonDecides
<1> DEFINE xs == SA!Readings(sampleA)
           ys == SA!Readings(sampleB)
           d == WA!Sub(WA!Mean(xs), WA!Mean(ys))
           na == Len(sampleA)
           nb == Len(sampleB)
           va == WA!Variance(xs, 1)
           vb == WA!Variance(ys, 1)
           E == WA!Div(va, WA!Whole(na))
           c == outcome.compare
<1>1. ASSUME Sampled, outcome /= SA!Unknown, na >= 2, nb >= 2, NEW m \in 1 .. 40
      PROVE  (/\ WA!Less(WA!Mul(TSquared, E), WA!Square(d))
              /\ WA!Leq(WA!Mul(TSquared, WA!Add(E, WA!Div(vb, WA!Whole(m)))), WA!Square(d))) <=> c /= -1 /\ m >= c
  <2>1. sampleA \in Seq(Int) /\ sampleB \in Seq(Int) /\ SaidOf(sampleA, sampleB, outcome)
    BY <1>1 DEF Sampled
  <2>2. /\ xs \in Seq(Fraction) /\ Len(xs) = na /\ ys \in Seq(Fraction) /\ Len(ys) = nb
        /\ na \in Nat /\ nb \in Nat
    BY <2>1, ReadingsAre
  <2>3. c = WA!EqTestSize(d, na, va, nb, vb, TSquared)
    BY <2>1, SameSizes, SameMeans, SameArithmetic DEF SaidOf
  <2> HIDE DEF xs, ys, na, nb
  <2>4. WA!Mean(xs) \in Fraction /\ WA!Mean(ys) \in Fraction
    BY <1>1, <2>2, MeanIs
  <2>5. d \in Fraction /\ (d[1] = 0 => d = WA!Zero)
    BY <2>4, SubIs, NoDifference
  <2>6. va \in Fraction /\ va[1] >= 0 /\ vb \in Fraction /\ vb[1] >= 0
    <3>1. 1 \in Nat \ {0} /\ na \div 1 = na /\ nb \div 1 = nb
      BY <2>2
    <3> QED
      BY <1>1, <2>2, <3>1, VarianceIs
  <2>7. TSquared \in Fraction /\ TSquared[1] > 0 /\ m \in Nat \ {0}
    BY ParametersAre
  <2> HIDE DEF d, va, vb
  <2> QED
    BY <1>1, <2>2, <2>3, <2>5, <2>6, <2>7, ComparisonRight
<1>2. /\ SA!Sub(SA!Mean(xs), SA!Mean(ys)) = d /\ SA!Variance(xs, 1) = va /\ SA!Variance(ys, 1) = vb
      /\ \A x, y : SA!Less(x, y) = WA!Less(x, y) /\ SA!Leq(x, y) = WA!Leq(x, y) /\ SA!Square(x) = WA!Square(x)
                  /\ SA!Mul(x, y) = WA!Mul(x, y) /\ SA!Div(x, y) = WA!Div(x, y) /\ SA!Add(x, y) = WA!Add(x, y)
                  /\ SA!Whole(x) = WA!Whole(x)
  BY SameRat, SameMeans, SameArithmetic
<1> HIDE DEF xs, ys, d, va, vb, c
<1>3. ASSUME Sampled, outcome /= SA!Unknown, na >= 2, nb >= 2, NEW m \in 1 .. 40
      PROVE  (/\ SA!Less(SA!Mul(TSquared, SA!Div(SA!Variance(xs, 1), SA!Whole(na))),
                         SA!Square(SA!Sub(SA!Mean(xs), SA!Mean(ys))))
              /\ SA!Leq(SA!Mul(TSquared, SA!Add(SA!Div(SA!Variance(xs, 1), SA!Whole(na)),
                                                SA!Div(SA!Variance(ys, 1), SA!Whole(m)))),
                        SA!Square(SA!Sub(SA!Mean(xs), SA!Mean(ys))))) <=> c /= -1 /\ m >= c
  BY <1>1, <1>2, <1>3
<1> QED
  BY <1>3 DEF SA!ComparisonDecides, xs, ys, c

\* The number of readings asked for is enough for the interval and no more, also for that of a harmonic mean (283-289),
\* and not too few for that of a proportion; the number asked for a comparison is enough and no more. All that for any
\* readings, widths, quantiles and limit (libpilotcpp.h 304-366, libpilot.cc 1162-1219).
THEOREM EnoughIsAsked == SA!Spec => []EnoughAsked
<1>1. Sampled => EnoughAsked
  BY SizeHolds, ComparisonHolds DEF EnoughAsked
<1> QED
  BY <1>1, SamplesInit, SamplesStep, PTL DEF SA!Spec

-----------------------------------------------------------------------------
(* Numbers that are the same are the same pair. *)

Coprime(a, b) == \E s, t \in Int : s * a + t * b = 1

\* The greatest common divisor is made of both.
LEMMA Bezout ==
  ASSUME NEW a \in Nat, NEW b \in Nat \ {0}
  PROVE  \E s, t \in Int : WA!gcd[<<a, b>>] = s * a + t * b
<1> DEFINE g(x, n) == WA!gcd[<<x, n>>]
           Made(x, n) == \E s, t \in Int : g(x, n) = s * x + t * n
           wrong == {n \in Nat : n > 0 /\ \E x \in Nat : ~Made(x, n)}
<1>1. SUFFICES ASSUME wrong /= {} PROVE FALSE
  <2>1. b \in wrong \/ Made(a, b)
    <3> HIDE DEF Made
    <3> QED
      OBVIOUS
  <2> HIDE DEF wrong
  <2> QED
    BY <2>1
<1>2. PICK n \in wrong : \A l \in wrong : n <= l
  <2>1. wrong \in SUBSET Nat
    OBVIOUS
  <2> HIDE DEF wrong
  <2> QED
    BY <1>1, <2>1, Least
<1> HIDE DEF Made
<1>3. PICK x \in Nat : ~Made(x, n)
  OBVIOUS
<1>4. n \in Nat /\ n > 0
  OBVIOUS
<1>5. \A l \in Nat : 0 < l /\ l < n => \A y \in Nat : Made(y, l)
  BY <1>2, <1>4
<1> HIDE DEF wrong
<1> DEFINE r == x % n
           m == x \div n
<1>6. r \in Nat /\ r < n /\ m \in Int /\ x = m * n + r
  BY <1>4
<1>7. g(x, n) = g(n, r)
  <2>1. <<x, n>> \in Nat \X Nat
    BY <1>4
  <2> QED
    BY <1>4, <2>1, EuclidIs
<1>8. CASE r = 0
  <2>1. <<n, r>> \in Nat \X Nat
    BY <1>4, <1>6
  <2>2. g(n, r) = n
    BY <1>8, <2>1, EuclidIs
  <2>3. g(x, n) = 0 * x + 1 * n
    BY <1>4, <1>7, <2>2
  <2> HIDE DEF g
  <2>4. 0 \in Int /\ 1 \in Int
    OBVIOUS
  <2> QED
    BY <1>3, <2>3, <2>4, Zenon DEF Made
<1>9. CASE r > 0
  <2>1. Made(n, r)
    BY <1>4, <1>5, <1>6, <1>9
  <2> HIDE DEF r, m, g
  <2>2. PICK s, t \in Int : g(n, r) = s * n + t * r
    BY <2>1 DEF Made
  <2>3. r = x - m * n
    BY <1>4, <1>6
  <2>4. s * n + t * (x - m * n) = t * x + (s - t * m) * n
    BY <1>4, <1>6
  <2>5. g(x, n) = t * x + (s - t * m) * n
    BY <1>7, <2>2, <2>3, <2>4, Zenon
  <2>6. s - t * m \in Int
    BY <1>6
  <2> QED
    BY <1>3, <2>5, <2>6 DEF Made
<1> QED
  BY <1>6, <1>8, <1>9

\* What a fraction is made of is a multiple of it, and it has no smaller one.
LEMMA RatParts ==
  ASSUME NEW a \in Int, NEW b \in Int, b /= 0
  PROVE  LET x == WA!Rat(a, b)
         IN x \in Fraction /\ Coprime(x[1], x[2]) /\ \E g \in Int : a = x[1] * g /\ b = x[2] * g
<1> DEFINE g == WA!Gcd(a, b)
           u == WA!Abs(a)
           v == WA!Abs(b)
<1>1. u \in Nat /\ v \in Nat \ {0} /\ (u = a \/ u = -a) /\ (v = b \/ v = -b)
  BY DEF WA!Abs
<1> HIDE DEF u, v
<1>2. g \in 1 .. v /\ Divides(g, u) /\ Divides(g, v) /\ \E s, t \in Int : g = s * u + t * v
  BY <1>1, DivisorIs, DivisorDivides, Bezout DEF WA!Gcd, u, v
<1> HIDE DEF g
<1>3. g \in Nat \ {0}
  BY <1>1, <1>2
<1>4. PICK i \in Int : a = i * g
  <2>1. PICK k \in Int : u = k * g
    BY <1>2 DEF Divides
  <2>2. a = k * g \/ a = (-k) * g
    BY <1>1, <1>3, <2>1
  <2> QED
    BY <2>2
<1>5. PICK j \in Int : b = j * g
  <2>1. PICK k \in Int : v = k * g
    BY <1>2 DEF Divides
  <2>2. b = k * g \/ b = (-k) * g
    BY <1>1, <1>3, <2>1
  <2> QED
    BY <2>2
<1>6. a \div g = i /\ b \div g = j /\ (-a) \div g = -i /\ (-b) \div g = -j
  <2>1. -a = (-i) * g /\ -b = (-j) * g
    BY <1>3, <1>4, <1>5
  <2> QED
    BY <1>3, <1>4, <1>5, <2>1, DivideExactly
<1>7. WA!Rat(a, b) = IF b < 0 THEN <<-i, -j>> ELSE <<i, j>>
  BY <1>6 DEF WA!Rat, WA!Over, g
<1>8. Coprime(i, j)
  <2>1. PICK s, t \in Int : g = s * u + t * v
    BY <1>2
  <2>2. PICK p, q \in Int : g = p * a + q * b
    <3>1. s * u = s * a \/ s * u = (-s) * a
      BY <1>1
    <3>2. t * v = t * b \/ t * v = (-t) * b
      BY <1>1
    <3>3. \E p, q \in {s, -s, t, -t} : g = p * a + q * b
      BY <2>1, <3>1, <3>2, Zenon
    <3> QED
      BY <3>3
  <2>3. p * (i * g) + q * (j * g) = (p * i + q * j) * g
    BY <1>3
  <2>4. 1 * g = (p * i + q * j) * g
    BY <1>3, <1>4, <1>5, <2>2, <2>3
  <2>5. p * i + q * j = 1
    <3>1. p * i + q * j \in Int
      OBVIOUS
    <3> QED
      BY <1>3, <2>4, <3>1, Cancelled
  <2> QED
    BY <2>5 DEF Coprime
<1>9. Coprime(-i, -j)
  <2>1. PICK s, t \in Int : s * i + t * j = 1
    BY <1>8 DEF Coprime
  <2>2. (-s) * (-i) + (-t) * (-j) = 1 /\ -s \in Int /\ -t \in Int
    BY <2>1
  <2> QED
    BY <2>2, Zenon DEF Coprime
<1>10. WA!Rat(a, b) \in Fraction
  BY RatIs
<1>11. a = (-i) * (-g) /\ b = (-j) * (-g) /\ -g \in Int /\ g \in Int
  BY <1>3, <1>4, <1>5
<1> DEFINE x == WA!Rat(a, b)
<1>12. CASE b < 0
  <2>1. x[1] = -i /\ x[2] = -j
    BY <1>7, <1>12
  <2> HIDE DEF x
  <2> QED
    BY <1>9, <1>10, <1>11, <2>1, Zenon DEF x
<1>13. CASE ~(b < 0)
  <2>1. x[1] = i /\ x[2] = j
    BY <1>7, <1>13
  <2> HIDE DEF x
  <2> QED
    BY <1>4, <1>5, <1>8, <1>10, <1>11, <2>1, Zenon DEF x
<1> QED
  BY <1>12, <1>13

LEMMA CoprimeProduct ==
  ASSUME NEW a \in Int, NEW b \in Int, NEW c \in Int, Coprime(a, b), Coprime(a, c) PROVE Coprime(a, b * c)
<1>1. PICK s, t \in Int : s * a + t * b = 1
  BY DEF Coprime
<1>2. PICK p, q \in Int : p * a + q * c = 1
  BY DEF Coprime
<1>3. (s * a + t * b) * (p * a + q * c) = (s * (p * a + q * c) + (t * b) * p) * a + (t * q) * (b * c)
  BY SMT
<1>4. (s * (p * a + q * c) + (t * b) * p) * a + (t * q) * (b * c) = 1
  BY <1>1, <1>2, <1>3
<1>5. s * (p * a + q * c) + (t * b) * p \in Int /\ t * q \in Int
  OBVIOUS
<1> QED
  BY <1>4, <1>5 DEF Coprime

LEMMA CoprimeParts ==
  ASSUME NEW a \in Int, NEW b \in Int, NEW g \in Int, NEW h \in Int, Coprime(a * g, b * h)
  PROVE  Coprime(a, b) /\ Coprime(b, a)
<1>1. PICK s, t \in Int : s * (a * g) + t * (b * h) = 1
  BY DEF Coprime
<1>2. (s * g) * a + (t * h) * b = 1 /\ (t * h) * b + (s * g) * a = 1 /\ s * g \in Int /\ t * h \in Int
  BY <1>1
<1> QED
  BY <1>2 DEF Coprime

LEMMA MulLowest ==
  ASSUME NEW x \in Fraction, NEW y \in Fraction, Coprime(x[1], x[2]), Coprime(y[1], y[2])
  PROVE  Coprime(WA!Mul(x, y)[1], WA!Mul(x, y)[2])
<1> DEFINE r == WA!Rat(x[1], y[2])
           s == WA!Rat(y[1], x[2])
<1>1. x[1] \in Int /\ y[1] \in Int /\ x[2] \in Int /\ y[2] \in Int /\ x[2] /= 0 /\ y[2] /= 0
  BY DEF Fraction
<1>2. PICK g \in Int : r \in Fraction /\ Coprime(r[1], r[2]) /\ x[1] = r[1] * g /\ y[2] = r[2] * g
  BY <1>1, RatParts
<1>3. PICK h \in Int : s \in Fraction /\ Coprime(s[1], s[2]) /\ y[1] = s[1] * h /\ x[2] = s[2] * h
  BY <1>1, RatParts
<1>4. r[1] \in Int /\ r[2] \in Int /\ s[1] \in Int /\ s[2] \in Int
  BY <1>2, <1>3 DEF Fraction
<1> DEFINE p == r[1]
           q == r[2]
           u == s[1]
           v == s[2]
<1>5. Coprime(p * g, v * h) /\ Coprime(u * h, q * g)
  BY <1>2, <1>3, Zenon
<1>6. WA!Mul(x, y)[1] = p * u /\ WA!Mul(x, y)[2] = q * v
  BY DEF WA!Mul, WA!Times
<1> HIDE DEF p, q, u, v
<1>7. Coprime(p, v) /\ Coprime(u, q) /\ Coprime(p, q) /\ Coprime(u, v)
  BY <1>2, <1>3, <1>4, <1>5, CoprimeParts DEF p, q, u, v
<1>8. p \in Int /\ q \in Int /\ u \in Int /\ v \in Int
  BY <1>4 DEF p, q, u, v
<1>9. Coprime(p, q * v) /\ Coprime(u, q * v) /\ q * v \in Int
  BY <1>7, <1>8, CoprimeProduct
<1>10. Coprime(q * v, p) /\ Coprime(q * v, u)
  <2>1. \A a, b \in Int : Coprime(a, b) => Coprime(b, a)
    <3> TAKE a, b \in Int
    <3> HAVE Coprime(a, b)
    <3>1. PICK k, l \in Int : k * a + l * b = 1
      BY DEF Coprime
    <3>2. l * b + k * a = 1
      BY <3>1
    <3> QED
      BY <3>2 DEF Coprime
  <2> QED
    BY <1>8, <1>9, <2>1
<1>11. Coprime(q * v, p * u)
  BY <1>8, <1>9, <1>10, CoprimeProduct
<1>12. Coprime((p * u) * 1, (q * v) * 1)
  <2>1. PICK k, l \in Int : k * (q * v) + l * (p * u) = 1
    BY <1>11 DEF Coprime
  <2>2. l * ((p * u) * 1) + k * ((q * v) * 1) = 1
    BY <1>8, <2>1
  <2> QED
    BY <2>2 DEF Coprime
<1>13. p * u \in Int
  BY <1>8
<1> QED
  BY <1>6, <1>9, <1>12, <1>13, CoprimeParts

\* Two pairs in lowest terms that stand for the same number are the same.
LEMMA SameNumber ==
  ASSUME NEW x \in Fraction, NEW y \in Fraction, Coprime(x[1], x[2]), Coprime(y[1], y[2]),
         NEW a \in Int, NEW b \in Int, b /= 0, Is(x, a, b), Is(y, a, b)
  PROVE  x = y
<1> DEFINE p == x[1]
           q == x[2]
           u == y[1]
           v == y[2]
<1>1. p \in Int /\ q \in Nat \ {0} /\ u \in Int /\ v \in Nat \ {0} /\ x = <<p, q>> /\ y = <<u, v>>
  BY DEF Fraction
<1>2. p * b = a * q /\ u * b = a * v /\ Coprime(p, q) /\ Coprime(u, v)
  BY DEF Is
<1> HIDE DEF p, q, u, v
<1>3. p * v = u * q
  <2>1. (p * v) * b = (p * b) * v /\ (u * q) * b = (u * b) * q /\ (a * q) * v = (a * v) * q
    BY <1>1
  <2>2. (p * v) * b = (u * q) * b
    BY <1>2, <2>1
  <2>3. p * v \in Int /\ u * q \in Int
    BY <1>1
  <2> QED
    BY <2>2, <2>3, Cancelled
<1>4. PICK s, t \in Int : s * p + t * q = 1
  BY <1>2 DEF Coprime
<1>5. PICK k, l \in Int : k * u + l * v = 1
  BY <1>2 DEF Coprime
<1>6. v = (s * u + t * v) * q
  <2>1. v = v * (s * p + t * q)
    BY <1>1, <1>4
  <2>2. v * (s * p + t * q) = s * (p * v) + (t * v) * q
    BY <1>1
  <2>3. s * (u * q) + (t * v) * q = (s * u + t * v) * q
    BY <1>1
  <2> QED
    BY <1>3, <2>1, <2>2, <2>3, Zenon
<1>7. q = (k * p + l * q) * v
  <2>1. q = q * (k * u + l * v)
    BY <1>1, <1>5
  <2>2. q * (k * u + l * v) = k * (u * q) + (l * q) * v
    BY <1>1
  <2>3. k * (p * v) + (l * q) * v = (k * p + l * q) * v
    BY <1>1
  <2> QED
    BY <1>3, <2>1, <2>2, <2>3, Zenon
<1>8. \A c, d \in Nat \ {0} : \A m \in Int : c = m * d => d <= c
  <2> TAKE c, d \in Nat \ {0}
  <2> TAKE m \in Int
  <2> HAVE c = m * d
  <2>1. m >= 1
    BY SMT
  <2>2. (m - 1) * d >= 0
    BY <2>1
  <2> QED
    BY <2>2
<1>9. q <= v /\ v <= q
  <2>1. s * u + t * v \in Int /\ k * p + l * q \in Int
    BY <1>1
  <2> QED
    BY <1>1, <1>6, <1>7, <1>8, <2>1
<1>10. q = v
  BY <1>1, <1>9
<1>11. p = u
  BY <1>1, <1>3, <1>10, Cancelled
<1> QED
  BY <1>1, <1>10, <1>11

-----------------------------------------------------------------------------
(* Sums of integers. *)

AreSumsTo(g, n, f) == f = [i \in 0 .. n |-> IF i = 0 THEN 0 ELSE f[i - 1] + g[i]]
Sums(g, n) == CHOOSE f : AreSumsTo(g, n, f)
SumTo(g, n) == Sums(g, n)[n]
Integers(g, n) == \A i \in 1 .. n : g[i] \in Int

LEMMA IntegerSumsThere ==
  ASSUME NEW g, NEW n \in Nat PROVE \E f : AreSumsTo(g, n, f)
<1> DEFINE missing == {k \in Nat : ~\E f : AreSumsTo(g, k, f)}
<1>1. SUFFICES ASSUME missing /= {} PROVE FALSE
  OBVIOUS
<1>2. PICK k \in missing : \A l \in missing : k <= l
  <2>1. missing \in SUBSET Nat
    OBVIOUS
  <2> HIDE DEF missing
  <2> QED
    BY <1>1, <2>1, Least
<1>3. k \in Nat /\ ~\E f : AreSumsTo(g, k, f)
  OBVIOUS
<1>4. \A l \in Nat : l < k => \E f : AreSumsTo(g, l, f)
  BY <1>2, <1>3
<1> HIDE DEF missing
<1>5. CASE k = 0
  <2> DEFINE f == [i \in 0 .. k |-> 0]
  <2>1. AreSumsTo(g, k, f)
    BY <1>5 DEF AreSumsTo
  <2> QED
    BY <1>3, <2>1
<1>6. CASE k > 0
  <2>1. PICK f : AreSumsTo(g, k - 1, f)
    BY <1>3, <1>4, <1>6
  <2> DEFINE h == [i \in 0 .. k |-> IF i = 0 THEN 0 ELSE f[i - 1] + g[i]]
  <2>2. \A i \in 0 .. k - 1 : h[i] = f[i]
    <3>1. \A i \in 0 .. k - 1 : i \in 0 .. k /\ f[i] = IF i = 0 THEN 0 ELSE f[i - 1] + g[i]
      BY <1>3, <2>1 DEF AreSumsTo
    <3> QED
      BY <3>1
  <2>3. \A i \in 0 .. k : i /= 0 => h[i - 1] = f[i - 1]
    BY <1>3, <2>2
  <2>4. h = [i \in 0 .. k |-> IF i = 0 THEN 0 ELSE h[i - 1] + g[i]]
    BY <2>3
  <2> HIDE DEF h
  <2>5. AreSumsTo(g, k, h)
    BY <2>4 DEF AreSumsTo
  <2> QED
    BY <1>3, <2>5
<1> QED
  BY <1>3, <1>5, <1>6

LEMMA SumsGrow ==
  ASSUME NEW g, NEW n \in Nat, Integers(g, n)
  PROVE  /\ Sums(g, n)[0] = 0
         /\ \A i \in 1 .. n : Sums(g, n)[i] = Sums(g, n)[i - 1] + g[i]
         /\ \A i \in 0 .. n : Sums(g, n)[i] \in Int
<1> DEFINE f == Sums(g, n)
<1>1. f = [i \in 0 .. n |-> IF i = 0 THEN 0 ELSE f[i - 1] + g[i]]
  BY IntegerSumsThere, Zenon DEF Sums, AreSumsTo
<1> HIDE DEF f
<1>2. f[0] = 0 /\ \A i \in 1 .. n : f[i] = f[i - 1] + g[i]
  <2>1. \A i \in 0 .. n : f[i] = IF i = 0 THEN 0 ELSE f[i - 1] + g[i]
    BY <1>1, Zenon
  <2> QED
    BY <2>1
<1> DEFINE wrong == {i \in 0 .. n : f[i] \notin Int}
<1>3. ASSUME wrong /= {} PROVE FALSE
  <2>1. PICK i \in wrong : \A l \in wrong : i <= l
    <3>1. wrong \in SUBSET Nat
      OBVIOUS
    <3> HIDE DEF wrong
    <3> QED
      BY <1>3, <3>1, Least
  <2>2. i \in 0 .. n /\ f[i] \notin Int /\ i /= 0
    BY <1>2
  <2>3. i - 1 \in 0 .. n /\ i - 1 < i /\ i \in 1 .. n
    BY <2>2
  <2>4. f[i - 1] \in Int
    BY <2>1, <2>3
  <2> QED
    BY <1>2, <2>2, <2>3, <2>4 DEF Integers
<1> QED
  BY <1>2, <1>3 DEF f

LEMMA SumIs == ASSUME NEW g, NEW n \in Nat, Integers(g, n) PROVE SumTo(g, n) \in Int
  BY SumsGrow DEF SumTo

Made(k, n, a, g, b, h) == \A i \in 1 .. n : k[i] = a * g[i] + b * h[i]

\* The sum of terms made of two others is made of their sums.
LEMMA SumLinear ==
  ASSUME NEW n \in Nat, NEW g, NEW h, NEW k, Integers(g, n), Integers(h, n), NEW a \in Int, NEW b \in Int,
         Made(k, n, a, g, b, h)
  PROVE  Integers(k, n) /\ SumTo(k, n) = a * SumTo(g, n) + b * SumTo(h, n)
<1> DEFINE F == Sums(g, n)
           G == Sums(h, n)
           K == Sums(k, n)
           wrong == {i \in 0 .. n : ~(K[i] = a * F[i] + b * G[i])}
<1>1. Integers(k, n)
  <2>1. \A u, v \in Int : a * u + b * v \in Int
    OBVIOUS
  <2> QED
    BY <2>1 DEF Integers, Made
<1>2. /\ F[0] = 0 /\ \A i \in 1 .. n : F[i] = F[i - 1] + g[i]
      /\ G[0] = 0 /\ \A i \in 1 .. n : G[i] = G[i - 1] + h[i]
      /\ K[0] = 0 /\ \A i \in 1 .. n : K[i] = K[i - 1] + k[i]
      /\ \A i \in 0 .. n : F[i] \in Int /\ G[i] \in Int
  BY <1>1, SumsGrow
<1> HIDE DEF F, G, K
<1>3. ASSUME wrong /= {} PROVE FALSE
  <2>1. PICK i \in wrong : \A l \in wrong : i <= l
    <3>1. wrong \in SUBSET Nat
      OBVIOUS
    <3> HIDE DEF wrong
    <3> QED
      BY <1>3, <3>1, Least
  <2>2. i \in 0 .. n /\ ~(K[i] = a * F[i] + b * G[i])
    OBVIOUS
  <2>3. \A j \in 0 .. n : j < i => K[j] = a * F[j] + b * G[j]
    BY <2>1, <2>2
  <2> HIDE DEF wrong
  <2>4. i /= 0
    <3>1. a * 0 + b * 0 = 0
      OBVIOUS
    <3> QED
      BY <1>2, <2>2, <3>1
  <2>5. i - 1 \in 0 .. n /\ i - 1 < i /\ i \in 1 .. n
    BY <2>2, <2>4
  <2>6. /\ K[i - 1] = a * F[i - 1] + b * G[i - 1]
        /\ F[i] = F[i - 1] + g[i] /\ G[i] = G[i - 1] + h[i] /\ K[i] = K[i - 1] + k[i]
        /\ k[i] = a * g[i] + b * h[i]
        /\ F[i - 1] \in Int /\ G[i - 1] \in Int /\ g[i] \in Int /\ h[i] \in Int
    BY <1>2, <2>3, <2>5 DEF Integers, Made
  <2>7. \A p, q, u, v \in Int : (a * p + b * q) + (a * u + b * v) = a * (p + u) + b * (q + v)
    OBVIOUS
  <2> QED
    BY <2>2, <2>6, <2>7
<1>4. n \in 0 .. n
  OBVIOUS
<1>5. K[n] = a * F[n] + b * G[n]
  BY <1>3, <1>4
<1> QED
  BY <1>1, <1>5 DEF SumTo, F, G, K

LEMMA SumOfSame ==
  ASSUME NEW n \in Nat, NEW g, NEW c \in Int, \A i \in 1 .. n : g[i] = c PROVE SumTo(g, n) = n * c
<1> DEFINE F == Sums(g, n)
           wrong == {i \in 0 .. n : ~(F[i] = i * c)}
<1>1. F[0] = 0 /\ \A i \in 1 .. n : F[i] = F[i - 1] + g[i]
  BY SumsGrow DEF Integers
<1> HIDE DEF F
<1>2. ASSUME wrong /= {} PROVE FALSE
  <2>1. PICK i \in wrong : \A l \in wrong : i <= l
    <3>1. wrong \in SUBSET Nat
      OBVIOUS
    <3> HIDE DEF wrong
    <3> QED
      BY <1>2, <3>1, Least
  <2>2. i \in 0 .. n /\ ~(F[i] = i * c) /\ i /= 0
    BY <1>1
  <2>3. i - 1 \in 0 .. n /\ i - 1 < i /\ i \in 1 .. n
    BY <2>2
  <2>4. F[i - 1] = (i - 1) * c
    BY <2>1, <2>3
  <2>5. (i - 1) * c + c = i * c
    BY <2>2
  <2> QED
    BY <1>1, <2>2, <2>3, <2>4, <2>5
<1>3. n \in 0 .. n
  OBVIOUS
<1> QED
  BY <1>2, <1>3 DEF SumTo, F

LEMMA SumNatural ==
  ASSUME NEW n \in Nat, NEW g, \A i \in 1 .. n : g[i] \in Nat
  PROVE  SumTo(g, n) \in Nat /\ \A j \in 1 .. n : g[j] <= SumTo(g, n)
<1> DEFINE F == Sums(g, n)
           wrong == {i \in 0 .. n : ~(F[i] \in Nat /\ \A j \in 1 .. i : g[j] <= F[i])}
<1>1. F[0] = 0 /\ \A i \in 1 .. n : F[i] = F[i - 1] + g[i]
  BY SumsGrow DEF Integers
<1> HIDE DEF F
<1>2. ASSUME wrong /= {} PROVE FALSE
  <2>1. PICK i \in wrong : \A l \in wrong : i <= l
    <3>1. wrong \in SUBSET Nat
      OBVIOUS
    <3> HIDE DEF wrong
    <3> QED
      BY <1>2, <3>1, Least
  <2>2. i \in 0 .. n /\ ~(F[i] \in Nat /\ \A j \in 1 .. i : g[j] <= F[i])
    OBVIOUS
  <2>3. \A l \in 0 .. n : l < i => F[l] \in Nat /\ \A j \in 1 .. l : g[j] <= F[l]
    BY <2>1, <2>2
  <2> HIDE DEF wrong
  <2>4. i /= 0
    BY <1>1, <2>2
  <2>5. i - 1 \in 0 .. n /\ i - 1 < i /\ i \in 1 .. n
    BY <2>2, <2>4
  <2>6. F[i - 1] \in Nat /\ (\A j \in 1 .. i - 1 : g[j] <= F[i - 1]) /\ F[i] = F[i - 1] + g[i] /\ g[i] \in Nat
    BY <1>1, <2>3, <2>5
  <2>7. \A j \in 1 .. i : j \in 1 .. i - 1 \/ j = i
    BY <2>5
  <2>8. \A j \in 1 .. i : g[j] <= F[i]
    <3> TAKE j \in 1 .. i
    <3>1. g[j] \in Nat
      BY <2>5
    <3> QED
      BY <2>6, <2>7, <3>1
  <2> QED
    BY <2>2, <2>6, <2>8
<1>3. n \in 0 .. n
  OBVIOUS
<1> QED
  BY <1>2, <1>3 DEF SumTo, F

\* A total of fractions that have a common denominator.
LEMMA TotalIsSum ==
  ASSUME NEW xs \in Seq(Fraction), NEW g, NEW D \in Nat \ {0}, NEW n \in Nat, Len(xs) = n,
         \A i \in 1 .. n : g[i] \in Int /\ Is(xs[i], g[i], D)
  PROVE  WA!Total(xs) \in Fraction /\ Is(WA!Total(xs), SumTo(g, n), D)
<1> DEFINE f == Sums(g, n)
<1>1. f[0] = 0 /\ (\A i \in 1 .. n : f[i] = f[i - 1] + g[i]) /\ \A i \in 0 .. n : f[i] \in Int
  BY SumsGrow DEF Integers
<1> HIDE DEF f
<1>2. /\ \A i \in 0 .. Len(xs) : f[i] \in Int
      /\ \A i \in 1 .. Len(xs) : g[i] \in Int /\ Is(xs[i], g[i], D) /\ f[i] = f[i - 1] + g[i]
  BY <1>1
<1>3. WA!Total(xs) \in Fraction /\ Is(WA!Total(xs), f[Len(xs)], D)
  BY <1>1, <1>2, TotalOf, Zenon
<1> QED
  BY <1>3 DEF SumTo, f

\* So is their mean.
LEMMA MeanIsShare ==
  ASSUME NEW xs \in Seq(Fraction), NEW g, NEW D \in Nat \ {0}, NEW n \in Nat \ {0}, Len(xs) = n,
         \A i \in 1 .. n : g[i] \in Int /\ Is(xs[i], g[i], D)
  PROVE  WA!Mean(xs) \in Fraction /\ Is(WA!Mean(xs), SumTo(g, n), D * n)
<1> DEFINE s == SumTo(g, n)
<1>1. WA!Total(xs) \in Fraction /\ Is(WA!Total(xs), s, D)
  BY TotalIsSum
<1>2. s \in Int
  BY SumIs DEF Integers
<1>3. <<1, n>> \in Fraction /\ Is(<<1, n>>, 1, n)
  BY ShareOf
<1> HIDE DEF s
<1>4. WA!Mean(xs) \in Fraction /\ Is(WA!Mean(xs), s * 1, D * n)
  BY <1>1, <1>2, <1>3, MulOf DEF WA!Mean
<1>5. s * 1 = s
  BY <1>2
<1> QED
  BY <1>4, <1>5 DEF s

-----------------------------------------------------------------------------
(* The regression of some data with a common denominator. *)

LEMMA ZeroIs == WA!Zero \in Fraction /\ Coprime(WA!Zero[1], WA!Zero[2])
<1>1. WA!Zero = <<0, 1>>
  BY DEF WA!Zero, WA!Whole
<1>2. 0 * 0 + 1 * 1 = 1 /\ 0 \in Int /\ 1 \in Int
  OBVIOUS
<1>3. Coprime(0, 1)
  BY <1>2, Zenon DEF Coprime
<1> QED
  BY <1>1, <1>3 DEF Fraction

LEMMA AddLowest ==
  ASSUME NEW x \in Fraction, NEW y \in Fraction
  PROVE  /\ Coprime(WA!Add(x, y)[1], WA!Add(x, y)[2])
         /\ Coprime(WA!Sub(x, y)[1], WA!Sub(x, y)[2])
<1>1. ASSUME NEW z \in Fraction PROVE Coprime(WA!Add(x, z)[1], WA!Add(x, z)[2])
  <2> DEFINE g == WA!Gcd(x[2], z[2])
             k == z[2] \div g
  <2>1. x[1] \in Int /\ z[1] \in Int /\ x[2] \in Nat \ {0} /\ z[2] \in Nat \ {0}
    BY DEF Fraction
  <2>2. g \in 1 .. z[2]
    BY <2>1, DivisorIs DEF WA!Gcd, WA!Abs
  <2> HIDE DEF g
  <2>3. k \in Nat \ {0} /\ x[2] \div g \in Int
    BY <2>1, <2>2
  <2> HIDE DEF k
  <2>4. x[1] * k + z[1] * (x[2] \div g) \in Int /\ x[2] * k \in Int /\ x[2] * k /= 0
    BY <2>1, <2>3
  <2>5. WA!Add(x, z) = WA!Rat(x[1] * k + z[1] * (x[2] \div g), x[2] * k)
    BY DEF WA!Add, WA!AddOver, g, k
  <2> QED
    BY <2>4, <2>5, RatParts
<1> QED
  BY <1>1, NegIs DEF WA!Sub

LEMMA TotalLowest == ASSUME NEW xs \in Seq(Fraction) PROVE Coprime(WA!Total(xs)[1], WA!Total(xs)[2])
<1> DEFINE sum == CHOOSE f : f = [i \in 0 .. Len(xs) |-> IF i = 0 THEN WA!Zero ELSE WA!Add(f[i - 1], xs[i])]
<1>1. Len(xs) \in Nat
  OBVIOUS
<1>2. \E f : f = [i \in 0 .. Len(xs) |-> IF i = 0 THEN WA!Zero ELSE WA!Add(f[i - 1], xs[i])]
  BY <1>1, SumsThere DEF AreSums
<1>3. AreSums(xs, Len(xs), sum)
  BY <1>2, Zenon DEF AreSums
<1>4. WA!Total(xs) = sum[Len(xs)]
  BY DEF WA!Total
<1> HIDE DEF sum
<1>5. Len(xs) \in 0 .. Len(xs)
  OBVIOUS
<1>6. sum[Len(xs)] = IF Len(xs) = 0 THEN WA!Zero ELSE WA!Add(sum[Len(xs) - 1], xs[Len(xs)])
  BY <1>3, <1>5, Zenon DEF AreSums
<1>7. CASE Len(xs) = 0
  BY <1>4, <1>6, <1>7, ZeroIs
<1>8. CASE Len(xs) /= 0
  <2>1. Len(xs) - 1 \in 0 .. Len(xs) /\ xs[Len(xs)] \in Fraction
    BY <1>8
  <2>2. sum[Len(xs) - 1] \in Fraction
    BY <1>3, <2>1, SumsAre
  <2> QED
    BY <1>4, <1>6, <1>8, <2>1, <2>2, AddLowest
<1> QED
  BY <1>7, <1>8

LEMMA DivLowest ==
  ASSUME NEW x \in Fraction, NEW y \in Fraction, y[1] > 0, Coprime(x[1], x[2]), Coprime(y[1], y[2])
  PROVE  Coprime(WA!Div(x, y)[1], WA!Div(x, y)[2])
<1>1. y[1] \in Int /\ y[2] \in Nat \ {0}
  BY DEF Fraction
<1>2. y[2] \div 1 = y[2] /\ y[1] \div 1 = y[1]
  BY <1>1
<1>3. WA!Inv(y) = <<y[2], y[1]>>
  BY <1>1, <1>2 DEF WA!Inv, WA!Over
<1>4. WA!Inv(y) \in Fraction
  BY <1>1, InvIs
<1>5. Coprime(y[2], y[1])
  <2>1. PICK s, t \in Int : s * y[1] + t * y[2] = 1
    BY DEF Coprime
  <2>2. t * y[2] + s * y[1] = 1
    BY <1>1, <2>1
  <2> QED
    BY <2>2 DEF Coprime
<1> QED
  BY <1>3, <1>4, <1>5, MulLowest DEF WA!Div

\* The distance of each value from the mean, n times.
Apart(X, n) == [i \in 1 .. n |-> n * X[i] - SumTo(X, n)]
Multiplied(A, B, n) == [i \in 1 .. n |-> A[i] * B[i]]

LEMMA MeanOfSingle ==
  ASSUME NEW xs \in Seq(Fraction), NEW i \in 1 .. Len(xs), NEW e \in Int, NEW D \in Nat \ {0}, Is(xs[i], e, D)
  PROVE  LET m == WA!Mean(SubSeq(xs, (i - 1) * 1 + 1, i * 1)) IN m \in Fraction /\ Is(m, e, D)
<1> DEFINE l == SubSeq(xs, i, i)
           g == [j \in 1 .. 1 |-> e]
<1>1. (i - 1) * 1 + 1 = i /\ i * 1 = i /\ D * 1 = D /\ 1 * e = e
  OBVIOUS
<1>2. l \in Seq(Fraction) /\ Len(l) = 1 /\ l[1] = xs[i]
  OBVIOUS
<1>3. 1 \in Nat \ {0} /\ \A j \in 1 .. 1 : g[j] = e /\ j = 1
  OBVIOUS
<1> HIDE DEF l, g
<1>4. \A j \in 1 .. 1 : g[j] \in Int /\ Is(l[j], g[j], D)
  BY <1>2, <1>3
<1>5. WA!Mean(l) \in Fraction /\ Is(WA!Mean(l), SumTo(g, 1), D * 1)
  BY <1>2, <1>3, <1>4, MeanIsShare
<1>6. SumTo(g, 1) = 1 * e
  BY <1>3, SumOfSame
<1>7. WA!Mean(l) \in Fraction /\ Is(WA!Mean(l), e, D)
  BY <1>1, <1>5, <1>6, Zenon
<1> QED
  BY <1>1, <1>7 DEF l

LEMMA ApartIs ==
  ASSUME NEW n \in Nat \ {0}, NEW X, Integers(X, n)
  PROVE  Integers(Apart(X, n), n) /\ SumTo(Apart(X, n), n) = 0
<1> DEFINE one == [i \in 1 .. n |-> 1]
           s == SumTo(X, n)
<1>1. s \in Int
  BY SumIs
<1> HIDE DEF s
<1>2. Integers(one, n) /\ SumTo(one, n) = n * 1
  <2>1. 1 \in Int /\ \A i \in 1 .. n : one[i] = 1
    OBVIOUS
  <2> HIDE DEF one
  <2> QED
    BY <2>1, SumOfSame DEF Integers
<1>3. \A i \in 1 .. n : Apart(X, n)[i] = n * X[i] + (-s) * one[i]
  BY <1>1 DEF Apart, Integers, s
<1>4. -s \in Int /\ n \in Int
  BY <1>1
<1> HIDE DEF one
<1>5. Integers(Apart(X, n), n) /\ SumTo(Apart(X, n), n) = n * s + (-s) * (n * 1)
  <2> DEFINE c == -s
             k == Apart(X, n)
  <2>1. n \in Nat /\ n \in Int /\ c \in Int /\ Integers(X, n) /\ Integers(one, n) /\ Made(k, n, n, X, c, one)
    BY <1>2, <1>3, <1>4 DEF Made
  <2> HIDE DEF c, k
  <2>2. Integers(k, n) /\ SumTo(k, n) = n * SumTo(X, n) + c * SumTo(one, n)
    BY <2>1, SumLinear
  <2> QED
    BY <1>2, <2>2, Zenon DEF s, c, k
<1>6. n * s + (-s) * (n * 1) = 0
  BY <1>1
<1> QED
  BY <1>5, <1>6

LEMMA DeviationIs ==
  ASSUME NEW n \in Nat \ {0}, NEW D \in Nat \ {0}, NEW xs \in Seq(Fraction), Len(xs) = n, NEW X,
         \A i \in 1 .. n : X[i] \in Int /\ Is(xs[i], X[i], D)
  PROVE  /\ WA!Deviations(xs, 1) \in Seq(Fraction) /\ Len(WA!Deviations(xs, 1)) = n
         /\ \A i \in 1 .. n : Apart(X, n)[i] \in Int /\ Is(WA!Deviations(xs, 1)[i], Apart(X, n)[i], D * n)
<1> DEFINE m == WA!Mean(xs)
           one(i) == WA!Mean(SubSeq(xs, (i - 1) * 1 + 1, i * 1))
           d == WA!Deviations(xs, 1)
           s == SumTo(X, n)
           E == D * n
<1>1. m \in Fraction /\ Is(m, s, E) /\ s \in Int /\ E \in Nat \ {0}
  BY MeanIsShare, ProductIs, SumIs DEF Integers
<1>2. d \in Seq(Fraction) /\ Len(d) = n
  BY DeviationsAre
<1>3. d = [i \in 1 .. n |-> WA!Sub(one(i), m)]
  <2>1. Len(xs) \div 1 = n
    OBVIOUS
  <2>2. WA!SubsessionMeans(xs, 1) = [i \in 1 .. n |-> one(i)]
    BY <2>1 DEF WA!SubsessionMeans
  <2> HIDE DEF one, m
  <2>3. WA!From([i \in 1 .. n |-> one(i)], m) = [i \in 1 .. n |-> WA!Sub(one(i), m)]
    BY DEF WA!From
  <2> QED
    BY <2>2, <2>3 DEF WA!Deviations, m
<1> HIDE DEF m, d, s
<1>4. ASSUME NEW i \in 1 .. n PROVE Apart(X, n)[i] \in Int /\ Is(d[i], Apart(X, n)[i], E)
  <2> DEFINE o == one(i)
             x == X[i]
  <2>1. o \in Fraction /\ Is(o, x, D) /\ x \in Int /\ d[i] = WA!Sub(o, m)
    BY <1>3, MeanOfSingle
  <2>2. Apart(X, n)[i] = n * x - s
    BY DEF Apart, s
  <2> HIDE DEF o, x, E
  <2>3. WA!Sub(o, m) \in Fraction /\ Is(WA!Sub(o, m), x * E - s * D, D * E)
    BY <1>1, <2>1, AddOf
  <2>4. (x * E - s * D) * E = (n * x - s) * (D * E)
    <3>1. x * E = D * (n * x)
      BY <2>1 DEF E
    <3>2. D * (n * x) - s * D = (n * x - s) * D /\ n * x - s \in Int
      BY <1>1, <2>1
    <3>3. ((n * x - s) * D) * E = (n * x - s) * (D * E)
      BY <1>1, <3>2, Regroup
    <3> QED
      BY <3>1, <3>2, <3>3, Zenon
  <2>5. x * E - s * D \in Int /\ D * E \in Int /\ D * E /= 0 /\ n * x - s \in Int
    BY <1>1, <2>1, ProductIs
  <2>6. Is(WA!Sub(o, m), n * x - s, E)
    BY <1>1, <2>3, <2>4, <2>5, Through
  <2> QED
    BY <2>1, <2>2, <2>5, <2>6
<1> QED
  BY <1>2, <1>4 DEF d, E

LEMMA ProductsSum ==
  ASSUME NEW n \in Nat, NEW d \in Seq(Fraction), NEW e \in Seq(Fraction), Len(d) = n, Len(e) = n, NEW E \in Nat \ {0},
         NEW A, NEW B, \A i \in 1 .. n : A[i] \in Int /\ Is(d[i], A[i], E), \A i \in 1 .. n : B[i] \in Int /\ Is(e[i], B[i], E)
  PROVE  LET t == WA!Total([i \in DOMAIN d |-> WA!Mul(d[i], e[i])])
         IN t \in Fraction /\ Is(t, SumTo(Multiplied(A, B, n), n), E * E) /\ Coprime(t[1], t[2])
<1> DEFINE f == [i \in DOMAIN d |-> WA!Mul(d[i], e[i])]
           g == Multiplied(A, B, n)
<1>1. f = [i \in 1 .. n |-> WA!Mul(d[i], e[i])]
  OBVIOUS
<1>2. ASSUME NEW i \in 1 .. n PROVE f[i] \in Fraction /\ g[i] \in Int /\ Is(f[i], g[i], E * E)
  <2>1. d[i] \in Fraction /\ e[i] \in Fraction /\ A[i] \in Int /\ B[i] \in Int /\ Is(d[i], A[i], E) /\ Is(e[i], B[i], E)
    OBVIOUS
  <2>2. f[i] = WA!Mul(d[i], e[i]) /\ g[i] = A[i] * B[i]
    BY <1>1 DEF Multiplied
  <2> HIDE DEF f, g
  <2>3. f[i] \in Fraction /\ Is(f[i], A[i] * B[i], E * E)
    BY <2>1, <2>2, MulOf
  <2> QED
    BY <2>1, <2>2, <2>3
<1> HIDE DEF f
<1>3. f = [i \in 1 .. n |-> f[i]] /\ \A i \in 1 .. n : f[i] \in Fraction
  BY <1>1, <1>2
<1>4. f \in Seq(Fraction) /\ Len(f) = n
  BY <1>3, ListIs
<1>5. E * E \in Nat \ {0}
  BY ProductIs
<1> HIDE DEF g
<1>6. WA!Total(f) \in Fraction /\ Is(WA!Total(f), SumTo(g, n), E * E)
  BY <1>2, <1>4, <1>5, TotalIsSum
<1> QED
  BY <1>4, <1>6, TotalLowest DEF f, g

LEMMA SquaresSum ==
  ASSUME NEW n \in Nat, NEW d \in Seq(Fraction), Len(d) = n, NEW E \in Nat \ {0},
         NEW A, \A i \in 1 .. n : A[i] \in Int /\ Is(d[i], A[i], E)
  PROVE  LET t == WA!SumOfSquares(d)
         IN t \in Fraction /\ Is(t, SumTo(Multiplied(A, A, n), n), E * E) /\ Coprime(t[1], t[2])
<1> DEFINE f == [i \in DOMAIN d |-> WA!Square(d[i])]
           g == Multiplied(A, A, n)
<1>1. f = [i \in 1 .. n |-> WA!Square(d[i])]
  OBVIOUS
<1>2. ASSUME NEW i \in 1 .. n PROVE f[i] \in Fraction /\ g[i] \in Int /\ Is(f[i], g[i], E * E)
  <2>1. d[i] \in Fraction /\ A[i] \in Int /\ Is(d[i], A[i], E)
    OBVIOUS
  <2>2. f[i] = WA!Square(d[i]) /\ g[i] = A[i] * A[i]
    BY <1>1 DEF Multiplied
  <2> HIDE DEF f, g
  <2>3. f[i] \in Fraction /\ Is(f[i], A[i] * A[i], E * E)
    BY <2>1, <2>2, SquareOf
  <2> QED
    BY <2>1, <2>2, <2>3
<1> HIDE DEF f
<1>3. f = [i \in 1 .. n |-> f[i]] /\ \A i \in 1 .. n : f[i] \in Fraction
  BY <1>1, <1>2
<1>4. f \in Seq(Fraction) /\ Len(f) = n
  BY <1>3, ListIs
<1>5. E * E \in Nat \ {0}
  BY ProductIs
<1> HIDE DEF g
<1>6. WA!Total(f) \in Fraction /\ Is(WA!Total(f), SumTo(g, n), E * E)
  BY <1>2, <1>4, <1>5, TotalIsSum
<1>7. WA!SumOfSquares(d) = WA!Total(f)
  BY DEF WA!SumOfSquares, f
<1> QED
  BY <1>4, <1>6, <1>7, TotalLowest DEF g

Spread(X, Y, n) == SumTo(Multiplied(Apart(X, n), Apart(Y, n), n), n)

LEMMA SpreadIs ==
  ASSUME NEW n \in Nat \ {0}, NEW X, NEW Y, Integers(X, n), Integers(Y, n)
  PROVE  Spread(X, Y, n) \in Int /\ Spread(X, X, n) \in Nat
<1> DEFINE A == Apart(X, n)
           B == Apart(Y, n)
<1>1. Integers(A, n) /\ Integers(B, n)
  BY ApartIs
<1> HIDE DEF A, B
<1>2. Integers(Multiplied(A, B, n), n)
  BY <1>1 DEF Integers, Multiplied
<1>3. \A i \in 1 .. n : Multiplied(A, A, n)[i] \in Nat
  <2>1. \A u \in Int : u * u \in Nat
    BY SMT
  <2> QED
    BY <1>1, <2>1 DEF Integers, Multiplied
<1>4. n \in Nat
  OBVIOUS
<1> QED
  BY <1>2, <1>3, <1>4, SumIs, SumNatural DEF Spread, A, B

\* The line of least squares: its slope is a quotient of spreads.
LEMMA RegressionIs ==
  ASSUME NEW n \in Nat \ {0}, NEW D \in Nat \ {0}, NEW xs \in Seq(Fraction), NEW ys \in Seq(Fraction),
         Len(xs) = n, Len(ys) = n, NEW X, NEW Y,
         \A i \in 1 .. n : X[i] \in Int /\ Is(xs[i], X[i], D), \A i \in 1 .. n : Y[i] \in Int /\ Is(ys[i], Y[i], D),
         WA!SumOfSquares(WA!Deviations(xs, 1))[1] > 0
  PROVE  LET fit == WA!Regression(xs, ys)
             xx == Spread(X, X, n)
             xy == Spread(X, Y, n)
         IN /\ xx \in Nat \ {0} /\ xy \in Int
            /\ fit[2] \in Fraction /\ Is(fit[2], xy, xx) /\ Coprime(fit[2][1], fit[2][2])
            /\ fit[1] \in Fraction /\ Is(fit[1], SumTo(Y, n) * xx - xy * SumTo(X, n), (D * n) * xx)
            /\ Coprime(fit[1][1], fit[1][2])
<1> DEFINE fit == WA!Regression(xs, ys)
           dx == WA!Deviations(xs, 1)
           dy == WA!Deviations(ys, 1)
           mx == WA!Mean(xs)
           my == WA!Mean(ys)
           A == Apart(X, n)
           B == Apart(Y, n)
           xx == Spread(X, X, n)
           xy == Spread(X, Y, n)
           sx == SumTo(X, n)
           sy == SumTo(Y, n)
           E == D * n
           slope == WA!Slope(dx, dy)
           squares == WA!SumOfSquares(dx)
           products == WA!Total([i \in DOMAIN dx |-> WA!Mul(dx[i], dy[i])])
<1>1. /\ E \in Nat \ {0} /\ E * E \in Nat \ {0} /\ sx \in Int /\ sy \in Int /\ xy \in Int /\ xx \in Nat
      /\ Integers(X, n) /\ Integers(Y, n)
  BY ProductIs, SumIs, SpreadIs DEF Integers
<1>2. /\ dx \in Seq(Fraction) /\ Len(dx) = n /\ dy \in Seq(Fraction) /\ Len(dy) = n
      /\ \A i \in 1 .. n : A[i] \in Int /\ Is(dx[i], A[i], E)
      /\ \A i \in 1 .. n : B[i] \in Int /\ Is(dy[i], B[i], E)
  <2>1. /\ dx \in Seq(Fraction) /\ Len(dx) = n
        /\ \A i \in 1 .. n : A[i] \in Int /\ Is(dx[i], A[i], E)
    BY DeviationIs
  <2>2. /\ dy \in Seq(Fraction) /\ Len(dy) = n
        /\ \A i \in 1 .. n : B[i] \in Int /\ Is(dy[i], B[i], E)
    BY DeviationIs
  <2> QED
    BY <2>1, <2>2
<1>3. mx \in Fraction /\ Is(mx, sx, E) /\ my \in Fraction /\ Is(my, sy, E)
  BY MeanIsShare
<1>4. slope = WA!Div(products, squares) /\ squares[1] > 0
  BY DEF WA!Slope
<1>5. fit = <<WA!Sub(my, WA!Mul(slope, mx)), slope>>
  BY DEF WA!Regression, WA!Through
<1> HIDE DEF fit, dx, dy, mx, my, A, B, xx, xy, sx, sy, E, slope
<1>6. squares \in Fraction /\ Is(squares, xx, E * E) /\ Coprime(squares[1], squares[2])
  BY <1>1, <1>2, SquaresSum DEF Spread, A, xx
<1>7. products \in Fraction /\ Is(products, xy, E * E) /\ Coprime(products[1], products[2])
  BY <1>1, <1>2, ProductsSum DEF Spread, A, B, xy
<1> HIDE DEF squares, products
<1>8. xx \in Nat \ {0}
  <2>1. squares[1] \in Int /\ squares[2] \in Nat \ {0} /\ squares[1] * (E * E) = xx * squares[2]
    BY <1>6 DEF Fraction, Is
  <2> QED
    BY <1>1, <1>4, <2>1, SignOf
<1>9. slope \in Fraction /\ Is(slope, xy, xx) /\ Coprime(slope[1], slope[2])
  <2> DEFINE F == E * E
  <2>0. F \in Nat \ {0} /\ F /= 0 /\ xx /= 0 /\ F * xx /= 0 /\ xy * F \in Int /\ F * xx \in Int
    BY <1>1, <1>8, ProductIs
  <2>1. Is(squares, xx, F) /\ Is(products, xy, F)
    BY <1>6, <1>7
  <2> HIDE DEF F
  <2>2. slope \in Fraction /\ Is(slope, xy * F, F * xx)
    BY <1>1, <1>4, <1>6, <1>7, <2>0, <2>1, DivOf
  <2>3. (xy * F) * xx = xy * (F * xx)
    BY <1>1, <2>0, Regroup
  <2>4. Is(slope, xy, xx)
    <3> DEFINE u == xy * F
               w == F * xx
    <3>1. /\ u \in Int /\ w \in Int /\ w /= 0 /\ xy \in Int /\ xx \in Int
          /\ slope \in Fraction /\ Is(slope, u, w) /\ u * xx = xy * w
      BY <1>1, <2>0, <2>2, <2>3
    <3> HIDE DEF u, w
    <3> QED
      BY <3>1, Through, Zenon
  <2> QED
    BY <1>4, <1>6, <1>7, <2>2, <2>4, DivLowest
<1>10. fit[1] \in Fraction /\ Is(fit[1], sy * xx - xy * sx, E * xx) /\ Coprime(fit[1][1], fit[1][2])
  <2> DEFINE z == WA!Mul(slope, mx)
  <2>1. z \in Fraction /\ Is(z, xy * sx, xx * E)
    BY <1>1, <1>3, <1>8, <1>9, MulOf
  <2>2. xy * sx \in Int /\ xx * E \in Int /\ xx * E \in Nat \ {0} /\ E \in Int /\ sy \in Int
    BY <1>1, <1>8, ProductIs
  <2>3. fit[1] = WA!Sub(my, z)
    BY <1>5
  <2> HIDE DEF z
  <2>4. fit[1] \in Fraction /\ Is(fit[1], sy * (xx * E) - (xy * sx) * E, E * (xx * E))
    BY <1>3, <2>1, <2>2, <2>3, AddOf
  <2>5. Coprime(fit[1][1], fit[1][2])
    BY <1>3, <2>1, <2>3, AddLowest
  <2>6. (sy * (xx * E) - (xy * sx) * E) * (E * xx) = (sy * xx - xy * sx) * (E * (xx * E))
    <3> DEFINE w == sy * xx - xy * sx
               G == E * (xx * E)
    <3>1. sy * (xx * E) - (xy * sx) * E = w * E
      BY <1>1
    <3>2. w \in Int /\ E \in Int /\ E * xx \in Int /\ E * (E * xx) = G
      BY <1>1, <2>2
    <3> HIDE DEF w
    <3>3. (w * E) * (E * xx) = w * (E * (E * xx))
      BY <3>2, Regroup
    <3> QED
      BY <3>1, <3>2, <3>3, Zenon DEF w
  <2>7. /\ sy * (xx * E) - (xy * sx) * E \in Int /\ E * (xx * E) \in Int /\ E * (xx * E) /= 0
        /\ sy * xx - xy * sx \in Int /\ E * xx \in Int
    BY <1>1, <2>2, ProductIs
  <2>8. Is(fit[1], sy * xx - xy * sx, E * xx)
    BY <2>4, <2>6, <2>7, Through
  <2> QED
    BY <2>4, <2>5, <2>8
<1>11. fit[2] = slope
  BY <1>5
<1> QED
  BY <1>1, <1>8, <1>9, <1>10, <1>11 DEF fit, xx, xy, sx, sy, E

-----------------------------------------------------------------------------
(* Data on a line. *)

OnLine(X, Y, n, P, Q, c) == \A i \in 1 .. n : Q * Y[i] - P * X[i] = c

LEMMA SumsOnLine ==
  ASSUME NEW n \in Nat, NEW X, NEW Y, Integers(X, n), Integers(Y, n), NEW P \in Int, NEW Q \in Int, NEW c \in Int,
         OnLine(X, Y, n, P, Q, c)
  PROVE  Q * SumTo(Y, n) - P * SumTo(X, n) = n * c
<1> DEFINE k == [i \in 1 .. n |-> Q * Y[i] + (-P) * X[i]]
           R == -P
<1>1. \A i \in 1 .. n : k[i] = Q * Y[i] + R * X[i]
  OBVIOUS
<1>2. R \in Int
  OBVIOUS
<1>3. \A i \in 1 .. n : k[i] = c
  <2>1. \A i \in 1 .. n : Y[i] \in Int /\ X[i] \in Int
    BY DEF Integers
  <2> QED
    BY <2>1 DEF OnLine
<1> HIDE DEF k
<1>4. SumTo(k, n) = Q * SumTo(Y, n) + R * SumTo(X, n)
  <2>1. /\ n \in Nat /\ Q \in Int /\ R \in Int /\ Integers(Y, n) /\ Integers(X, n)
        /\ Made(k, n, Q, Y, R, X)
    BY <1>1, <1>2 DEF Made
  <2> HIDE DEF R
  <2> QED
    BY <2>1, SumLinear
<1>5. SumTo(k, n) = n * c
  BY <1>3, SumOfSame
<1>6. SumTo(X, n) \in Int /\ SumTo(Y, n) \in Int
  BY SumIs
<1> QED
  BY <1>4, <1>5, <1>6

LEMMA SpreadsOnLine ==
  ASSUME NEW n \in Nat \ {0}, NEW X, NEW Y, Integers(X, n), Integers(Y, n), NEW P \in Int, NEW Q \in Int, NEW c \in Int,
         OnLine(X, Y, n, P, Q, c)
  PROVE  Q * Spread(X, Y, n) = P * Spread(X, X, n)
<1> DEFINE A == Apart(X, n)
           B == Apart(Y, n)
           sx == SumTo(X, n)
           sy == SumTo(Y, n)
<1>1. Integers(A, n) /\ Integers(B, n) /\ sx \in Int /\ sy \in Int /\ Q * sy - P * sx = n * c
  BY ApartIs, SumIs, SumsOnLine
<1>2. ASSUME NEW i \in 1 .. n PROVE Q * B[i] = P * A[i]
  <2>1. A[i] = n * X[i] - sx /\ B[i] = n * Y[i] - sy
    BY DEF Apart
  <2> DEFINE x == X[i]
             y == Y[i]
  <2>2. x \in Int /\ y \in Int /\ Q * y - P * x = c
    BY DEF Integers, OnLine
  <2> HIDE DEF x, y, sx, sy, A, B
  <2>3. Q * (n * y - sy) - P * (n * x - sx) = n * (Q * y - P * x) - (Q * sy - P * sx)
    BY <1>1, <2>2
  <2>4. n * (Q * y - P * x) - (Q * sy - P * sx) = 0
    BY <1>1, <2>2
  <2>5. Q * (n * y - sy) = P * (n * x - sx)
    BY <1>1, <2>2, <2>3, <2>4
  <2> QED
    BY <2>1, <2>5 DEF x, y
<1> HIDE DEF A, B
<1> DEFINE AB == Multiplied(A, B, n)
           AA == Multiplied(A, A, n)
<1>3. Integers(AB, n) /\ Integers(AA, n)
  BY <1>1 DEF Integers, Multiplied
<1>4. \A i \in 1 .. n : Q * AB[i] - P * AA[i] = 0
  <2> TAKE i \in 1 .. n
  <2> DEFINE u == A[i]
             v == B[i]
  <2>1. u \in Int /\ v \in Int /\ Q * v = P * u /\ AB[i] = u * v /\ AA[i] = u * u
    BY <1>1, <1>2 DEF Integers, Multiplied
  <2> HIDE DEF u, v, AB, AA
  <2>2. Q * (u * v) - P * (u * u) = u * (Q * v - P * u)
    BY <2>1
  <2>3. Q * v - P * u = 0
    BY <2>1
  <2> QED
    BY <2>1, <2>2, <2>3
<1> HIDE DEF AB, AA
<1>5. n \in Nat /\ 0 \in Int
  OBVIOUS
<1>6. Q * SumTo(AB, n) - P * SumTo(AA, n) = n * 0
  BY <1>3, <1>4, <1>5, SumsOnLine DEF OnLine
<1>7. SumTo(AB, n) \in Int /\ SumTo(AA, n) \in Int
  BY <1>3, <1>5, SumIs
<1> QED
  BY <1>6, <1>7 DEF Spread, A, B, AB, AA

-----------------------------------------------------------------------------
(* Rounds that are taken together. *)

Group(X, q, j) == [i \in 1 .. q |-> X[(j - 1) * q + i]]
Groups(X, q, m) == [j \in 1 .. m |-> SumTo(Group(X, q, j), q)]

LEMMA InGroup ==
  ASSUME NEW n \in Nat, NEW q \in Nat \ {0}, NEW m \in Nat, m = n \div q, NEW j \in 1 .. m, NEW i \in 1 .. q
  PROVE  (j - 1) * q + i \in 1 .. n
<1>1. m * q <= n
  BY SMT
<1>2. (j - 1) * q >= 0 /\ j * q <= m * q /\ (j - 1) * q + q = j * q
  BY SMT
<1>3. (j - 1) * q \in Int /\ j * q \in Int /\ m * q \in Int
  OBVIOUS
<1> QED
  BY <1>1, <1>2, <1>3

\* Numbers that stand for integers, in D-ths.
Stands(xs, X, n, D) == \A i \in 1 .. n : X[i] \in Int /\ Is(xs[i], X[i], D)

LEMMA GroupsAre ==
  ASSUME NEW xs \in Seq(Fraction), NEW q \in Nat \ {0}, NEW n \in Nat, NEW m \in Nat, Len(xs) = n, m = n \div q,
         NEW D \in Nat \ {0}, NEW X, Stands(xs, X, n, D)
  PROVE  LET means == WA!SubsessionMeans(xs, q)
         IN means \in Seq(Fraction) /\ Len(means) = m /\ Stands(means, Groups(X, q, m), m, D * q)
<1> DEFINE means == WA!SubsessionMeans(xs, q)
           part(j) == SubSeq(xs, (j - 1) * q + 1, j * q)
<1>1. means \in Seq(Fraction) /\ Len(means) = m
  BY MeansAre
<1>2. means = [j \in 1 .. m |-> WA!Mean(part(j))]
  BY DEF WA!SubsessionMeans
<1> HIDE DEF means
<1>3. ASSUME NEW j \in 1 .. m PROVE Groups(X, q, m)[j] \in Int /\ Is(means[j], Groups(X, q, m)[j], D * q)
  <2> DEFINE l == part(j)
             g == Group(X, q, j)
  <2>1. \A i \in 1 .. q : (j - 1) * q + i \in 1 .. n
    BY InGroup
  <2>2. (j - 1) * q + 1 \in 1 .. n /\ j * q \in 1 .. n /\ j * q - ((j - 1) * q + 1) + 1 = q
    <3>1. (j - 1) * q + 1 \in 1 .. n /\ (j - 1) * q + q \in 1 .. n
      BY <2>1
    <3>2. (j - 1) * q + q = j * q
      OBVIOUS
    <3> QED
      BY <3>1, <3>2
  <2>3. l \in Seq(Fraction) /\ Len(l) = q /\ \A i \in 1 .. q : l[i] = xs[(j - 1) * q + i]
    <3> DEFINE k == (j - 1) * q
               e == j * q
    <3>1. k \in Int /\ k + 1 \in 1 .. n /\ e \in 1 .. n /\ e - (k + 1) + 1 = q
      BY <2>2
    <3>2. l = SubSeq(xs, k + 1, e)
      OBVIOUS
    <3> HIDE DEF k, e, l
    <3>3. l \in Seq(Fraction) /\ Len(l) = q /\ \A i \in 1 .. q : l[i] = xs[k + i]
      BY <3>1, <3>2
    <3> QED
      BY <3>3 DEF k
  <2>4. \A i \in 1 .. q : g[i] = X[(j - 1) * q + i]
    BY DEF Group
  <2>5. Groups(X, q, m)[j] = SumTo(g, q) /\ means[j] = WA!Mean(l)
    BY <1>2 DEF Groups
  <2> HIDE DEF l, g, part
  <2>6. \A i \in 1 .. q : g[i] \in Int /\ Is(l[i], g[i], D)
    BY <2>1, <2>3, <2>4 DEF Stands
  <2>7. WA!Mean(l) \in Fraction /\ Is(WA!Mean(l), SumTo(g, q), D * q)
    BY <2>3, <2>6, MeanIsShare
  <2>8. SumTo(g, q) \in Int
    BY <2>6, SumIs DEF Integers
  <2> QED
    BY <2>5, <2>7, <2>8
<1> QED
  BY <1>1, <1>3 DEF means, Stands

\* Rounds that lie on a line still do so when they are taken together.
LEMMA GroupsOnLine ==
  ASSUME NEW n \in Nat, NEW q \in Nat \ {0}, NEW m \in Nat, m = n \div q, NEW X, NEW Y, Integers(X, n), Integers(Y, n),
         NEW P \in Int, NEW Q \in Int, NEW c \in Int, OnLine(X, Y, n, P, Q, c)
  PROVE  OnLine(Groups(X, q, m), Groups(Y, q, m), m, P, Q, q * c)
<1> SUFFICES ASSUME NEW j \in 1 .. m PROVE Q * Groups(Y, q, m)[j] - P * Groups(X, q, m)[j] = q * c
  BY DEF OnLine
<1> DEFINE g == Group(X, q, j)
           h == Group(Y, q, j)
<1>1. \A i \in 1 .. q : (j - 1) * q + i \in 1 .. n
  BY InGroup
<1>2. \A i \in 1 .. q : g[i] = X[(j - 1) * q + i] /\ h[i] = Y[(j - 1) * q + i]
  BY DEF Group
<1>3. Groups(X, q, m)[j] = SumTo(g, q) /\ Groups(Y, q, m)[j] = SumTo(h, q)
  BY DEF Groups
<1> HIDE DEF g, h
<1>4. Integers(g, q) /\ Integers(h, q)
  BY <1>1, <1>2 DEF Integers
<1>5. OnLine(g, h, q, P, Q, c)
  BY <1>1, <1>2 DEF OnLine
<1>6. Q * SumTo(h, q) - P * SumTo(g, q) = q * c
  BY <1>4, <1>5, SumsOnLine
<1> QED
  BY <1>3, <1>6

-----------------------------------------------------------------------------
(* The line through rounds. *)

Works(kept) == [i \in 1 .. Len(kept) |-> kept[i][1]]
Lasted(kept) == [i \in 1 .. Len(kept) |-> kept[i][2]]

LEMMA RoundsAre ==
  ASSUME NEW kept \in Rounds
  PROVE  LET n == Len(kept)
             xs == WA!AmountsOf(kept)
             ys == WA!TimesOf(kept)
         IN /\ n \in Nat
            /\ xs \in Seq(Fraction) /\ Len(xs) = n /\ ys \in Seq(Fraction) /\ Len(ys) = n
            /\ Stands(xs, Works(kept), n, 1) /\ Stands(ys, Lasted(kept), n, 1)
            /\ Integers(Works(kept), n) /\ Integers(Lasted(kept), n)
            /\ \A i \in 1 .. n : /\ Works(kept)[i] = kept[i][1] /\ Works(kept)[i] \in Nat
                                 /\ xs[i] = WA!Whole(kept[i][1])
            /\ \A i \in 1 .. n : /\ Lasted(kept)[i] = kept[i][2] /\ Lasted(kept)[i] \in Nat
                                 /\ ys[i] = WA!Whole(kept[i][2])
<1> DEFINE n == Len(kept)
           xs == WA!AmountsOf(kept)
           ys == WA!TimesOf(kept)
<1>1. n \in Nat /\ \A i \in 1 .. n : kept[i][1] \in Nat /\ kept[i][2] \in Nat
  BY DEF Rounds
<1>2. xs = [i \in 1 .. n |-> WA!Whole(kept[i][1])] /\ ys = [i \in 1 .. n |-> WA!Whole(kept[i][2])]
  BY DEF WA!AmountsOf, WA!TimesOf, WA!Amount, WA!Duration, Rounds
<1>3. \A i \in 1 .. n : Works(kept)[i] = kept[i][1] /\ Lasted(kept)[i] = kept[i][2]
  BY DEF Works, Lasted
<1> HIDE DEF xs, ys, n
<1>4. \A i \in 1 .. n : /\ xs[i] = WA!Whole(kept[i][1]) /\ xs[i] \in Fraction /\ Is(xs[i], kept[i][1], 1)
                        /\ ys[i] = WA!Whole(kept[i][2]) /\ ys[i] \in Fraction /\ Is(ys[i], kept[i][2], 1)
  <2> TAKE i \in 1 .. n
  <2>1. xs[i] = WA!Whole(kept[i][1]) /\ ys[i] = WA!Whole(kept[i][2]) /\ kept[i][1] \in Int /\ kept[i][2] \in Int
    BY <1>1, <1>2
  <2> QED
    BY <2>1, WholeOf
<1>5. xs = [i \in 1 .. n |-> xs[i]] /\ ys = [i \in 1 .. n |-> ys[i]]
  BY <1>2
<1>6. xs \in Seq(Fraction) /\ Len(xs) = n /\ ys \in Seq(Fraction) /\ Len(ys) = n
  BY <1>1, <1>4, <1>5, ListIs
<1>7. Stands(xs, Works(kept), n, 1) /\ Stands(ys, Lasted(kept), n, 1)
  BY <1>1, <1>3, <1>4 DEF Stands
<1>8. Integers(Works(kept), n) /\ Integers(Lasted(kept), n)
  BY <1>1, <1>3 DEF Integers
<1> QED
  BY <1>1, <1>3, <1>4, <1>6, <1>7, <1>8 DEF xs, ys, n

\* The regression of rounds that are taken together by q.
LEMMA GroupedFit ==
  ASSUME NEW kept \in Rounds, NEW q \in Nat \ {0}, NEW m \in Nat \ {0}, m = Len(kept) \div q,
         WA!SumOfSquares(WA!Deviations(WA!Grouped(WA!AmountsOf(kept), q), 1))[1] > 0
  PROVE  LET fit == WA!Regression(WA!Grouped(WA!AmountsOf(kept), q), WA!Grouped(WA!TimesOf(kept), q))
             X == Groups(Works(kept), q, m)
             Y == Groups(Lasted(kept), q, m)
             xx == Spread(X, X, m)
             xy == Spread(X, Y, m)
         IN /\ Integers(X, m) /\ Integers(Y, m) /\ xx \in Nat \ {0} /\ xy \in Int
            /\ fit[2] \in Fraction /\ Is(fit[2], xy, xx) /\ Coprime(fit[2][1], fit[2][2])
            /\ fit[1] \in Fraction /\ Is(fit[1], SumTo(Y, m) * xx - xy * SumTo(X, m), (q * m) * xx)
            /\ Coprime(fit[1][1], fit[1][2])
<1> DEFINE xs == WA!Grouped(WA!AmountsOf(kept), q)
           ys == WA!Grouped(WA!TimesOf(kept), q)
           X == Groups(Works(kept), q, m)
           Y == Groups(Lasted(kept), q, m)
           n == Len(kept)
           u == WA!AmountsOf(kept)
           v == WA!TimesOf(kept)
<1>1. /\ n \in Nat /\ u \in Seq(Fraction) /\ Len(u) = n /\ v \in Seq(Fraction) /\ Len(v) = n
      /\ Stands(u, Works(kept), n, 1) /\ Stands(v, Lasted(kept), n, 1)
  BY RoundsAre
<1>2. 1 \in Nat \ {0} /\ 1 * q = q /\ m \in Nat
  OBVIOUS
<1> HIDE DEF u, v
<1>3. /\ xs \in Seq(Fraction) /\ Len(xs) = m
      /\ Stands(xs, X, m, q)
  <2>1. /\ WA!SubsessionMeans(u, q) \in Seq(Fraction) /\ Len(WA!SubsessionMeans(u, q)) = m
        /\ Stands(WA!SubsessionMeans(u, q), X, m, 1 * q)
    BY <1>1, <1>2, GroupsAre
  <2> QED
    BY <1>2, <2>1 DEF WA!Grouped, u
<1>4. /\ ys \in Seq(Fraction) /\ Len(ys) = m
      /\ Stands(ys, Y, m, q)
  <2>1. /\ WA!SubsessionMeans(v, q) \in Seq(Fraction) /\ Len(WA!SubsessionMeans(v, q)) = m
        /\ Stands(WA!SubsessionMeans(v, q), Y, m, 1 * q)
    BY <1>1, <1>2, GroupsAre
  <2> QED
    BY <1>2, <2>1 DEF WA!Grouped, v
<1>5. WA!SumOfSquares(WA!Deviations(xs, 1))[1] > 0
  OBVIOUS
<1> HIDE DEF xs, ys, X, Y
<1>6. Integers(X, m) /\ Integers(Y, m)
  BY <1>3, <1>4 DEF Integers, Stands
<1> QED
  BY <1>3, <1>4, <1>5, <1>6, RegressionIs DEF xs, ys, X, Y, Stands

SumsFollow(X, Y, m, P, Q, d) ==
  /\ Q * Spread(X, Y, m) = P * Spread(X, X, m)
  /\ Q * SumTo(Y, m) - P * SumTo(X, m) = m * d

\* When all rounds lie on a line, so do their sums and spreads.
LEMMA GroupsLine ==
  ASSUME NEW kept \in Rounds, NEW q \in Nat \ {0}, NEW m \in Nat \ {0}, m = Len(kept) \div q,
         NEW P \in Int, NEW Q \in Int, NEW c \in Int, OnLine(Works(kept), Lasted(kept), Len(kept), P, Q, c),
         Integers(Groups(Works(kept), q, m), m), Integers(Groups(Lasted(kept), q, m), m)
  PROVE  SumsFollow(Groups(Works(kept), q, m), Groups(Lasted(kept), q, m), m, P, Q, q * c)
<1> DEFINE n == Len(kept)
           w == Works(kept)
           t == Lasted(kept)
           d == q * c
           X == Groups(w, q, m)
           Y == Groups(t, q, m)
<1>1. n \in Nat /\ Integers(w, n) /\ Integers(t, n) /\ OnLine(w, t, n, P, Q, c)
  BY RoundsAre
<1>2. m \in Nat /\ m = n \div q
  OBVIOUS
<1> HIDE DEF n, w, t
<1>3. OnLine(X, Y, m, P, Q, d)
  BY <1>1, <1>2, GroupsOnLine
<1>4. d \in Int /\ m \in Nat /\ Integers(X, m) /\ Integers(Y, m)
  BY DEF w, t
<1> HIDE DEF d, X, Y
<1>5. Q * Spread(X, Y, m) = P * Spread(X, X, m) /\ Q * SumTo(Y, m) - P * SumTo(X, m) = m * d
  BY <1>3, <1>4, SumsOnLine, SpreadsOnLine
<1> QED
  BY <1>5 DEF SumsFollow, d, X, Y, w, t

\* Then the regression finds the line.
LEMMA FitOnLine ==
  ASSUME NEW kept \in Rounds, NEW q \in Nat \ {0}, NEW m \in Nat \ {0}, m = Len(kept) \div q,
         WA!SumOfSquares(WA!Deviations(WA!Grouped(WA!AmountsOf(kept), q), 1))[1] > 0,
         NEW P \in Int, NEW Q \in Int, NEW c \in Int, OnLine(Works(kept), Lasted(kept), Len(kept), P, Q, c)
  PROVE  LET fit == WA!Regression(WA!Grouped(WA!AmountsOf(kept), q), WA!Grouped(WA!TimesOf(kept), q))
         IN /\ fit[1] \in Fraction /\ Coprime(fit[1][1], fit[1][2]) /\ Is(fit[1], c, Q)
            /\ fit[2] \in Fraction /\ Coprime(fit[2][1], fit[2][2]) /\ Is(fit[2], P, Q)
            /\ Q /= 0 \/ P = 0
<1> DEFINE fit == WA!Regression(WA!Grouped(WA!AmountsOf(kept), q), WA!Grouped(WA!TimesOf(kept), q))
           X == Groups(Works(kept), q, m)
           Y == Groups(Lasted(kept), q, m)
           xx == Spread(X, X, m)
           xy == Spread(X, Y, m)
           sx == SumTo(X, m)
           sy == SumTo(Y, m)
           F == q * m
           G == F * xx
           N == sy * xx - xy * sx
<1>1. /\ Integers(X, m) /\ Integers(Y, m) /\ xx \in Nat \ {0} /\ xy \in Int
      /\ fit[2] \in Fraction /\ Is(fit[2], xy, xx) /\ Coprime(fit[2][1], fit[2][2])
      /\ fit[1] \in Fraction /\ Is(fit[1], N, G) /\ Coprime(fit[1][1], fit[1][2])
  BY GroupedFit
<1>2. Q * xy = P * xx /\ Q * sy - P * sx = m * (q * c)
  <2>1. Integers(Groups(Works(kept), q, m), m) /\ Integers(Groups(Lasted(kept), q, m), m)
    BY <1>1
  <2>2. SumsFollow(Groups(Works(kept), q, m), Groups(Lasted(kept), q, m), m, P, Q, q * c)
    BY <2>1, GroupsLine
  <2> QED
    BY <2>2 DEF SumsFollow
<1>3. sx \in Int /\ sy \in Int
  BY <1>1, SumIs
<1> HIDE DEF fit, X, Y, xx, xy, sx, sy
<1>4. F \in Nat \ {0} /\ m * (q * c) = c * F
  <2>1. F \in Nat \ {0}
    BY ProductIs
  <2>2. m \in Int /\ q \in Int /\ q * c \in Int
    OBVIOUS
  <2>3. m * (q * c) = (m * q) * c
    BY <2>2, Regroup
  <2>4. m * q = q * m /\ F * c = c * F
    BY <2>1, <2>2
  <2> QED
    BY <2>1, <2>3, <2>4
<1> HIDE DEF F
<1>5. G \in Nat \ {0} /\ N \in Int
  BY <1>1, <1>3, <1>4, ProductIs
<1>6. Is(fit[2], P, Q)
  <2>1. xy * Q = P * xx /\ xx /= 0 /\ xx \in Int
    BY <1>1, <1>2
  <2> QED
    BY <1>1, <2>1, Through
<1>7. Is(fit[1], c, Q)
  <2>1. N * Q = xx * (Q * sy) - (Q * xy) * sx
    BY <1>1, <1>3
  <2>2. xx * (Q * sy) - (P * xx) * sx = xx * (Q * sy - P * sx)
    BY <1>1, <1>3
  <2>3. xx * (c * F) = c * G
    BY <1>1, <1>4
  <2>4. N * Q = c * G
    BY <1>2, <1>4, <2>1, <2>2, <2>3, Zenon
  <2>5. G \in Int /\ G /= 0
    BY <1>5
  <2> HIDE DEF N, G
  <2> QED
    BY <1>1, <1>5, <2>4, <2>5, Through
<1>8. Q /= 0 \/ P = 0
  BY <1>1, <1>2, SMT
<1> QED
  BY <1>1, <1>6, <1>7, <1>8 DEF fit

LEMMA FittedParts ==
  ASSUME NEW kept \in Rounds, Enough(kept)
  PROVE  LET q == SizeFor(kept)
             m == Len(kept) \div q
             xs == WA!Grouped(WA!AmountsOf(kept), q)
             ys == WA!Grouped(WA!TimesOf(kept), q)
             fit == WA!Regression(xs, ys)
             r == Fitted(kept)
         IN /\ q \in Nat \ {0} /\ m \in Nat \ {0} /\ m >= 3 /\ r.h = m
            /\ WA!SumOfSquares(WA!Deviations(xs, 1))[1] > 0
            /\ r.alpha = fit[1] /\ r.v = WA!Inv(fit[2]) /\ fit[2] /= WA!Zero
            /\ r.err = WA!Residuals(fit, WA!AmountsOf(kept), WA!TimesOf(kept))
<1> DEFINE q == SizeFor(kept)
           m == Len(kept) \div q
           xs == WA!Grouped(WA!AmountsOf(kept), q)
           ys == WA!Grouped(WA!TimesOf(kept), q)
<1>1. q \in Nat \ {0}
  <2> DEFINE inverses == [i \in DOMAIN kept |-> WA!Rat(kept[i][2], kept[i][1])]
             T == {s \in 1 .. Len(inverses) \div 3 : WA!Leq(WA!AbsRat(WA!AutoCoef(inverses, s)), Limit)}
  <2>1. q = -1 \/ (T /= {} /\ q = WA!Min(T))
    BY DEF SizeFor, WA!OptimalSubsession
  <2>2. q /= -1
    BY DEF Enough
  <2>3. T \in SUBSET (Nat \ {0})
    OBVIOUS
  <2> HIDE DEF T, q
  <2>4. T /= {} => WA!Min(T) \in T
    BY <2>3, Least DEF WA!Min
  <2> QED
    BY <2>1, <2>2, <2>3, <2>4
<1> HIDE DEF q
<1>2. xs \in Seq(Fraction) /\ ys \in Seq(Fraction) /\ Len(ys) = m /\ Len(xs) = m /\ m \in Nat
  <2>1. /\ WA!AmountsOf(kept) \in Seq(Fraction) /\ WA!TimesOf(kept) \in Seq(Fraction) /\ Len(kept) \in Nat
        /\ Len(WA!AmountsOf(kept)) = Len(kept) /\ Len(WA!TimesOf(kept)) = Len(kept)
    BY RoundsAre
  <2> QED
    BY <1>1, <2>1, MeansAre DEF WA!Grouped
<1>3. Fitted(kept) = WA!ModelOf(xs, ys, kept) /\ Fitted(kept).res /= "none"
  BY DEF Fitted, Enough, q
<1> HIDE DEF xs, ys, m
<1>4. m \in Nat \ {0} /\ m >= 3 /\ WA!SumOfSquares(WA!Deviations(xs, 1))[1] > 0
      /\ Fitted(kept) = WA!Model(WA!Regression(xs, ys), xs, ys, kept)
  <2>1. /\ ~(Len(xs) < 3) /\ ~(WA!SumOfSquares(WA!Deviations(xs, 1))[1] <= 0)
        /\ Fitted(kept) = WA!Model(WA!Regression(xs, ys), xs, ys, kept)
    BY <1>3 DEF WA!ModelOf
  <2>2. m >= 3 /\ Len(xs) > 0
    BY <1>2, <2>1
  <2>3. WA!SumOfSquares(WA!Deviations(xs, 1)) \in Fraction
    BY <1>2, <2>2, DeviationsAre, SquaresAre
  <2>4. WA!SumOfSquares(WA!Deviations(xs, 1))[1] \in Int
    BY <2>3 DEF Fraction
  <2> QED
    BY <1>2, <2>1, <2>2, <2>4
<1> DEFINE fit == WA!Regression(xs, ys)
           verdict == IF WA!Open(fit[2], WA!SlopeErrorSquared(fit, xs, ys)) THEN "no ci" ELSE "ok"
           v == WA!Inv(fit[2])
           err == WA!Residuals(fit, WA!AmountsOf(kept), WA!TimesOf(kept))
<1>5. WA!Model(fit, xs, ys, kept) =
        IF fit[2] = WA!Zero THEN [res |-> "none", h |-> Len(xs)]
        ELSE [res |-> verdict, h |-> Len(xs), alpha |-> fit[1], v |-> v, err |-> err]
  BY DEF WA!Model
<1>6. Fitted(kept) = WA!Model(fit, xs, ys, kept)
  BY <1>4
<1> HIDE DEF fit, verdict, v, err
<1>7. fit[2] /= WA!Zero
  BY <1>3, <1>5, <1>6
<1>8. Fitted(kept) = [res |-> verdict, h |-> Len(xs), alpha |-> fit[1], v |-> v, err |-> err]
  BY <1>5, <1>6, <1>7
<1>9. Fitted(kept).h = m /\ Fitted(kept).alpha = fit[1] /\ Fitted(kept).v = v /\ Fitted(kept).err = err
  BY <1>2, <1>8
<1> QED
  BY <1>1, <1>4, <1>7, <1>9 DEF q, m, xs, ys, fit, v, err

\* The line through the first round and another.
LineThrough(kept, i) ==
  LET slope == WA!Rat(kept[i][2] - kept[1][2], kept[i][1] - kept[1][1])
  IN <<WA!Sub(WA!Duration(kept[1]), WA!Mul(slope, WA!Amount(kept[1]))), slope>>
On(kept, line) ==
  \A i \in DOMAIN kept : WA!Duration(kept[i]) = WA!Add(line[1], WA!Mul(line[2], WA!Amount(kept[i])))

LEMMA LineIsOne ==
  ASSUME NEW a \in Int, NEW b \in Int, NEW P \in Int, NEW Q \in Int, Q /= 0,
         NEW slope \in Fraction, Is(slope, P, Q)
  PROVE  LET z == WA!Sub(WA!Duration(<<a, b>>), WA!Mul(slope, WA!Amount(<<a, b>>)))
         IN z \in Fraction /\ Coprime(z[1], z[2]) /\ Is(z, b * Q - P * a, Q)
<1> DEFINE x == WA!Whole(a)
           y == WA!Whole(b)
           p == WA!Mul(slope, x)
           z == WA!Sub(y, p)
<1>1. x \in Fraction /\ Is(x, a, 1) /\ y \in Fraction /\ Is(y, b, 1)
  BY WholeOf
<1>2. WA!Duration(<<a, b>>) = y /\ WA!Amount(<<a, b>>) = x
  BY DEF WA!Duration, WA!Amount
<1> HIDE DEF x, y
<1>3. p \in Fraction /\ Is(p, P * a, Q)
  <2>1. p \in Fraction /\ Is(p, P * a, Q * 1) /\ Q * 1 = Q
    BY <1>1, MulOf
  <2> HIDE DEF p
  <2> QED
    BY <2>1
<1> HIDE DEF p
<1>4. P * a \in Int
  OBVIOUS
<1>5. z \in Fraction /\ Is(z, b * Q - (P * a) * 1, 1 * Q) /\ 1 * Q = Q /\ (P * a) * 1 = P * a
  BY <1>1, <1>3, <1>4, AddOf
<1>6. Coprime(z[1], z[2])
  BY <1>1, <1>3, AddLowest
<1> HIDE DEF z
<1>7. z \in Fraction /\ Coprime(z[1], z[2]) /\ Is(z, b * Q - P * a, Q)
  BY <1>5, <1>6
<1> QED
  BY <1>2, <1>7 DEF z, p

\* A round on the line, in integers.
LEMMA RoundOnLine ==
  ASSUME NEW x \in Int, NEW y \in Int, NEW P \in Int, NEW Q \in Int, Q /= 0, NEW c \in Int,
         NEW slope \in Fraction, Is(slope, P, Q), NEW alpha \in Fraction, Is(alpha, c, Q),
         WA!Whole(y) = WA!Add(alpha, WA!Mul(slope, WA!Whole(x)))
  PROVE  Q * y - P * x = c
<1> DEFINE w == WA!Whole(x)
           p == WA!Mul(slope, w)
           z == WA!Add(alpha, p)
<1>1. w \in Fraction /\ Is(w, x, 1)
  BY WholeOf
<1> HIDE DEF w
<1>2. p \in Fraction /\ Is(p, P * x, Q)
  <2>1. p \in Fraction /\ Is(p, P * x, Q * 1) /\ Q * 1 = Q
    BY <1>1, MulOf
  <2> HIDE DEF p
  <2> QED
    BY <2>1
<1> HIDE DEF p
<1>3. P * x \in Int
  OBVIOUS
<1>4. Is(z, c * Q + (P * x) * Q, Q * Q)
  BY <1>2, <1>3, AddOf
<1>5. z = <<y, 1>>
  BY DEF WA!Whole, z, p, w
<1>6. y * (Q * Q) = (c * Q + (P * x) * Q) * 1
  <2> HIDE DEF z
  <2> QED
    BY <1>4, <1>5 DEF Is
<1>7. (Q * y) * Q = (c + P * x) * Q
  BY <1>6
<1>8. Q * y = c + P * x
  <2>1. Q * y \in Int /\ c + P * x \in Int
    OBVIOUS
  <2> QED
    BY <1>7, <2>1, Cancelled
<1> QED
  BY <1>8

LEMMA FittedIs ==
  ASSUME NEW kept \in Rounds, Enough(kept) PROVE Fitted(kept).alpha \in Fraction /\ Fitted(kept).v \in Fraction
<1> DEFINE q == SizeFor(kept)
           m == Len(kept) \div q
           fit == WA!Regression(WA!Grouped(WA!AmountsOf(kept), q), WA!Grouped(WA!TimesOf(kept), q))
<1>1. /\ q \in Nat \ {0} /\ m \in Nat \ {0}
      /\ WA!SumOfSquares(WA!Deviations(WA!Grouped(WA!AmountsOf(kept), q), 1))[1] > 0
      /\ Fitted(kept).alpha = fit[1] /\ Fitted(kept).v = WA!Inv(fit[2]) /\ fit[2] /= WA!Zero
  BY FittedParts
<1>2. fit[1] \in Fraction /\ fit[2] \in Fraction /\ Coprime(fit[2][1], fit[2][2])
  BY <1>1, GroupedFit
<1> HIDE DEF fit, q
<1>3. fit[2][1] /= 0
  <2> SUFFICES ASSUME fit[2][1] = 0 PROVE FALSE
    OBVIOUS
  <2> DEFINE slope == fit[2]
             zero == WA!Zero
  <2>1. slope[1] = 0 /\ zero[1] = 0 /\ slope[2] \in Int /\ zero[2] \in Int
    BY <1>2, ZeroIs DEF WA!Zero, WA!Whole, Fraction
  <2>2. Is(slope, 0, 1) /\ Is(zero, 0, 1)
    BY <2>1 DEF Is
  <2>3. slope = zero
    BY <1>2, <2>2, ZeroIs, SameNumber
  <2> QED
    BY <1>1, <2>3
<1> QED
  BY <1>1, <1>2, <1>3, InvIs

-----------------------------------------------------------------------------
(* The loop of regressions. *)

\* The rounds that are longer than a threshold, out of the first k at most.
AreLonger(limit, k, f) ==
  f = [n \in 0 .. k |-> IF n = 0 THEN <<>>
                         ELSE IF rounds[n][2] > limit THEN Append(f[n - 1], rounds[n]) ELSE f[n - 1]]

LEMMA LongerThere == ASSUME NEW limit, NEW n \in Nat PROVE \E f : AreLonger(limit, n, f)
<1> DEFINE missing == {k \in Nat : ~\E f : AreLonger(limit, k, f)}
           Kept(f, i) == IF rounds[i][2] > limit THEN Append(f[i - 1], rounds[i]) ELSE f[i - 1]
<1>1. SUFFICES ASSUME missing /= {} PROVE FALSE
  OBVIOUS
<1>2. PICK k \in missing : \A l \in missing : k <= l
  <2>1. missing \in SUBSET Nat
    OBVIOUS
  <2> HIDE DEF missing
  <2> QED
    BY <1>1, <2>1, Least
<1>3. k \in Nat /\ ~\E f : AreLonger(limit, k, f)
  OBVIOUS
<1>4. \A l \in Nat : l < k => \E f : AreLonger(limit, l, f)
  BY <1>2, <1>3
<1> HIDE DEF missing
<1>5. CASE k = 0
  <2> DEFINE f == [i \in 0 .. k |-> <<>>]
  <2>1. AreLonger(limit, k, f)
    BY <1>5 DEF AreLonger
  <2> QED
    BY <1>3, <2>1
<1>6. CASE k > 0
  <2>1. PICK f : AreLonger(limit, k - 1, f)
    BY <1>3, <1>4, <1>6
  <2> DEFINE g == [i \in 0 .. k |-> IF i = 0 THEN <<>> ELSE Kept(f, i)]
  <2>2. \A i \in 0 .. k - 1 : g[i] = f[i]
    <3>1. \A i \in 0 .. k - 1 : f[i] = IF i = 0 THEN <<>> ELSE Kept(f, i)
      BY <2>1, Zenon DEF AreLonger
    <3>2. \A i \in 0 .. k - 1 : i \in 0 .. k
      BY <1>3
    <3> HIDE DEF Kept
    <3> QED
      BY <3>1, <3>2
  <2>3. \A i \in 0 .. k : i /= 0 => g[i - 1] = f[i - 1]
    <3>1. \A i \in 0 .. k : i /= 0 => i - 1 \in 0 .. k - 1
      BY <1>3
    <3> HIDE DEF g
    <3> QED
      BY <2>2, <3>1
  <2>4. g = [i \in 0 .. k |-> IF i = 0 THEN <<>> ELSE Kept(g, i)]
    BY <2>3
  <2> HIDE DEF g
  <2>5. AreLonger(limit, k, g)
    BY <2>4 DEF AreLonger
  <2> QED
    BY <1>3, <2>5
<1> QED
  BY <1>3, <1>5, <1>6

LEMMA FilteredIs == ASSUME rounds \in Rounds, NEW limit PROVE AreLonger(limit, Len(rounds), WA!Filtered(limit))
<1>1. Len(rounds) \in Nat
  BY DEF Rounds
<1>2. \E f : AreLonger(limit, Len(rounds), f)
  BY <1>1, LongerThere
<1> QED
  BY <1>2, Zenon DEF AreLonger, WA!Filtered

LEMMA AppendedIs ==
  ASSUME NEW s \in Rounds, NEW r \in Nat \X Nat
  PROVE  Append(s, r) \in Rounds /\ Len(Append(s, r)) = Len(s) + 1 /\ Len(s) \in Nat
  BY DEF Rounds

\* A longer threshold leaves fewer rounds, or the same.
LEMMA LongerFewer ==
  ASSUME rounds \in Rounds, NEW l \in Int, NEW m \in Int, l <= m
  PROVE  /\ WA!Longer(l) \in Rounds /\ Len(WA!Longer(l)) <= Len(rounds)
         /\ WA!Longer(m) = WA!Longer(l) \/ Len(WA!Longer(m)) < Len(WA!Longer(l))
<1> DEFINE f == WA!Filtered(l)
           g == WA!Filtered(m)
           Right(i) == /\ f[i] \in Rounds /\ g[i] \in Rounds /\ Len(f[i]) <= i
                       /\ g[i] = f[i] \/ Len(g[i]) < Len(f[i])
           wrong == {i \in 0 .. Len(rounds) : ~Right(i)}
<1>1. \A i \in 0 .. Len(rounds) :
        /\ f[i] = IF i = 0 THEN <<>> ELSE IF rounds[i][2] > l THEN Append(f[i - 1], rounds[i]) ELSE f[i - 1]
        /\ g[i] = IF i = 0 THEN <<>> ELSE IF rounds[i][2] > m THEN Append(g[i - 1], rounds[i]) ELSE g[i - 1]
  BY FilteredIs DEF AreLonger
<1> HIDE DEF f, g
<1>2. ASSUME wrong /= {} PROVE FALSE
  <2>1. PICK i \in wrong : \A j \in wrong : i <= j
    <3>1. wrong \in SUBSET Nat
      OBVIOUS
    <3> HIDE DEF wrong
    <3> QED
      BY <1>2, <3>1, Least
  <2>2. i \in 0 .. Len(rounds) /\ ~Right(i)
    OBVIOUS
  <2>3. \A j \in 0 .. Len(rounds) : j < i => Right(j)
    BY <2>1, <2>2
  <2> HIDE DEF wrong
  <2>4. CASE i = 0
    <3>1. f[i] = <<>> /\ g[i] = <<>>
      BY <1>1, <2>2, <2>4
    <3> QED
      BY <2>2, <2>4, <3>1 DEF Rounds
  <2>5. CASE i /= 0
    <3>1. i - 1 \in 0 .. Len(rounds) /\ i - 1 < i /\ Len(rounds) \in Nat /\ i \in 1 .. Len(rounds)
      BY <2>2, <2>5 DEF Rounds
    <3>2. Right(i - 1)
      BY <2>3, <3>1
    <3>3. rounds[i] \in Nat \X Nat
      BY <3>1 DEF Rounds
    <3>4. CASE rounds[i][2] > m
      <4>1. rounds[i][2] > l /\ i /= 0 /\ i \in 0 .. Len(rounds)
        BY <2>2, <2>5, <3>3, <3>4
      <4>2. f[i] = Append(f[i - 1], rounds[i]) /\ g[i] = Append(g[i - 1], rounds[i])
        BY <1>1, <3>4, <4>1, Zenon
      <4>3. /\ f[i] \in Rounds /\ Len(f[i]) = Len(f[i - 1]) + 1 /\ Len(f[i - 1]) \in Nat
            /\ g[i] \in Rounds /\ Len(g[i]) = Len(g[i - 1]) + 1 /\ Len(g[i - 1]) \in Nat
        BY <3>2, <3>3, <4>2, AppendedIs
      <4> QED
        BY <2>2, <3>1, <3>2, <4>2, <4>3
    <3>5. CASE rounds[i][2] > l /\ ~(rounds[i][2] > m)
      <4>1. i /= 0 /\ i \in 0 .. Len(rounds)
        BY <2>2, <2>5
      <4>2. f[i] = Append(f[i - 1], rounds[i]) /\ g[i] = g[i - 1]
        BY <1>1, <3>5, <4>1, Zenon
      <4>3. /\ f[i] \in Rounds /\ Len(f[i]) = Len(f[i - 1]) + 1 /\ Len(f[i - 1]) \in Nat
            /\ g[i] \in Rounds /\ Len(g[i - 1]) \in Nat
        BY <3>2, <3>3, <4>2, AppendedIs
      <4> QED
        BY <2>2, <3>1, <3>2, <4>2, <4>3
    <3>6. CASE ~(rounds[i][2] > l)
      <4>1. f[i] = f[i - 1] /\ g[i] = g[i - 1]
        BY <1>1, <3>1, <3>3, <3>6
      <4> QED
        BY <2>2, <3>1, <3>2, <4>1 DEF Rounds
    <3> QED
      BY <3>4, <3>5, <3>6
  <2> QED
    BY <2>4, <2>5
<1>3. Right(Len(rounds))
  <2>1. Len(rounds) \in 0 .. Len(rounds)
    BY DEF Rounds
  <2> HIDE DEF Right
  <2> QED
    BY <1>2, <2>1
<1> QED
  BY <1>3 DEF WA!Longer, f, g

\* A regression that would not be the last.
Raises(kept, t) == Enough(kept) /\ Fitted(kept).alpha[1] < 0 /\ WA!FloorRat(WA!Neg(Fitted(kept).alpha)) > t

RoundsTyped ==
  /\ pattern \in Patterns /\ rounds \in Rounds /\ threshold \in Int /\ fits \in Nat
  /\ step \in {"idle", "changed", "switched", "fit"}

\* Each regression but the last leaves rounds out, or the next one is the last.
Ending ==
  step = "fit" =>
    /\ fits < Len(rounds)
    /\ fits + Len(WA!Longer(threshold)) <= Len(rounds) + 1
    /\ \/ fits + Len(WA!Longer(threshold)) <= Len(rounds)
       \/ ~Raises(WA!Longer(threshold), threshold)

LEMMA NextThresholdIs ==
  ASSUME rounds \in Rounds, threshold \in Int, Enough(WA!Longer(threshold))
  PROVE  LET alpha == WA!Regress(threshold).alpha
         IN \/ WA!NextThreshold(alpha) = threshold
            \/ /\ Raises(WA!Longer(threshold), threshold)
               /\ WA!NextThreshold(alpha) \in Int /\ WA!NextThreshold(alpha) > threshold
               /\ ~Raises(WA!Longer(threshold), WA!NextThreshold(alpha))
<1> DEFINE alpha == WA!Regress(threshold).alpha
           kept == WA!Longer(threshold)
<1>1. kept \in Rounds
  BY LongerFewer
<1>2. alpha = Fitted(kept).alpha
  BY RegressIs
<1>3. alpha \in Fraction
  BY <1>1, <1>2, FittedIs
<1>4. WA!FloorRat(WA!Neg(alpha)) \in Int
  BY <1>3, NegIs, FloorIs
<1> HIDE DEF alpha, kept
<1>5. CASE alpha[1] < 0 /\ WA!FloorRat(WA!Neg(alpha)) > threshold
  <2>1. WA!NextThreshold(alpha) = WA!FloorRat(WA!Neg(alpha))
    BY <1>5 DEF WA!NextThreshold
  <2> QED
    BY <1>2, <1>4, <1>5, <2>1 DEF Raises, kept, alpha
<1>6. CASE ~(alpha[1] < 0 /\ WA!FloorRat(WA!Neg(alpha)) > threshold)
  BY <1>6 DEF WA!NextThreshold, alpha
<1> QED
  BY <1>5, <1>6

LEMMA RoundsTypedAlways == WA!Spec => []RoundsTyped
<1>1. WA!Init => RoundsTyped
  BY RoundsAssumption DEF WA!Init, RoundsTyped, Rounds
<1>2. ASSUME RoundsTyped, [WA!Next]_WA!wpsVars PROVE RoundsTyped'
  <2>1. CASE WA!Round
    <3>1. PICK d \in Durations : rounds' = Append(rounds, <<pattern[Len(rounds) + 1], d>>)
      BY <2>1 DEF WA!Round
    <3>2. pattern \in Seq(Nat) /\ d \in Nat /\ Len(rounds) \in Nat /\ Len(rounds) < Len(pattern)
      BY <1>2, <2>1, RoundsAssumption DEF WA!Round, RoundsTyped, Rounds
    <3>3. <<pattern[Len(rounds) + 1], d>> \in Nat \X Nat
      BY <3>2
    <3>4. rounds' \in Rounds
      BY <1>2, <3>1, <3>3, AppendedIs DEF RoundsTyped
    <3> QED
      BY <1>2, <2>1, <3>4 DEF WA!Round, RoundsTyped
  <2>2. CASE WA!Toggle
    BY <1>2, <2>2 DEF WA!Toggle, RoundsTyped
  <2>3. CASE WA!Start
    BY <1>2, <2>3, RoundsAssumption DEF WA!Start, RoundsTyped
  <2>4. CASE WA!Fit
    <3>1. UNCHANGED <<pattern, rounds>> /\ fits' = fits + 1 /\ step' \in {"idle", "fit"}
      BY <1>2, <2>4 DEF WA!Fit
    <3>2. threshold' = threshold \/ (Enough(WA!Longer(threshold)) /\ threshold' = WA!NextThreshold(WA!Regress(threshold).alpha))
      BY <2>4, RegressIs DEF WA!Fit
    <3>3. threshold' \in Int
      BY <1>2, <3>2, NextThresholdIs DEF RoundsTyped
    <3> QED
      BY <1>2, <3>1, <3>3 DEF RoundsTyped
  <2>5. CASE UNCHANGED WA!wpsVars
    BY <1>2, <2>5 DEF WA!wpsVars, RoundsTyped
  <2> QED
    BY <1>2, <2>1, <2>2, <2>3, <2>4, <2>5 DEF WA!Next
<1> QED
  BY <1>1, <1>2, PTL DEF WA!Spec

LEMMA LongerTyped ==
  RoundsTyped => Len(WA!Longer(threshold)) <= Len(rounds) /\ Len(WA!Longer(threshold)) \in Nat
<1> SUFFICES ASSUME RoundsTyped PROVE Len(WA!Longer(threshold)) <= Len(rounds) /\ Len(WA!Longer(threshold)) \in Nat
  OBVIOUS
<1> DEFINE kept == WA!Longer(threshold)
<1>1. kept \in Rounds /\ Len(kept) <= Len(rounds)
  BY LongerFewer DEF RoundsTyped
<1> HIDE DEF kept
<1>2. Len(kept) \in Nat
  BY <1>1 DEF Rounds
<1> QED
  BY <1>1, <1>2 DEF kept

LEMMA EndingStep == ASSUME RoundsTyped, RoundsTyped', Ending, [WA!Next]_WA!wpsVars PROVE Ending'
<1>1. CASE WA!Round
  BY <1>1 DEF WA!Round, Ending
<1>2. CASE WA!Toggle
  BY <1>2 DEF WA!Toggle, Ending
<1>3. CASE WA!Start
  <2>1. SUFFICES ASSUME step' = "fit" PROVE Ending'
    BY DEF Ending
  <2>2. /\ Len(rounds) >= 3 /\ rounds' = rounds /\ fits' = 0
    BY <1>3, <2>1, RoundsAssumption DEF WA!Start, RoundsTyped, Rounds
  <2>3. Len(WA!Longer(threshold)') <= Len(rounds') /\ Len(WA!Longer(threshold)') \in Nat
    <3>1. (RoundsTyped => Len(WA!Longer(threshold)) <= Len(rounds) /\ Len(WA!Longer(threshold)) \in Nat)'
      BY LongerTyped, PTL
    <3> QED
      BY <3>1
  <2> QED
    BY <2>2, <2>3 DEF Ending, RoundsTyped, Rounds
<1>4. CASE WA!Fit
  <2>1. SUFFICES ASSUME step' = "fit" PROVE Ending'
    BY DEF Ending
  <2> DEFINE kept == WA!Longer(threshold)
             raised == WA!NextThreshold(WA!Regress(threshold).alpha)
             now == WA!Longer(raised)
  <2>2. /\ step = "fit" /\ rounds' = rounds /\ fits' = fits + 1 /\ threshold' = raised /\ raised /= threshold
        /\ Enough(kept)
    BY <1>4, <2>1, RegressIs DEF WA!Fit
  <2>3. rounds \in Rounds /\ threshold \in Int /\ fits \in Nat /\ Len(rounds) \in Nat
    BY DEF RoundsTyped, Rounds
  <2>4. Raises(kept, threshold) /\ raised \in Int /\ raised > threshold /\ ~Raises(kept, raised)
    BY <2>2, <2>3, NextThresholdIs
  <2>5. /\ kept \in Rounds /\ now \in Rounds /\ Len(kept) \in Nat /\ Len(now) \in Nat
        /\ now = kept \/ Len(now) < Len(kept)
    <3>1. now \in Rounds /\ kept \in Rounds /\ (now = kept \/ Len(now) < Len(kept))
      BY <2>3, <2>4, LongerFewer
    <3> HIDE DEF now, kept
    <3> QED
      BY <3>1 DEF Rounds
  <2>6. WA!Longer(threshold)' = now
    BY <2>2 DEF WA!Longer, WA!Filtered
  <2>7. fits + Len(kept) <= Len(rounds) /\ Len(kept) >= 3
    BY <2>2, <2>4 DEF Ending, Enough
  <2> HIDE DEF kept, raised, now
  <2>8. (fits + 1) + Len(now) <= Len(rounds) \/ (now = kept /\ (fits + 1) + Len(now) <= Len(rounds) + 1)
    BY <2>3, <2>5, <2>7
  <2>9. fits' < Len(rounds')
    BY <2>2, <2>3, <2>5, <2>7
  <2> QED
    BY <2>2, <2>3, <2>4, <2>5, <2>6, <2>8, <2>9 DEF Ending
<1>5. CASE UNCHANGED WA!wpsVars
  BY <1>5 DEF WA!wpsVars, Ending, WA!Longer, WA!Filtered
<1> QED
  BY <1>1, <1>2, <1>3, <1>4, <1>5 DEF WA!Next

\* The work-per-second analysis, which is done again with a longer threshold, ends after fewer regressions
\* than there are rounds, whatever their amounts and durations.
THEOREM AnalysisEnds == WA!Spec => []RegressionsEnd
<1>1. WA!Init => Ending
  BY DEF WA!Init, Ending
<1>2. Ending => RegressionsEnd
  BY DEF Ending, RegressionsEnd, WA!RegressionsBounded
<1> QED
  BY <1>1, <1>2, EndingStep, RoundsTypedAlways, PTL DEF WA!Spec

-----------------------------------------------------------------------------
(* What is reported of a model. *)

\* A regression that is not refused is of rounds with different amounts of work.
LEMMA AmountsDiffer ==
  ASSUME NEW kept \in Rounds, Enough(kept) PROVE \E i \in DOMAIN kept : kept[i][1] /= kept[1][1]
<1> SUFFICES ASSUME \A i \in DOMAIN kept : kept[i][1] = kept[1][1] PROVE FALSE
  OBVIOUS
<1> DEFINE q == SizeFor(kept)
           m == Len(kept) \div q
           n == Len(kept)
           c == -kept[1][1]
<1>1. /\ q \in Nat \ {0} /\ m \in Nat \ {0}
      /\ WA!SumOfSquares(WA!Deviations(WA!Grouped(WA!AmountsOf(kept), q), 1))[1] > 0
  BY FittedParts
<1>2. /\ n \in Nat /\ \A i \in 1 .. n : Works(kept)[i] = kept[i][1] /\ Works(kept)[i] \in Nat
      /\ \A i \in 1 .. n : Lasted(kept)[i] = kept[i][2] /\ Lasted(kept)[i] \in Nat
  BY RoundsAre
<1>3. 1 \in DOMAIN kept /\ DOMAIN kept = 1 .. n
  BY <1>2 DEF Enough, Rounds
<1>4. c \in Int
  BY <1>2, <1>3
<1>5. OnLine(Works(kept), Lasted(kept), n, 1, 0, c)
  <2> SUFFICES ASSUME NEW i \in 1 .. n PROVE 0 * Lasted(kept)[i] - 1 * Works(kept)[i] = c
    BY DEF OnLine
  <2>1. Works(kept)[i] = kept[1][1] /\ Works(kept)[i] \in Nat /\ Lasted(kept)[i] \in Nat
    BY <1>2, <1>3
  <2> QED
    BY <2>1
<1> HIDE DEF q, c
<1> DEFINE one == 1
           none == 0
<1>6. one \in Int /\ none \in Int /\ one /= 0 /\ none = 0
  OBVIOUS
<1>7. OnLine(Works(kept), Lasted(kept), Len(kept), one, none, c)
  BY <1>5
<1> HIDE DEF one, none
<1>8. none /= 0 \/ one = 0
  BY <1>1, <1>4, <1>6, <1>7, FitOnLine
<1> QED
  BY <1>6, <1>8

\* When the rounds lie on a line, the regression finds it.
LEMMA LineFound ==
  ASSUME NEW kept \in Rounds, Enough(kept), NEW i \in DOMAIN kept, kept[i][1] /= kept[1][1],
         On(kept, LineThrough(kept, i))
  PROVE  /\ Fitted(kept).alpha = LineThrough(kept, i)[1]
         /\ Fitted(kept).v = WA!Inv(LineThrough(kept, i)[2])
<1> DEFINE q == SizeFor(kept)
           m == Len(kept) \div q
           n == Len(kept)
           fit == WA!Regression(WA!Grouped(WA!AmountsOf(kept), q), WA!Grouped(WA!TimesOf(kept), q))
           P == kept[i][2] - kept[1][2]
           Q == kept[i][1] - kept[1][1]
           a == kept[1][1]
           b == kept[1][2]
           c == b * Q - P * a
           slope == WA!Rat(P, Q)
           line == LineThrough(kept, i)
<1>1. /\ q \in Nat \ {0} /\ m \in Nat \ {0}
      /\ WA!SumOfSquares(WA!Deviations(WA!Grouped(WA!AmountsOf(kept), q), 1))[1] > 0
      /\ Fitted(kept).alpha = fit[1] /\ Fitted(kept).v = WA!Inv(fit[2])
  BY FittedParts
<1>2. /\ n \in Nat /\ \A k \in 1 .. n : Works(kept)[k] = kept[k][1] /\ Works(kept)[k] \in Nat
      /\ \A k \in 1 .. n : Lasted(kept)[k] = kept[k][2] /\ Lasted(kept)[k] \in Nat
  BY RoundsAre
<1>3. 1 \in 1 .. n /\ DOMAIN kept = 1 .. n /\ i \in 1 .. n
  BY <1>2 DEF Enough, Rounds
<1>4. P \in Int /\ Q \in Int /\ Q /= 0 /\ a \in Int /\ b \in Int /\ kept[1] = <<a, b>>
  BY <1>2, <1>3 DEF Rounds
<1>5. line[1] = WA!Sub(WA!Duration(kept[1]), WA!Mul(slope, WA!Amount(kept[1]))) /\ line[2] = slope
  BY DEF LineThrough
<1>6. On(kept, line)
  OBVIOUS
<1> HIDE DEF q, fit, P, Q, a, b, line, n
<1>7. c \in Int
  BY <1>4
<1>8. slope \in Fraction /\ Is(slope, P, Q) /\ Coprime(slope[1], slope[2])
  BY <1>4, RatParts, RatValue
<1> HIDE DEF slope
<1>9. line[1] \in Fraction /\ Coprime(line[1][1], line[1][2]) /\ Is(line[1], c, Q)
  BY <1>4, <1>5, <1>8, LineIsOne
<1>10. OnLine(Works(kept), Lasted(kept), n, P, Q, c)
  <2> SUFFICES ASSUME NEW k \in 1 .. n PROVE Q * Lasted(kept)[k] - P * Works(kept)[k] = c
    BY DEF OnLine
  <2> DEFINE x == Works(kept)[k]
             y == Lasted(kept)[k]
  <2>1. x \in Int /\ y \in Int /\ x = kept[k][1] /\ y = kept[k][2]
    BY <1>2
  <2>2. WA!Duration(kept[k]) = WA!Add(line[1], WA!Mul(line[2], WA!Amount(kept[k])))
    BY <1>3, <1>6 DEF On
  <2>3. WA!Whole(y) = WA!Add(line[1], WA!Mul(line[2], WA!Whole(x)))
    BY <2>1, <2>2 DEF WA!Duration, WA!Amount
  <2> HIDE DEF x, y, c
  <2>4. Q * y - P * x = c
    BY <1>4, <1>5, <1>7, <1>8, <1>9, <2>1, <2>3, RoundOnLine
  <2> QED
    BY <2>4 DEF x, y
<1> HIDE DEF c
<1>11. /\ fit[1] \in Fraction /\ Coprime(fit[1][1], fit[1][2]) /\ Is(fit[1], c, Q)
       /\ fit[2] \in Fraction /\ Coprime(fit[2][1], fit[2][2]) /\ Is(fit[2], P, Q)
  BY <1>1, <1>4, <1>7, <1>10, FitOnLine DEF n, fit
<1>12. fit[1] = line[1]
  BY <1>4, <1>7, <1>9, <1>11, SameNumber
<1>13. fit[2] = slope
  BY <1>4, <1>8, <1>11, SameNumber
<1> QED
  BY <1>1, <1>5, <1>12, <1>13 DEF line

\* The rounds that are kept are longer than the threshold.
LEMMA LongerAre ==
  ASSUME rounds \in Rounds, NEW l \in Int
  PROVE  \A k \in DOMAIN WA!Longer(l) :
           WA!Longer(l)[k][2] > l /\ \E j \in 1 .. Len(rounds) : WA!Longer(l)[k] = rounds[j]
<1> DEFINE f == WA!Filtered(l)
           Right(s) == s \in Rounds /\ \A k \in 1 .. Len(s) : s[k][2] > l /\ \E j \in 1 .. Len(rounds) : s[k] = rounds[j]
           wrong == {i \in 0 .. Len(rounds) : ~Right(f[i])}
<1>1. \A i \in 0 .. Len(rounds) :
        f[i] = IF i = 0 THEN <<>> ELSE IF rounds[i][2] > l THEN Append(f[i - 1], rounds[i]) ELSE f[i - 1]
  BY FilteredIs DEF AreLonger
<1> HIDE DEF f
<1>2. ASSUME wrong /= {} PROVE FALSE
  <2>1. PICK i \in wrong : \A j \in wrong : i <= j
    <3>1. wrong \in SUBSET Nat
      OBVIOUS
    <3> HIDE DEF wrong
    <3> QED
      BY <1>2, <3>1, Least
  <2>2. i \in 0 .. Len(rounds) /\ ~Right(f[i])
    OBVIOUS
  <2>3. \A j \in 0 .. Len(rounds) : j < i => Right(f[j])
    BY <2>1, <2>2
  <2> HIDE DEF wrong
  <2>4. i /= 0
    <3>1. Right(<<>>)
      BY DEF Rounds
    <3>2. i = 0 => f[i] = <<>>
      BY <1>1, <2>2
    <3> HIDE DEF Right
    <3> QED
      BY <2>2, <3>1, <3>2
  <2>5. i - 1 \in 0 .. Len(rounds) /\ i - 1 < i /\ i \in 1 .. Len(rounds)
    BY <2>2, <2>4 DEF Rounds
  <2>6. rounds[i] \in Nat \X Nat
    BY <2>5 DEF Rounds
  <2> DEFINE s == f[i - 1]
             r == rounds[i]
  <2>7. Right(s)
    BY <2>3, <2>5
  <2>8. f[i] = IF r[2] > l THEN Append(s, r) ELSE s
    BY <1>1, <2>2, <2>4
  <2> HIDE DEF s, r
  <2>9. r[2] > l => Right(Append(s, r))
    <3> SUFFICES ASSUME r[2] > l PROVE Right(Append(s, r))
      OBVIOUS
    <3>1. Append(s, r) \in Rounds /\ Len(Append(s, r)) = Len(s) + 1 /\ Len(s) \in Nat
      BY <2>6, <2>7, AppendedIs DEF r
    <3>2. \A k \in 1 .. Len(s) + 1 : Append(s, r)[k] = IF k <= Len(s) THEN s[k] ELSE r
      BY <2>6, <2>7 DEF Rounds, r
    <3>3. \E j \in 1 .. Len(rounds) : r = rounds[j]
      BY <2>5 DEF r
    <3> QED
      BY <2>7, <3>1, <3>2, <3>3
  <2> HIDE DEF Right
  <2> QED
    BY <2>2, <2>7, <2>8, <2>9
<1>3. Right(f[Len(rounds)])
  <2>1. Len(rounds) \in 0 .. Len(rounds)
    BY DEF Rounds
  <2> HIDE DEF Right
  <2> QED
    BY <1>2, <2>1
<1> DEFINE kept == WA!Longer(l)
<1>4. Right(kept)
  BY <1>3 DEF WA!Longer, f
<1> HIDE DEF kept
<1>5. DOMAIN kept = 1 .. Len(kept)
  BY <1>4 DEF Rounds
<1> QED
  BY <1>4, <1>5 DEF kept

\* What is not shorter than the warm-up time, in whole units, is longer.
LEMMA WarmUpOver ==
  ASSUME NEW alpha \in Fraction, NEW t \in Nat, NEW d \in Int, d > t, ~(alpha[1] < 0 /\ WA!FloorRat(WA!Neg(alpha)) > t)
  PROVE  WA!Less(WA!Neg(alpha), WA!Whole(d))
<1> DEFINE a == alpha[1]
           b == alpha[2]
           x == WA!Neg(alpha)
           y == WA!Whole(d)
<1>1. a \in Int /\ b \in Nat \ {0} /\ x[1] = -a /\ x[2] = b /\ y[1] = d /\ y[2] = 1 /\ x \in Fraction /\ y \in Fraction
  BY NegIs, WholeIs DEF WA!Neg, WA!Whole, Fraction
<1>2. WA!FloorRat(x) = (-a) \div b
  BY DEF WA!FloorRat, WA!Neg
<1> HIDE DEF a, b, x, y
<1>3. ~(a < 0 /\ (-a) \div b > t)
  BY <1>2 DEF a, x
<1>4. -a < d * b
  <2>1. CASE a >= 0
    <3>1. d >= 1
      OBVIOUS
    <3>2. d * b >= 1
      BY <1>1, <3>1, SMT
    <3>3. d * b \in Int
      BY <1>1
    <3> QED
      BY <1>1, <2>1, <3>2, <3>3
  <2>2. CASE ~(a >= 0)
    <3> DEFINE f == (-a) \div b
    <3>1. f \in Int /\ -a < (f + 1) * b
      BY <1>1, SMT
    <3>2. f + 1 <= d
      BY <1>1, <1>3, <2>2, <3>1
    <3> HIDE DEF f
    <3>3. (f + 1) * b <= d * b
      BY <1>1, <3>1, <3>2, SMT
    <3>4. (f + 1) * b \in Int /\ d * b \in Int
      BY <1>1, <3>1
    <3> QED
      BY <1>1, <3>1, <3>3, <3>4
  <2> QED
    BY <1>1, <2>1, <2>2
<1>5. WA!Less(x, y) <=> x[1] * y[2] < y[1] * x[2]
  BY <1>1, LeqIs
<1> QED
  BY <1>1, <1>4, <1>5 DEF x, y

-----------------------------------------------------------------------------
(* The errors of the line and of the naive speed. *)

\* The sum of the squares of numbers that are made of two others, for the sums of their squares and products.
SquareSum(s, a, b, p, r, t) == s = a * (a * p + (2 * b) * r) + (b * b) * t

LEMMA SquaresOfMade ==
  ASSUME NEW n \in Nat, NEW A, NEW B, NEW R, Integers(A, n), Integers(B, n), NEW a \in Int, NEW b \in Int,
         Made(R, n, a, A, b, B)
  PROVE  /\ Integers(R, n)
         /\ SquareSum(SumTo(Multiplied(R, R, n), n), a, b, SumTo(Multiplied(A, A, n), n),
                      SumTo(Multiplied(A, B, n), n), SumTo(Multiplied(B, B, n), n))
<1> DEFINE AA == Multiplied(A, A, n)
           AB == Multiplied(A, B, n)
           BB == Multiplied(B, B, n)
           RR == Multiplied(R, R, n)
           c == 2 * b
           d == b * b
           C == [i \in 1 .. n |-> a * AA[i] + c * AB[i]]
<1>1. Integers(R, n)
  BY SumLinear
<1>2. ASSUME NEW i \in 1 .. n
      PROVE  /\ AA[i] = A[i] * A[i] /\ AB[i] = A[i] * B[i] /\ BB[i] = B[i] * B[i] /\ RR[i] = R[i] * R[i]
             /\ A[i] \in Int /\ B[i] \in Int /\ R[i] = a * A[i] + b * B[i]
  BY <1>2 DEF Multiplied, Integers, Made
<1>3. Integers(AA, n) /\ Integers(AB, n) /\ Integers(BB, n)
  BY <1>2 DEF Integers
<1>4. c \in Int /\ d \in Int
  OBVIOUS
<1>5. Made(C, n, a, AA, c, AB)
  BY DEF Made
<1>6. Made(RR, n, a, C, d, BB)
  <2> SUFFICES ASSUME NEW i \in 1 .. n PROVE RR[i] = a * C[i] + d * BB[i]
    BY DEF Made
  <2> DEFINE u == A[i]
             v == B[i]
  <2>1. /\ C[i] = a * (u * u) + c * (u * v) /\ BB[i] = v * v /\ u \in Int /\ v \in Int
        /\ RR[i] = (a * u + b * v) * (a * u + b * v)
    BY <1>2
  <2> HIDE DEF u, v, C, BB, RR
  <2>2. (a * u + b * v) * (a * u + b * v) = a * (a * (u * u) + (2 * b) * (u * v)) + (b * b) * (v * v)
    BY <2>1
  <2> QED
    BY <2>1, <2>2
<1> HIDE DEF AA, AB, BB, RR, C, c, d
<1>7. Integers(C, n) /\ SumTo(C, n) = a * SumTo(AA, n) + c * SumTo(AB, n)
  BY <1>3, <1>4, <1>5, SumLinear
<1>8. Integers(RR, n) /\ SumTo(RR, n) = a * SumTo(C, n) + d * SumTo(BB, n)
  BY <1>3, <1>4, <1>6, <1>7, SumLinear
<1>9. SumTo(RR, n) = a * (a * SumTo(AA, n) + c * SumTo(AB, n)) + d * SumTo(BB, n)
  BY <1>7, <1>8
<1> QED
  BY <1>1, <1>9 DEF SquareSum, AA, AB, BB, RR, c, d

\* No line through 0 leaves less than the line of least squares.
LEMMA LeastSquares ==
  ASSUME NEW xx \in Nat \ {0}, NEW xy \in Int, NEW yy \in Int, NEW T \in Int, NEW W \in Int, NEW n \in Nat \ {0},
         NEW e \in Int, SquareSum(e, xy, -xx, xx, xy, yy), NEW V \in Int, SquareSum(V, T, -W, xx, xy, yy),
         NEW u \in Int, NEW rest \in Nat, (n * n) * u = V + rest
  PROVE  e * (W * W) <= u * ((n * xx) * (n * xx))
<1> DEFINE d == xx * yy - xy * xy
           s == T * xx - W * xy
<1>1. d \in Int /\ s \in Int
  OBVIOUS
<1>2. e = xx * d
  BY DEF SquareSum
<1>3. xx * V = d * (W * W) + s * s
  <2>1. V = T * (T * xx) - (2 * (T * W)) * xy + (W * W) * yy
    BY DEF SquareSum
  <2>2. xx * (T * (T * xx) - (2 * (T * W)) * xy + (W * W) * yy) = d * (W * W) + s * s
    OBVIOUS
  <2> QED
    BY <2>1, <2>2
<1> HIDE DEF d, s
<1>4. u * ((n * xx) * (n * xx)) = xx * (xx * ((n * n) * u))
  OBVIOUS
<1>5. xx * (xx * ((n * n) * u)) = xx * (xx * V) + xx * (xx * rest)
  OBVIOUS
<1>6. xx * (xx * V) = e * (W * W) + xx * (s * s)
  BY <1>1, <1>2, <1>3
<1>7. xx * (xx * rest) >= 0 /\ xx * (s * s) >= 0
  <2>1. s * s \in Nat /\ xx * rest \in Nat
    BY <1>1, SMT
  <2> QED
    BY <2>1, ProductNotNegative
<1>8. /\ e * (W * W) \in Int /\ xx * (s * s) \in Int /\ xx * (xx * rest) \in Int
      /\ u * ((n * xx) * (n * xx)) = (e * (W * W) + xx * (s * s)) + xx * (xx * rest)
  BY <1>1, <1>4, <1>5, <1>6
<1> QED
  BY <1>7, <1>8

\* Rounds that are not taken together are themselves.
LEMMA SingleFit ==
  ASSUME NEW kept \in Rounds, NEW n \in Nat \ {0}, n = Len(kept),
         WA!SumOfSquares(WA!Deviations(WA!Grouped(WA!AmountsOf(kept), 1), 1))[1] > 0
  PROVE  LET fit == WA!Regression(WA!Grouped(WA!AmountsOf(kept), 1), WA!Grouped(WA!TimesOf(kept), 1))
             X == Works(kept)
             Y == Lasted(kept)
             xx == Spread(X, X, n)
             xy == Spread(X, Y, n)
         IN /\ xx \in Nat \ {0} /\ xy \in Int
            /\ fit[2] \in Fraction /\ Is(fit[2], xy, xx)
            /\ fit[1] \in Fraction /\ Is(fit[1], SumTo(Y, n) * xx - xy * SumTo(X, n), n * xx)
<1> DEFINE xs == WA!Grouped(WA!AmountsOf(kept), 1)
           ys == WA!Grouped(WA!TimesOf(kept), 1)
           u == WA!AmountsOf(kept)
           v == WA!TimesOf(kept)
           X == Works(kept)
           Y == Lasted(kept)
<1>1. /\ u \in Seq(Fraction) /\ Len(u) = n /\ v \in Seq(Fraction) /\ Len(v) = n
      /\ Stands(u, X, n, 1) /\ Stands(v, Y, n, 1) /\ Integers(X, n) /\ Integers(Y, n)
  BY RoundsAre
<1>2. 1 \in Nat \ {0} /\ n \in Nat /\ n = n \div 1 /\ 1 * 1 = 1 /\ 1 * n = n
  OBVIOUS
<1> HIDE DEF X, Y, u, v
<1>3. ASSUME NEW Z, Integers(Z, n), NEW i \in 1 .. n PROVE Groups(Z, 1, n)[i] = Z[i]
  <2> DEFINE g == Group(Z, 1, i)
             e == Z[i]
  <2>1. \A j \in 1 .. 1 : (i - 1) * 1 + j = i
    OBVIOUS
  <2>2. \A j \in 1 .. 1 : g[j] = e
    BY <2>1 DEF Group
  <2>3. e \in Int
    BY <1>3 DEF Integers
  <2>4. Groups(Z, 1, n)[i] = SumTo(g, 1)
    BY DEF Groups
  <2> HIDE DEF g, e
  <2>5. SumTo(g, 1) = 1 * e /\ 1 * e = e
    BY <1>2, <2>2, <2>3, SumOfSame
  <2> QED
    BY <2>4, <2>5 DEF e
<1>4. xs \in Seq(Fraction) /\ Len(xs) = n /\ \A i \in 1 .. n : X[i] \in Int /\ Is(xs[i], X[i], 1)
  <2>1. xs \in Seq(Fraction) /\ Len(xs) = n /\ Stands(xs, Groups(X, 1, n), n, 1 * 1)
    BY <1>1, <1>2, GroupsAre DEF WA!Grouped, u
  <2> QED
    BY <1>1, <1>2, <1>3, <2>1 DEF Stands
<1>5. ys \in Seq(Fraction) /\ Len(ys) = n /\ \A i \in 1 .. n : Y[i] \in Int /\ Is(ys[i], Y[i], 1)
  <2>1. ys \in Seq(Fraction) /\ Len(ys) = n /\ Stands(ys, Groups(Y, 1, n), n, 1 * 1)
    BY <1>1, <1>2, GroupsAre DEF WA!Grouped, v
  <2> QED
    BY <1>1, <1>2, <1>3, <2>1 DEF Stands
<1>6. WA!SumOfSquares(WA!Deviations(xs, 1))[1] > 0
  OBVIOUS
<1> HIDE DEF xs, ys
<1> DEFINE fit == WA!Regression(xs, ys)
           xx == Spread(X, X, n)
           xy == Spread(X, Y, n)
<1>7. /\ xx \in Nat \ {0} /\ xy \in Int
      /\ fit[2] \in Fraction /\ Is(fit[2], xy, xx)
      /\ fit[1] \in Fraction /\ Is(fit[1], SumTo(Y, n) * xx - xy * SumTo(X, n), (1 * n) * xx)
  BY <1>2, <1>4, <1>5, <1>6, RegressionIs
<1> HIDE DEF fit, xx, xy
<1> QED
  BY <1>2, <1>7 DEF fit, xx, xy, xs, ys, X, Y

\* What is left of a round is a difference of its distances from the means.
LEMMA ResidualIs ==
  ASSUME NEW n \in Nat \ {0}, NEW x \in Int, NEW y \in Int, NEW sx \in Int, NEW sy \in Int,
         NEW xx \in Nat \ {0}, NEW xy \in Int, NEW slope \in Fraction, Is(slope, xy, xx),
         NEW alpha \in Fraction, Is(alpha, sy * xx - xy * sx, n * xx)
  PROVE  LET r == WA!Square(WA!Sub(WA!Add(alpha, WA!Mul(slope, WA!Whole(x))), WA!Whole(y)))
             k == xy * (n * x - sx) + (-xx) * (n * y - sy)
             G == n * xx
         IN r \in Fraction /\ Is(r, k * k, G * G)
<1> DEFINE w == WA!Whole(x)
           z == WA!Whole(y)
           p == WA!Mul(slope, w)
           G == n * xx
           N == sy * xx - xy * sx
           k == xy * (n * x - sx) + (-xx) * (n * y - sy)
           at == WA!Add(alpha, p)
           l == WA!Sub(at, z)
<1>1. w \in Fraction /\ Is(w, x, 1) /\ z \in Fraction /\ Is(z, y, 1)
  BY WholeOf
<1>2. G \in Nat \ {0} /\ N \in Int /\ k \in Int
  BY ProductIs
<1> HIDE DEF w, z
<1>3. p \in Fraction /\ Is(p, xy * x, xx)
  <2>1. p \in Fraction /\ Is(p, xy * x, xx * 1) /\ xx * 1 = xx
    BY <1>1, MulOf
  <2> HIDE DEF p
  <2> QED
    BY <2>1
<1> HIDE DEF p
<1>4. xy * x \in Int /\ xx \in Int
  OBVIOUS
<1>5. at \in Fraction /\ Is(at, N * xx + (xy * x) * G, G * xx)
  BY <1>2, <1>3, <1>4, AddOf
<1> DEFINE M == N + (xy * x) * n
<1>6. at \in Fraction /\ Is(at, M, G)
  <2> DEFINE u == N * xx + (xy * x) * G
             v == G * xx
  <2>1. u * G = M * v
    OBVIOUS
  <2>2. u \in Int /\ v \in Int /\ v /= 0 /\ M \in Int /\ G \in Int
    BY <1>2, ProductIs
  <2>3. at \in Fraction /\ Is(at, u, v)
    BY <1>5
  <2> HIDE DEF u, v, M, G, at
  <2> QED
    BY <2>1, <2>2, <2>3, Through
<1> HIDE DEF at
<1>7. l \in Fraction /\ Is(l, k, G)
  <2>1. M \in Int /\ G \in Int
    BY <1>2
  <2>2. M - y * G = k
    OBVIOUS
  <2> HIDE DEF M, k
  <2>3. l \in Fraction /\ Is(l, M * 1 - y * G, G * 1) /\ M * 1 = M /\ G * 1 = G
    BY <1>1, <1>6, <2>1, AddOf
  <2> HIDE DEF l, G
  <2> QED
    BY <2>2, <2>3
<1> HIDE DEF l, k, G
<1>8. WA!Square(l) \in Fraction /\ Is(WA!Square(l), k * k, G * G)
  BY <1>2, <1>7, SquareOf
<1> QED
  BY <1>8 DEF l, at, p, w, z, k, G

\* What the combination of two leaves of each round.
Combined(a, A, b, B, n) == [i \in 1 .. n |-> a * A[i] + b * B[i]]

LEMMA CombinedIs ==
  ASSUME NEW n \in Nat, NEW A, NEW B, Integers(A, n), Integers(B, n), NEW a \in Int, NEW b \in Int
  PROVE  /\ Made(Combined(a, A, b, B, n), n, a, A, b, B)
         /\ Integers(Combined(a, A, b, B, n), n)
<1>1. Made(Combined(a, A, b, B, n), n, a, A, b, B)
  BY DEF Made, Combined
<1> QED
  BY <1>1, SumLinear

LEMMA ErrorsInOrder ==
  ASSUME NEW n \in Nat \ {0}, NEW X, NEW Y, Integers(X, n), Integers(Y, n), NEW T \in Int, NEW W \in Int,
         Spread(X, X, n) /= 0
  PROVE  LET xx == Spread(X, X, n)
             xy == Spread(X, Y, n)
             R == Combined(xy, Apart(X, n), -xx, Apart(Y, n), n)
             U == Combined(T, X, -W, Y, n)
         IN SumTo(Multiplied(R, R, n), n) * (W * W) <= SumTo(Multiplied(U, U, n), n) * ((n * xx) * (n * xx))
<1> DEFINE xx == Spread(X, X, n)
           xy == Spread(X, Y, n)
           yy == Spread(Y, Y, n)
           A == Apart(X, n)
           B == Apart(Y, n)
           sx == SumTo(X, n)
           sy == SumTo(Y, n)
           R == Combined(xy, A, -xx, B, n)
           U == Combined(T, X, -W, Y, n)
           V == Combined(T, A, -W, B, n)
           K == T * sx - W * sy
           ones == [i \in 1 .. n |-> 1]
           S == Combined(1, V, K, ones, n)
           rr == SumTo(Multiplied(R, R, n), n)
           uu == SumTo(Multiplied(U, U, n), n)
           vv == SumTo(Multiplied(V, V, n), n)
           ss == SumTo(Multiplied(S, S, n), n)
<1>0. n \in Nat /\ -W \in Int /\ 1 \in Int /\ 0 \in Int
  OBVIOUS
<1>1. /\ Integers(A, n) /\ Integers(B, n) /\ SumTo(A, n) = 0 /\ SumTo(B, n) = 0 /\ sx \in Int /\ sy \in Int
      /\ xx \in Nat \ {0} /\ xy \in Int /\ yy \in Int
  BY <1>0, ApartIs, SumIs, SpreadIs
<1>2. -xx \in Int /\ K \in Int
  BY <1>1
<1>3. /\ SumTo(Multiplied(A, A, n), n) = xx /\ SumTo(Multiplied(A, B, n), n) = xy /\ SumTo(Multiplied(B, B, n), n) = yy
  BY DEF Spread
<1>4. \A i \in 1 .. n : A[i] = n * X[i] - sx /\ B[i] = n * Y[i] - sy
  BY DEF Apart
<1> HIDE DEF xx, xy, yy, A, B, sx, sy
<1>5. Integers(R, n) /\ SquareSum(rr, xy, -xx, xx, xy, yy)
  <2>1. Made(R, n, xy, A, -xx, B)
    BY <1>0, <1>1, <1>2, CombinedIs
  <2> HIDE DEF R
  <2>2. Integers(R, n) /\ SquareSum(rr, xy, -xx, SumTo(Multiplied(A, A, n), n), SumTo(Multiplied(A, B, n), n),
                                    SumTo(Multiplied(B, B, n), n))
    BY <1>0, <1>1, <1>2, <2>1, SquaresOfMade
  <2> QED
    BY <1>3, <2>2
<1>6. /\ Integers(V, n) /\ SquareSum(vv, T, -W, xx, xy, yy) /\ SumTo(V, n) = 0 /\ Made(V, n, T, A, -W, B)
  <2>1. Made(V, n, T, A, -W, B)
    BY <1>0, <1>1, CombinedIs
  <2> HIDE DEF V
  <2>2. Integers(V, n) /\ SquareSum(vv, T, -W, SumTo(Multiplied(A, A, n), n), SumTo(Multiplied(A, B, n), n),
                                    SumTo(Multiplied(B, B, n), n))
    BY <1>0, <1>1, <2>1, SquaresOfMade
  <2>3. Integers(V, n) /\ SumTo(V, n) = T * SumTo(A, n) + (-W) * SumTo(B, n)
    BY <1>0, <1>1, <2>1, SumLinear
  <2>4. T * 0 + (-W) * 0 = 0
    OBVIOUS
  <2>5. SumTo(V, n) = 0
    BY <1>1, <2>3, <2>4
  <2> QED
    BY <1>3, <2>1, <2>2, <2>5
<1>7. Integers(U, n) /\ Made(U, n, T, X, -W, Y)
  BY <1>0, CombinedIs
<1> HIDE DEF R, U, V
<1>8. Integers(ones, n) /\ SumTo(Multiplied(ones, ones, n), n) = n
  <2> DEFINE k == Multiplied(ones, ones, n)
  <2>1. \A i \in 1 .. n : ones[i] = 1 /\ k[i] = 1
    BY DEF Multiplied
  <2> HIDE DEF ones, k
  <2>2. SumTo(k, n) = n * 1 /\ n * 1 = n
    BY <1>0, <2>1, SumOfSame
  <2> QED
    BY <2>1, <2>2 DEF Integers, k
<1>9. SumTo(Multiplied(V, ones, n), n) = 0
  <2> DEFINE k == Multiplied(V, ones, n)
  <2>1. Made(k, n, 1, V, 0, V)
    BY <1>6 DEF Made, Multiplied, Integers
  <2> HIDE DEF k
  <2>2. Integers(k, n) /\ SumTo(k, n) = 1 * SumTo(V, n) + 0 * SumTo(V, n)
    BY <1>0, <1>6, <2>1, SumLinear
  <2> QED
    BY <1>6, <2>2 DEF k
<1>10. Made(S, n, 1, V, K, ones)
  BY <1>0, <1>2, <1>6, <1>8, CombinedIs
<1>11. Made(S, n, n, U, 0, U)
  <2> SUFFICES ASSUME NEW i \in 1 .. n PROVE S[i] = n * U[i] + 0 * U[i]
    BY DEF Made
  <2> DEFINE x == X[i]
             y == Y[i]
  <2>1. /\ x \in Int /\ y \in Int /\ U[i] = T * x + (-W) * y /\ V[i] = T * A[i] + (-W) * B[i] /\ S[i] = 1 * V[i] + K * ones[i]
        /\ A[i] = n * x - sx /\ B[i] = n * y - sy /\ ones[i] = 1
    BY <1>4, <1>6, <1>7, <1>10 DEF Integers, Made
  <2> HIDE DEF x, y, ones, S
  <2>2. S[i] = 1 * (T * (n * x - sx) + (-W) * (n * y - sy)) + (T * sx - W * sy) * 1
    BY <2>1
  <2>3. U[i] = T * x + (-W) * y
    BY <2>1
  <2>4. 1 * (T * (n * x - sx) + (-W) * (n * y - sy)) + (T * sx - W * sy) * 1
          = n * (T * x + (-W) * y) + 0 * (T * x + (-W) * y)
    BY <1>1, <2>1
  <2> QED
    BY <2>2, <2>3, <2>4
<1> HIDE DEF S, K, ones
<1>12. Integers(S, n) /\ SquareSum(ss, 1, K, vv, 0, n)
  <2>1. Integers(S, n) /\ SquareSum(ss, 1, K, vv, SumTo(Multiplied(V, ones, n), n), SumTo(Multiplied(ones, ones, n), n))
    BY <1>0, <1>2, <1>6, <1>8, <1>10, SquaresOfMade
  <2> QED
    BY <1>8, <1>9, <2>1
<1>13. SquareSum(ss, n, 0, uu, uu, uu)
  <2>1. n \in Int /\ 0 \in Int
    OBVIOUS
  <2> QED
    BY <1>0, <1>7, <1>11, <2>1, SquaresOfMade
<1>14. uu \in Int /\ vv \in Int /\ rr \in Int
  <2>1. ASSUME NEW Z, Integers(Z, n) PROVE SumTo(Multiplied(Z, Z, n), n) \in Int
    <3>1. Integers(Multiplied(Z, Z, n), n)
      BY <2>1 DEF Integers, Multiplied
    <3> QED
      BY <1>0, <3>1, SumIs
  <2> QED
    BY <1>5, <1>6, <1>7, <2>1
<1> HIDE DEF uu, vv, rr, ss
<1> DEFINE rest == (K * K) * n
<1>15. (n * n) * uu = vv + rest
  <2>1. ss = n * (n * uu + (2 * 0) * uu) + (0 * 0) * uu
    BY <1>13 DEF SquareSum
  <2>2. ss = 1 * (1 * vv + (2 * K) * 0) + (K * K) * n
    BY <1>12 DEF SquareSum
  <2>3. n * (n * uu + (2 * 0) * uu) + (0 * 0) * uu = (n * n) * uu
    BY <1>14
  <2>4. 1 * (1 * vv + (2 * K) * 0) + (K * K) * n = vv + rest
    BY <1>2, <1>14
  <2> QED
    BY <2>1, <2>2, <2>3, <2>4
<1>16. rest \in Nat
  <2>1. K * K \in Nat
    BY <1>2, SMT
  <2> QED
    BY <1>0, <2>1, ProductNotNegative
<1> HIDE DEF rest
<1>17. rr * (W * W) <= uu * ((n * xx) * (n * xx))
  BY <1>1, <1>5, <1>6, <1>14, <1>15, <1>16, LeastSquares
<1> QED
  BY <1>17 DEF rr, uu, xx, xy, R, U, A, B

\* The sum of squares that stand for squares of integers.
LEMMA SquaredTotal ==
  ASSUME NEW n \in Nat, NEW f, f = [i \in 1 .. n |-> f[i]], NEW R, Integers(R, n), NEW G \in Nat \ {0},
         \A i \in 1 .. n : f[i] \in Fraction /\ Is(f[i], R[i] * R[i], G * G)
  PROVE  WA!Total(f) \in Fraction /\ Is(WA!Total(f), SumTo(Multiplied(R, R, n), n), G * G)
<1> DEFINE k == Multiplied(R, R, n)
           H == G * G
<1>1. H \in Nat \ {0}
  BY ProductIs
<1>2. \A i \in 1 .. n : k[i] = R[i] * R[i] /\ k[i] \in Int
  BY DEF Multiplied, Integers
<1> HIDE DEF k
<1>3. \A i \in 1 .. n : k[i] \in Int /\ Is(f[i], k[i], H)
  BY <1>2
<1> HIDE DEF H
<1>4. f \in Seq(Fraction) /\ Len(f) = n
  BY ListIs
<1>5. WA!Total(f) \in Fraction /\ Is(WA!Total(f), SumTo(k, n), H)
  BY <1>1, <1>3, <1>4, TotalIsSum
<1> QED
  BY <1>5 DEF k, H

LEMMA LeftOfLine ==
  ASSUME NEW kept \in Rounds, NEW n \in Nat \ {0}, n = Len(kept), NEW fit,
         NEW xx \in Nat \ {0}, NEW xy \in Int, fit[2] \in Fraction, Is(fit[2], xy, xx), fit[1] \in Fraction,
         Is(fit[1], SumTo(Lasted(kept), n) * xx - xy * SumTo(Works(kept), n), n * xx)
  PROVE  LET R == Combined(xy, Apart(Works(kept), n), -xx, Apart(Lasted(kept), n), n)
             e == WA!Residuals(fit, WA!AmountsOf(kept), WA!TimesOf(kept))
         IN e \in Fraction /\ Is(e, SumTo(Multiplied(R, R, n), n), (n * xx) * (n * xx))
<1> DEFINE X == Works(kept)
           Y == Lasted(kept)
           xs == WA!AmountsOf(kept)
           ys == WA!TimesOf(kept)
           alpha == fit[1]
           slope == fit[2]
           R == Combined(xy, Apart(X, n), -xx, Apart(Y, n), n)
           G == n * xx
           sx == SumTo(X, n)
           sy == SumTo(Y, n)
           left(i) == WA!Square(WA!Sub(WA!Add(alpha, WA!Mul(slope, xs[i])), ys[i]))
           f == [i \in 1 .. n |-> left(i)]
<1>1. /\ xs \in Seq(Fraction) /\ Len(xs) = n /\ Integers(X, n) /\ Integers(Y, n)
      /\ \A i \in 1 .. n : X[i] = kept[i][1] /\ xs[i] = WA!Whole(kept[i][1])
      /\ \A i \in 1 .. n : Y[i] = kept[i][2] /\ ys[i] = WA!Whole(kept[i][2])
  BY RoundsAre
<1>2. WA!Residuals(fit, xs, ys) = WA!Total(f)
  <2>1. DOMAIN xs = 1 .. n
    BY <1>1
  <2> HIDE DEF xs, ys
  <2> QED
    BY <2>1 DEF WA!Residuals
<1>3. Is(alpha, sy * xx - xy * sx, n * xx) /\ Is(slope, xy, xx) /\ alpha \in Fraction /\ slope \in Fraction
  OBVIOUS
<1> HIDE DEF X, Y, xs, ys, alpha, slope
<1>4. sx \in Int /\ sy \in Int /\ Integers(R, n) /\ G \in Nat \ {0}
  <2>1. n \in Nat /\ -xx \in Int
    OBVIOUS
  <2>2. Integers(Apart(X, n), n) /\ Integers(Apart(Y, n), n)
    BY <1>1, ApartIs
  <2> QED
    BY <1>1, <2>1, <2>2, SumIs, CombinedIs, ProductIs
<1>5. ASSUME NEW i \in 1 .. n PROVE left(i) \in Fraction /\ Is(left(i), R[i] * R[i], G * G)
  <2> DEFINE x == X[i]
             y == Y[i]
             k == xy * (n * x - sx) + (-xx) * (n * y - sy)
             r == WA!Square(WA!Sub(WA!Add(alpha, WA!Mul(slope, WA!Whole(x))), WA!Whole(y)))
  <2>1. x \in Int /\ y \in Int
    BY <1>1 DEF Integers
  <2>2. left(i) = r
    BY <1>1
  <2>3. R[i] = k
    BY DEF Combined, Apart
  <2> HIDE DEF x, y, sx, sy
  <2>4. r \in Fraction /\ Is(r, k * k, (n * xx) * (n * xx))
    <3> HIDE DEF r, k
    <3> QED
      BY <1>3, <1>4, <2>1, ResidualIs DEF r, k, sx, sy
  <2> HIDE DEF r, R, k, left
  <2> QED
    BY <2>2, <2>3, <2>4
<1>6. f = [i \in 1 .. n |-> f[i]] /\ \A i \in 1 .. n : f[i] = left(i)
  OBVIOUS
<1> HIDE DEF f, R, G, left
<1>7. WA!Total(f) \in Fraction /\ Is(WA!Total(f), SumTo(Multiplied(R, R, n), n), G * G)
  <2>1. n \in Nat /\ Integers(R, n) /\ G \in Nat \ {0} /\ f = [i \in 1 .. n |-> f[i]]
    BY <1>4, <1>6
  <2>2. \A i \in 1 .. n : f[i] \in Fraction /\ Is(f[i], R[i] * R[i], G * G)
    <3> HIDE DEF Is
    <3> SUFFICES ASSUME NEW i \in 1 .. n PROVE f[i] \in Fraction /\ Is(f[i], R[i] * R[i], G * G)
      OBVIOUS
    <3>1. left(i) \in Fraction /\ Is(left(i), R[i] * R[i], G * G)
      BY <1>5
    <3>2. f[i] = left(i)
      BY <1>6
    <3> QED
      BY <3>1, <3>2
  <2> QED
    BY <2>1, <2>2, SquaredTotal
<1> QED
  BY <1>2, <1>7 DEF R, G, X, Y, xs, ys

LEMMA LeftOfSpeed ==
  ASSUME NEW kept \in Rounds, NEW n \in Nat, n = Len(kept), NEW T \in Int, NEW W \in Nat \ {0},
         NEW speed \in Fraction, Is(speed, T, W)
  PROVE  LET U == Combined(T, Works(kept), -W, Lasted(kept), n)
             e == WA!Total([i \in DOMAIN kept |->
                              WA!Square(WA!Sub(WA!Mul(WA!Amount(kept[i]), speed), WA!Duration(kept[i])))])
         IN e \in Fraction /\ Is(e, SumTo(Multiplied(U, U, n), n), W * W)
<1> DEFINE X == Works(kept)
           Y == Lasted(kept)
           U == Combined(T, X, -W, Y, n)
           left(i) == WA!Square(WA!Sub(WA!Mul(WA!Amount(kept[i]), speed), WA!Duration(kept[i])))
           f == [i \in DOMAIN kept |-> left(i)]
<1>1. /\ Integers(X, n) /\ Integers(Y, n)
      /\ \A i \in 1 .. n : X[i] = kept[i][1] /\ Y[i] = kept[i][2]
  BY RoundsAre
<1> HIDE DEF X, Y
<1>2. Integers(U, n)
  <2>1. -W \in Int
    OBVIOUS
  <2> QED
    BY <1>1, <2>1, CombinedIs
<1>3. ASSUME NEW i \in 1 .. n PROVE left(i) \in Fraction /\ Is(left(i), U[i] * U[i], W * W)
  <2> DEFINE x == X[i]
             y == Y[i]
             w == WA!Whole(x)
             z == WA!Whole(y)
             p == WA!Mul(w, speed)
             l == WA!Sub(p, z)
             k == T * x + (-W) * y
  <2>1. x \in Int /\ y \in Int /\ k \in Int
    BY <1>1 DEF Integers
  <2>2. left(i) = WA!Square(l)
    BY <1>1 DEF WA!Amount, WA!Duration
  <2>3. U[i] = k
    BY DEF Combined
  <2> HIDE DEF x, y, U, left
  <2>4. w \in Fraction /\ Is(w, x, 1) /\ z \in Fraction /\ Is(z, y, 1)
    BY <2>1, WholeOf
  <2> HIDE DEF w, z
  <2>5. p \in Fraction /\ Is(p, x * T, W)
    <3>1. p \in Fraction /\ Is(p, x * T, 1 * W) /\ 1 * W = W
      BY <2>1, <2>4, MulOf
    <3> HIDE DEF p
    <3> QED
      BY <3>1
  <2> HIDE DEF p
  <2>6. l \in Fraction /\ Is(l, k, W)
    <3>1. x * T \in Int /\ W \in Int
      BY <2>1
    <3>2. l \in Fraction /\ Is(l, (x * T) * 1 - y * W, W * 1) /\ W * 1 = W
      BY <2>1, <2>4, <2>5, <3>1, AddOf
    <3>3. (x * T) * 1 - y * W = k
      BY <2>1
    <3> HIDE DEF l, k
    <3> QED
      BY <3>2, <3>3
  <2> HIDE DEF l, k
  <2>7. WA!Square(l) \in Fraction /\ Is(WA!Square(l), k * k, W * W)
    BY <2>1, <2>6, SquareOf
  <2> QED
    BY <2>2, <2>3, <2>7
<1>4. f = [i \in 1 .. n |-> f[i]] /\ \A i \in 1 .. n : f[i] = left(i)
  BY DEF Rounds
<1> HIDE DEF f, U, left
<1>5. WA!Total(f) \in Fraction /\ Is(WA!Total(f), SumTo(Multiplied(U, U, n), n), W * W)
  BY <1>2, <1>3, <1>4, SquaredTotal
<1> QED
  BY <1>5 DEF f, left, U, X, Y

\* The work of all rounds is not nothing when some of them are enough for a regression.
LEMMA WorkDone ==
  ASSUME rounds \in Rounds, NEW l \in Int, Enough(WA!Longer(l))
  PROVE  SumTo(Works(rounds), Len(rounds)) \in Nat \ {0}
<1> DEFINE kept == WA!Longer(l)
           n == Len(rounds)
           X == Works(rounds)
           W == SumTo(X, n)
<1>1. kept \in Rounds
  BY LongerFewer
<1>2. \A k \in DOMAIN kept : \E j \in 1 .. n : kept[k] = rounds[j]
  BY LongerAre
<1>3. n \in Nat /\ \A i \in 1 .. n : X[i] = rounds[i][1] /\ X[i] \in Nat
  BY RoundsAre
<1>4. 1 \in DOMAIN kept
  BY <1>1 DEF Rounds, Enough
<1> HIDE DEF kept
<1>5. PICK i \in DOMAIN kept : kept[i][1] /= kept[1][1]
  BY <1>1, AmountsDiffer DEF kept
<1>6. PICK a \in 1 .. n : kept[i] = rounds[a]
  BY <1>2
<1>7. PICK b \in 1 .. n : kept[1] = rounds[b]
  BY <1>2, <1>4
<1> HIDE DEF X, n
<1>8. X[a] /= X[b] /\ X[a] \in Nat /\ X[b] \in Nat
  BY <1>3, <1>5, <1>6, <1>7
<1>9. W \in Nat /\ X[a] <= W /\ X[b] <= W
  BY <1>3, SumNatural
<1> HIDE DEF W
<1>10. W \in Nat \ {0}
  BY <1>8, <1>9
<1> QED
  BY <1>10 DEF W, X, n

\* What the naive speed leaves.
LEMMA NaiveIs ==
  ASSUME rounds \in Rounds, NEW l \in Int, Enough(WA!Longer(l))
  PROVE  LET kept == WA!Longer(l)
             n == Len(kept)
             T == SumTo(Lasted(rounds), Len(rounds))
             W == SumTo(Works(rounds), Len(rounds))
             U == Combined(T, Works(kept), -W, Lasted(kept), n)
         IN /\ T \in Int /\ W \in Nat \ {0} /\ WA!NaiveError(l) \in Fraction
            /\ Is(WA!NaiveError(l), SumTo(Multiplied(U, U, n), n), W * W)
<1> DEFINE kept == WA!Longer(l)
           n == Len(kept)
           N == Len(rounds)
           X == Works(rounds)
           Y == Lasted(rounds)
           xs == WA!AmountsOf(rounds)
           ys == WA!TimesOf(rounds)
           T == SumTo(Y, N)
           W == SumTo(X, N)
           speed == WA!Div(WA!Total(ys), WA!Total(xs))
           left == [i \in DOMAIN kept |->
                      WA!Square(WA!Sub(WA!Mul(WA!Amount(kept[i]), speed), WA!Duration(kept[i])))]
           U == Combined(T, Works(kept), -W, Lasted(kept), n)
<1>1. kept \in Rounds /\ n \in Nat
  <2>1. kept \in Rounds
    BY LongerFewer
  <2> QED
    BY <2>1, RoundsAre
<1>2. WA!NaiveError(l) = WA!Total(left)
  BY DEF WA!NaiveError, WA!LeftAt, WA!TimePerWork
<1>3. W \in Nat \ {0}
  BY WorkDone
<1>4. /\ N \in Nat /\ xs \in Seq(Fraction) /\ Len(xs) = N /\ ys \in Seq(Fraction) /\ Len(ys) = N
      /\ Stands(xs, X, N, 1) /\ Stands(ys, Y, N, 1) /\ Integers(Y, N)
  BY RoundsAre
<1> HIDE DEF X, Y, xs, ys, N, kept
<1>5. T \in Int
  BY <1>4, SumIs
<1>6. WA!Total(ys) \in Fraction /\ Is(WA!Total(ys), T, 1) /\ WA!Total(xs) \in Fraction /\ Is(WA!Total(xs), W, 1)
  <2>1. 1 \in Nat \ {0}
    OBVIOUS
  <2>2. /\ \A i \in 1 .. N : Y[i] \in Int /\ Is(ys[i], Y[i], 1)
        /\ \A i \in 1 .. N : X[i] \in Int /\ Is(xs[i], X[i], 1)
    BY <1>4 DEF Stands
  <2> HIDE DEF Is
  <2> QED
    BY <1>4, <2>1, <2>2, TotalIsSum
<1> HIDE DEF T, W
<1>7. speed \in Fraction /\ Is(speed, T, W)
  <2>1. W /= 0 /\ 1 /= 0 /\ 1 \in Int /\ W \in Int
    BY <1>3
  <2>2. speed \in Fraction /\ Is(speed, T * 1, 1 * W)
    BY <1>5, <1>6, <2>1, DivOf
  <2>3. T * 1 = T /\ 1 * W = W
    BY <1>3, <1>5
  <2> HIDE DEF speed, Is
  <2> QED
    BY <2>2, <2>3
<1> HIDE DEF speed
<1>8. WA!Total(left) \in Fraction /\ Is(WA!Total(left), SumTo(Multiplied(U, U, n), n), W * W)
  BY <1>1, <1>3, <1>5, <1>7, LeftOfSpeed
<1> HIDE DEF left, U
<1> QED
  BY <1>2, <1>3, <1>5, <1>8 DEF U, T, W, X, Y, N, kept

\* Rounds that are not grouped: the regression leaves no more than the naive speed.
LEMMA ErrorsAre ==
  ASSUME rounds \in Rounds, NEW l \in Int, Enough(WA!Longer(l)), Fitted(WA!Longer(l)).h = Len(WA!Longer(l))
  PROVE  WA!Leq(Fitted(WA!Longer(l)).err, WA!NaiveError(l))
<1> DEFINE kept == WA!Longer(l)
           n == Len(kept)
           q == SizeFor(kept)
           xs == WA!AmountsOf(kept)
           ys == WA!TimesOf(kept)
           fit == WA!Regression(WA!Grouped(xs, 1), WA!Grouped(ys, 1))
           X == Works(kept)
           Y == Lasted(kept)
           xx == Spread(X, X, n)
           xy == Spread(X, Y, n)
           T == SumTo(Lasted(rounds), Len(rounds))
           W == SumTo(Works(rounds), Len(rounds))
           U == Combined(T, X, -W, Y, n)
           R == Combined(xy, Apart(X, n), -xx, Apart(Y, n), n)
           G == n * xx
           rr == SumTo(Multiplied(R, R, n), n)
           uu == SumTo(Multiplied(U, U, n), n)
           naive == WA!NaiveError(l)
           err == WA!Residuals(fit, xs, ys)
<1>1. kept \in Rounds
  BY LongerFewer
<1>2. n \in Nat /\ Integers(X, n) /\ Integers(Y, n)
  BY <1>1, RoundsAre
<1>3. /\ T \in Int /\ W \in Nat \ {0} /\ naive \in Fraction /\ Is(naive, uu, W * W)
  BY NaiveIs
<1> HIDE DEF T, W, naive
<1>4. q = 1 /\ n \in Nat \ {0}
  <2>1. q \in Nat \ {0} /\ n \div q >= 3 /\ n \div q = n
    BY <1>1, FittedParts
  <2> HIDE DEF q, kept
  <2>2. n >= 3
    BY <2>1
  <2>3. CASE q >= 2
    <3>1. n >= q * n
      BY <1>2, <2>1, Fills
    <3>2. q * n >= 2 * n
      <4>1. (q - 2) * n \in Nat
        BY <1>2, <2>1, <2>3, ProductNotNegative
      <4>2. q * n = (q - 2) * n + 2 * n
        BY <1>2, <2>1
      <4> QED
        BY <1>2, <4>1, <4>2
    <3>3. q * n \in Nat
      BY <1>2, <2>1, ProductNotNegative
    <3> QED
      BY <1>2, <2>2, <3>1, <3>2, <3>3
  <2> QED
    BY <1>2, <2>1, <2>2, <2>3
<1>5. Fitted(kept).err = err /\ WA!SumOfSquares(WA!Deviations(WA!Grouped(xs, 1), 1))[1] > 0
  BY <1>1, <1>4, FittedParts
<1> HIDE DEF q
<1>6. /\ xx \in Nat \ {0} /\ xy \in Int /\ fit[2] \in Fraction /\ Is(fit[2], xy, xx)
      /\ fit[1] \in Fraction /\ Is(fit[1], SumTo(Y, n) * xx - xy * SumTo(X, n), n * xx)
  BY <1>1, <1>4, <1>5, SingleFit
<1> HIDE DEF fit, kept
<1>7. err \in Fraction /\ Is(err, rr, G * G)
  <2> DEFINE sx == SumTo(X, n)
             sy == SumTo(Y, n)
  <2>1. n = Len(kept) /\ sx = SumTo(Works(kept), n) /\ sy = SumTo(Lasted(kept), n)
    OBVIOUS
  <2>2. Is(fit[1], sy * xx - xy * sx, n * xx)
    BY <1>6
  <2> HIDE DEF sx, sy, xx, xy, n, Is
  <2>3. Is(fit[1], SumTo(Lasted(kept), n) * xx - xy * SumTo(Works(kept), n), n * xx)
    BY <2>1, <2>2
  <2> QED
    BY <1>1, <1>4, <1>6, <2>1, <2>3, LeftOfLine
<1>8. rr * (W * W) <= uu * (G * G)
  <2>1. xx /= 0 /\ W \in Int
    BY <1>3, <1>6
  <2> QED
    BY <1>2, <1>3, <1>4, <2>1, ErrorsInOrder
<1>9. rr \in Int /\ uu \in Int
  <2> HIDE DEF xx, xy, X, Y, n
  <2>1. Integers(Apart(X, n), n) /\ Integers(Apart(Y, n), n) /\ -xx \in Int /\ -W \in Int
    <3>1. -xx \in Int /\ -W \in Int
      BY <1>3, <1>6
    <3> QED
      BY <1>2, <1>4, <3>1, ApartIs
  <2>2. Integers(R, n) /\ Integers(U, n)
    BY <1>2, <1>3, <1>6, <2>1, CombinedIs
  <2> HIDE DEF R, U
  <2>3. Integers(Multiplied(R, R, n), n) /\ Integers(Multiplied(U, U, n), n)
    BY <2>2 DEF Integers, Multiplied
  <2> QED
    BY <1>2, <2>3, SumIs
<1>10. G * G \in Nat \ {0} /\ W * W \in Nat \ {0}
  BY <1>3, <1>4, <1>6, ProductIs
<1> HIDE DEF rr, uu, G, err
<1>11. WA!Leq(err, naive)
  <2> DEFINE b == G * G
             d == W * W
  <2>1. rr * d <= uu * b /\ b \in Nat \ {0} /\ d \in Nat \ {0} /\ Is(err, rr, b) /\ Is(naive, uu, d)
    BY <1>3, <1>7, <1>8, <1>10
  <2> HIDE DEF b, d
  <2> QED
    BY <1>3, <1>7, <1>9, <2>1, OrderOf
<1> QED
  BY <1>5, <1>11 DEF naive, kept

\* The model of some rounds, when the analysis ends with the threshold t.
Reported(t) ==
  /\ t \in Nat /\ Enough(WA!Longer(t)) /\ wps.of = Len(rounds)
  /\ wps.h = Fitted(WA!Longer(t)).h /\ wps.v = Fitted(WA!Longer(t)).v /\ wps.err = Fitted(WA!Longer(t)).err
  /\ wps.alpha = Fitted(WA!Longer(t)).alpha /\ wps.v[1] > 0 /\ wps.naive = WA!NaiveError(t)
  /\ ~(wps.alpha[1] < 0 /\ WA!FloorRat(WA!Neg(wps.alpha)) > t)

LEMMA ReportedIsTrue == ASSUME rounds \in Rounds, Reported(threshold) PROVE ModelTrue
<1> DEFINE kept == WA!Longer(threshold)
           i == CHOOSE k \in DOMAIN kept : kept[k][1] /= kept[1][1]
           line == LineThrough(kept, i)
<1>1. kept \in Rounds /\ Enough(kept) /\ threshold \in Nat /\ threshold \in Int
  BY LongerFewer DEF Reported
<1>2. wps.of = Len(rounds) /\ wps.v[1] > 0 /\ wps.h >= 3
  BY <1>1, FittedParts DEF Reported
<1>3. wps.alpha \in Fraction
  BY <1>1, FittedIs DEF Reported
<1>4. ASSUME NEW k \in DOMAIN kept PROVE WA!Less(WA!Neg(wps.alpha), WA!Duration(kept[k]))
  <2>1. kept[k][2] > threshold
    BY <1>1, LongerAre
  <2>2. kept[k][2] \in Int
    BY <1>1 DEF Rounds
  <2> QED
    BY <1>1, <1>3, <2>1, <2>2, WarmUpOver DEF Reported, WA!Duration
<1>5. i \in DOMAIN kept /\ kept[i][1] /= kept[1][1]
  <2>1. \E k \in DOMAIN kept : kept[k][1] /= kept[1][1]
    BY <1>1, AmountsDiffer
  <2> QED
    BY <2>1
<1> HIDE DEF i
<1>6. On(kept, line) => wps.alpha = line[1] /\ wps.v = WA!Inv(line[2])
  BY <1>1, <1>5, LineFound DEF Reported
<1>7. WA!ModelHolds
  BY <1>2, <1>4, <1>6 DEF WA!ModelHolds, On, LineThrough, i
<1>8. WA!ErrorsComparable
  BY <1>1, ErrorsAre DEF WA!ErrorsComparable, Reported
<1> QED
  BY <1>7, <1>8 DEF ModelTrue

\* A model is reported only where the analysis ends with one, and then it is the regression of the rounds
\* longer than the last threshold.
Reporting ==
  /\ threshold \in Nat /\ "has" \in DOMAIN wps
  /\ wps.has /\ step = "idle" => Reported(threshold)

LEMMA ReportingStep == ASSUME RoundsTyped, Reporting, [WA!Next]_WA!wpsVars PROVE Reporting'
<1>1. CASE WA!Round
  BY <1>1 DEF WA!Round, Reporting
<1>2. CASE WA!Toggle
  BY <1>2 DEF WA!Toggle, Reporting
<1>3. CASE WA!Start
  BY <1>3, RoundsAssumption DEF WA!Start, Reporting
<1>4. CASE WA!Fit
  <2> DEFINE r == WA!Regress(threshold)
             kept == WA!Longer(threshold)
  <2>1. rounds \in Rounds /\ threshold \in Int
    BY DEF RoundsTyped
  <2>2. CASE r.res = "none" \/ r.v[1] <= 0
    BY <1>4, <2>2 DEF WA!Fit, WA!Failed, Reporting
  <2>3. CASE ~(r.res = "none" \/ r.v[1] <= 0) /\ WA!NextThreshold(r.alpha) /= threshold
    <3>1. threshold' = WA!NextThreshold(r.alpha) /\ step' = "fit" /\ DOMAIN wps' = DOMAIN wps
      BY <1>4, <2>3 DEF WA!Fit
    <3>2. Enough(kept)
      BY <2>3, RegressIs
    <3>3. threshold' \in Int /\ threshold' > threshold
      BY <2>1, <2>3, <3>1, <3>2, NextThresholdIs
    <3> QED
      BY <3>1, <3>3 DEF Reporting
  <2>4. CASE ~(r.res = "none" \/ r.v[1] <= 0) /\ WA!NextThreshold(r.alpha) = threshold
    <3>1. Enough(kept) /\ r = Fitted(kept)
      BY <2>4, RegressIs
    <3> DEFINE model == [has |-> TRUE, alpha |-> r.alpha, v |-> r.v, err |-> r.err, h |-> r.h, of |-> Len(rounds),
                         ci |-> IF r.res = "ok" THEN "width" ELSE "none", naive |-> WA!NaiveError(threshold)]
    <3>6. threshold' = threshold /\ rounds' = rounds /\ wps' = model
      BY <1>4, <2>4, Zenon DEF WA!Fit
    <3> HIDE DEF r
    <3>2. /\ "has" \in DOMAIN wps'
          /\ wps'.alpha = r.alpha /\ wps'.v = r.v /\ wps'.err = r.err /\ wps'.h = r.h /\ wps'.of = Len(rounds)
          /\ wps'.naive = WA!NaiveError(threshold)
      BY <3>6
    <3>3. WA!Longer(threshold)' = kept /\ WA!NaiveError(threshold)' = WA!NaiveError(threshold)
      <4>1. WA!Longer(threshold)' = kept
        BY <3>6, Zenon DEF WA!Longer, WA!Filtered
      <4> QED
        BY <3>6, <4>1, Zenon DEF WA!NaiveError, WA!TimePerWork
    <3>4. r.v[1] > 0
      <4>1. kept \in Rounds
        BY <2>1, LongerFewer
      <4> HIDE DEF kept
      <4>2. r.v \in Fraction
        BY <3>1, <4>1, FittedIs
      <4>3. ~(r.v[1] <= 0)
        BY <2>4
      <4> QED
        BY <4>2, <4>3 DEF Fraction
    <3>5. ~(r.alpha[1] < 0 /\ WA!FloorRat(WA!Neg(r.alpha)) > threshold)
      BY <2>1, <2>4 DEF WA!NextThreshold
    <3> QED
      BY <3>1, <3>2, <3>3, <3>4, <3>5, <3>6 DEF Reporting, Reported, Fitted, SizeFor
  <2> QED
    BY <2>2, <2>3, <2>4
<1>5. CASE UNCHANGED WA!wpsVars
  BY <1>5 DEF WA!wpsVars, Reporting, Reported, WA!NaiveError, WA!TimePerWork, WA!Longer, WA!Filtered
<1> QED
  BY <1>1, <1>2, <1>3, <1>4, <1>5 DEF WA!Next

\* A work-per-second model that is reported holds: it is of the rounds of now that are longer than the short
\* round threshold and than its warm-up time, at least three groups of them, with a positive speed. When these
\* rounds lie on a line it is this line, and when they are not grouped its error is at most the naive one.
THEOREM ModelsAreTrue == WA!Spec => []ModelTrue
<1>1. WA!Init => Reporting
  BY DEF WA!Init, WA!Blank, Reporting
<1>2. RoundsTyped /\ Reporting => ModelTrue
  <2>1. ASSUME wps.has, step = "idle", RoundsTyped, Reporting PROVE ModelTrue
    BY <2>1, ReportedIsTrue DEF Reporting, RoundsTyped
  <2> QED
    BY <2>1 DEF ModelTrue, WA!ModelHolds, WA!ErrorsComparable
<1> QED
  BY <1>1, <1>2, ReportingStep, RoundsTypedAlways, PTL DEF WA!Spec

-----------------------------------------------------------------------------
(* Sums of the two sides of a sequence. *)

Follows(g, f, h, l, r) == (\A i \in 1 .. l : f[i] = g[i]) /\ \A i \in 1 .. r : h[i] = g[l + i]

\* The sum of a sequence is that of its two sides.
LEMMA SumOfSides ==
  ASSUME NEW l \in Nat, NEW r \in Nat, NEW n \in Nat, NEW g, NEW f, NEW h, n = l + r, Integers(g, n), Follows(g, f, h, l, r)
  PROVE  Integers(f, l) /\ Integers(h, r) /\ SumTo(g, n) = SumTo(f, l) + SumTo(h, r)
<1> DEFINE F == Sums(f, l)
           H == Sums(h, r)
           G == Sums(g, n)
           wrongF == {i \in 0 .. l : ~(F[i] = G[i])}
           wrongH == {i \in 0 .. r : ~(G[l + i] = G[l] + H[i])}
<1>1. /\ Integers(f, l) /\ Integers(h, r)
      /\ \A i \in 1 .. l : i \in 1 .. n /\ f[i] = g[i]
      /\ \A i \in 1 .. r : l + i \in 1 .. n /\ h[i] = g[l + i]
  <2>1. /\ \A i \in 1 .. l : i \in 1 .. n /\ f[i] = g[i]
        /\ \A i \in 1 .. r : l + i \in 1 .. n /\ h[i] = g[l + i]
    BY DEF Follows
  <2> QED
    BY <2>1 DEF Integers
<1>2. /\ F[0] = 0 /\ \A i \in 1 .. l : F[i] = F[i - 1] + f[i]
      /\ H[0] = 0 /\ \A i \in 1 .. r : H[i] = H[i - 1] + h[i]
      /\ G[0] = 0 /\ \A i \in 1 .. n : G[i] = G[i - 1] + g[i]
      /\ \A i \in 0 .. n : G[i] \in Int
      /\ \A i \in 0 .. r : H[i] \in Int
      /\ \A i \in 1 .. n : g[i] \in Int
  BY <1>1, SumsGrow DEF Integers
<1> HIDE DEF F, G, H
<1>3. ASSUME wrongF /= {} PROVE FALSE
  <2>1. PICK i \in wrongF : \A j \in wrongF : i <= j
    <3>1. wrongF \in SUBSET Nat
      OBVIOUS
    <3> HIDE DEF wrongF
    <3> QED
      BY <1>3, <3>1, Least
  <2>2. i \in 0 .. l /\ ~(F[i] = G[i]) /\ i /= 0
    BY <1>2
  <2>3. i - 1 \in 0 .. l /\ i - 1 < i /\ i \in 1 .. l /\ i \in 1 .. n
    BY <2>2
  <2>4. F[i - 1] = G[i - 1]
    BY <2>1, <2>3
  <2> QED
    BY <1>1, <1>2, <2>2, <2>3, <2>4
<1>4. ASSUME wrongH /= {} PROVE FALSE
  <2>1. PICK i \in wrongH : \A j \in wrongH : i <= j
    <3>1. wrongH \in SUBSET Nat
      OBVIOUS
    <3> HIDE DEF wrongH
    <3> QED
      BY <1>4, <3>1, Least
  <2>2. i \in 0 .. r /\ ~(G[l + i] = G[l] + H[i])
    OBVIOUS
  <2>3. G[l] \in Int
    BY <1>2
  <2>4. i /= 0
    BY <1>2, <2>2, <2>3
  <2>5. i - 1 \in 0 .. r /\ i - 1 < i /\ i \in 1 .. r /\ l + i \in 1 .. n /\ l + i - 1 = l + (i - 1) /\ l + i \in 0 .. n
    BY <2>2, <2>4
  <2>6. G[l + (i - 1)] = G[l] + H[i - 1]
    BY <2>1, <2>5
  <2>7. /\ G[l + i] = G[l + (i - 1)] + g[l + i] /\ H[i] = H[i - 1] + h[i] /\ h[i] = g[l + i]
        /\ H[i - 1] \in Int /\ g[l + i] \in Int
    BY <1>1, <1>2, <2>5
  <2> QED
    BY <2>2, <2>3, <2>6, <2>7
<1>5. l \in 0 .. l /\ r \in 0 .. r
  OBVIOUS
<1>6. F[l] = G[l] /\ G[n] = G[l] + H[r]
  BY <1>3, <1>4, <1>5
<1> QED
  BY <1>1, <1>6 DEF SumTo, F, G, H

\* The squares of numbers, summed.
Squares(X, n) == SumTo(Multiplied(X, X, n), n)

LEMMA SquaresAreIntegers ==
  ASSUME NEW n \in Nat, NEW X, Integers(X, n) PROVE Integers(Multiplied(X, X, n), n) /\ Squares(X, n) \in Int
<1>1. Integers(Multiplied(X, X, n), n)
  BY DEF Integers, Multiplied
<1> QED
  BY <1>1, SumIs DEF Squares

\* So is the sum of the squares.
LEMMA SquaresOfSides ==
  ASSUME NEW l \in Nat, NEW r \in Nat, NEW n \in Nat, NEW g, NEW f, NEW h, n = l + r, Integers(g, n), Follows(g, f, h, l, r)
  PROVE  Squares(g, n) = Squares(f, l) + Squares(h, r)
<1>1. Follows(Multiplied(g, g, n), Multiplied(f, f, l), Multiplied(h, h, r), l, r)
  <2>1. \A i \in 1 .. l : i \in 1 .. n /\ f[i] = g[i]
    BY DEF Follows
  <2>2. \A i \in 1 .. r : l + i \in 1 .. n /\ h[i] = g[l + i]
    BY DEF Follows
  <2> QED
    BY <2>1, <2>2 DEF Follows, Multiplied
<1>2. Integers(Multiplied(g, g, n), n)
  BY SquaresAreIntegers
<1> HIDE DEF Follows
<1> QED
  BY <1>1, <1>2, SumOfSides DEF Squares

\* n times the squares about the mean, of n numbers with sum s and squares q.
AboutMean(n, q, s) == n * q - s * s

\* The squares about the mean, of all n values n times.
LEMMA SpreadOfOne ==
  ASSUME NEW n \in Nat \ {0}, NEW X, Integers(X, n)
  PROVE  /\ Spread(X, X, n) = n * AboutMean(n, Squares(X, n), SumTo(X, n))
         /\ AboutMean(n, Squares(X, n), SumTo(X, n)) \in Int /\ SumTo(X, n) \in Int
<1> DEFINE s == SumTo(X, n)
           q == Squares(X, n)
           c == -s
           one == [i \in 1 .. n |-> 1]
           k == Apart(X, n)
           xo == Multiplied(X, one, n)
           oo == Multiplied(one, one, n)
<1>1. s \in Int /\ q \in Int
  BY SumIs, SquaresAreIntegers
<1>2. Integers(one, n) /\ c \in Int
  BY <1>1 DEF Integers
<1>3. \A i \in 1 .. n : one[i] = 1 /\ oo[i] = 1 /\ xo[i] = 1 * X[i] + 0 * X[i]
  BY DEF Multiplied, Integers
<1>4. Made(k, n, n, X, c, one)
  <2>1. \A i \in 1 .. n : k[i] = n * X[i] - s /\ X[i] \in Int /\ one[i] = 1
    BY DEF Apart, Integers
  <2> HIDE DEF k, s, one
  <2>2. \A i \in 1 .. n : k[i] = n * X[i] + c * one[i]
    BY <1>1, <2>1
  <2> QED
    BY <2>2 DEF Made
<1>5. SumTo(oo, n) = n * 1
  <2>1. 1 \in Int /\ n \in Nat
    OBVIOUS
  <2> HIDE DEF oo
  <2> QED
    BY <1>3, <2>1, SumOfSame
<1>6. SumTo(xo, n) = s
  <2>1. 1 \in Int /\ 0 \in Int /\ n \in Nat /\ Made(xo, n, 1, X, 0, X)
    BY <1>3 DEF Made
  <2> HIDE DEF xo
  <2>2. SumTo(xo, n) = 1 * SumTo(X, n) + 0 * SumTo(X, n)
    BY <2>1, SumLinear
  <2> QED
    BY <1>1, <2>2 DEF s
<1> HIDE DEF k, one, c
<1>7. SquareSum(SumTo(Multiplied(k, k, n), n), n, c, q, SumTo(xo, n), SumTo(oo, n))
  <2>1. n \in Nat /\ n \in Int
    OBVIOUS
  <2> QED
    BY <1>2, <1>4, <2>1, SquaresOfMade DEF Squares
<1>8. SquareSum(Spread(X, X, n), n, c, q, s, n * 1)
  BY <1>5, <1>6, <1>7, Zenon DEF Spread, k
<1> HIDE DEF s, q
<1>9. n * (n * q + (2 * (-s)) * s) + ((-s) * (-s)) * (n * 1) = n * AboutMean(n, q, s)
  BY <1>1 DEF AboutMean
<1>10. AboutMean(n, q, s) \in Int
  BY <1>1 DEF AboutMean
<1> QED
  BY <1>1, <1>8, <1>9, <1>10 DEF SquareSum, c, s, q

-----------------------------------------------------------------------------
(* A sample of integers: its mean, and the squares about it. *)

\* The mean of integers is their sum over their number.
LEMMA MeanOfReadings ==
  ASSUME NEW X \in Seq(Int), X /= <<>>
  PROVE  SA!Mean(SA!Readings(X)) \in Fraction /\ Is(SA!Mean(SA!Readings(X)), SumTo(X, Len(X)), Len(X)) /\ Integers(X, Len(X))
<1> DEFINE n == Len(X)
           xs == SA!Readings(X)
<1>1. n \in Nat \ {0} /\ \A i \in 1 .. n : X[i] \in Int
  OBVIOUS
<1>2. xs \in Seq(Fraction) /\ Len(xs) = n /\ \A i \in 1 .. n : xs[i] = WA!Whole(X[i])
  BY ReadingsAre
<1>3. \A i \in 1 .. n : X[i] \in Int /\ Is(xs[i], X[i], 1)
  BY <1>1, <1>2, WholeOf
<1>4. 1 \in Nat \ {0} /\ 1 * n = n
  BY <1>1
<1> HIDE DEF n, xs
<1>5. WA!Mean(xs) \in Fraction /\ Is(WA!Mean(xs), SumTo(X, n), 1 * n)
  BY <1>1, <1>2, <1>3, <1>4, MeanIsShare
<1> QED
  BY <1>1, <1>4, <1>5, SameMeans DEF n, xs, Integers

\* The squares about it stand for n q - s^2, over n.
LEMMA SquaresOfReadings ==
  ASSUME NEW X \in Seq(Int), X /= <<>>
  PROVE  LET e == SA!SquaresAbout(SA!Readings(X))
         IN e \in Fraction /\ Is(e, AboutMean(Len(X), Squares(X, Len(X)), SumTo(X, Len(X))), Len(X))
<1> DEFINE n == Len(X)
           xs == SA!Readings(X)
           d == WA!Deviations(xs, 1)
           e == SA!SquaresAbout(xs)
           w == AboutMean(n, Squares(X, n), SumTo(X, n))
<1>1. n \in Nat \ {0} /\ \A i \in 1 .. n : X[i] \in Int
  OBVIOUS
<1>2. xs \in Seq(Fraction) /\ Len(xs) = n /\ \A i \in 1 .. n : xs[i] = WA!Whole(X[i])
  BY ReadingsAre
<1>3. \A i \in 1 .. n : X[i] \in Int /\ Is(xs[i], X[i], 1)
  BY <1>1, <1>2, WholeOf
<1>4. 1 \in Nat \ {0} /\ 1 * n = n
  BY <1>1
<1>5. e = WA!SumOfSquares(d)
  BY SameMeans, SameTotal, SameArithmetic DEF SA!SquaresAbout, WA!SumOfSquares
<1> HIDE DEF n, xs, d, e
<1>6. d \in Seq(Fraction) /\ Len(d) = n /\ \A i \in 1 .. n : Apart(X, n)[i] \in Int /\ Is(d[i], Apart(X, n)[i], 1 * n)
  BY <1>1, <1>2, <1>3, <1>4, DeviationIs DEF d
<1>7. e \in Fraction /\ Is(e, Spread(X, X, n), n * n)
  <2>1. n \in Nat /\ \A i \in 1 .. n : Apart(X, n)[i] \in Int /\ Is(d[i], Apart(X, n)[i], n)
    BY <1>1, <1>4, <1>6
  <2> QED
    BY <1>1, <1>5, <1>6, <2>1, SquaresSum DEF Spread
<1>8. Spread(X, X, n) = n * w /\ w \in Int
  BY <1>1, SpreadOfOne DEF Integers
<1> HIDE DEF w
<1>9. (n * w) * n = w * (n * n) /\ n * w \in Int /\ n * n \in Int /\ n * n /= 0
  BY <1>1, <1>8
<1>10. Is(e, w, n)
  BY <1>1, <1>7, <1>8, <1>9, Through
<1> QED
  BY <1>7, <1>10 DEF e, w, n, xs

-----------------------------------------------------------------------------
(* What is taken from the squares at a place, and what is left. *)

\* The distance of the means of both sides, times both numbers.
Across(s, l, t, r) == s * r - t * l

\* What best_split takes at a place.
LEMMA TakenIs ==
  ASSUME NEW X \in Seq(Int), NEW Y \in Seq(Int), X /= <<>>, Y /= <<>>
  PROVE  LET l == Len(X)
             r == Len(Y)
             e == Across(SumTo(X, l), l, SumTo(Y, r), r)
             z == SA!Taken(SA!Readings(X), SA!Readings(Y))
         IN z \in Fraction /\ Is(z, e * e, (l + r) * (l * r)) /\ e \in Int
<1> DEFINE l == Len(X)
           r == Len(Y)
           s == SumTo(X, l)
           t == SumTo(Y, r)
           mx == WA!Mean(SA!Readings(X))
           my == WA!Mean(SA!Readings(Y))
           e == Across(s, l, t, r)
           z == SA!Taken(SA!Readings(X), SA!Readings(Y))
           p == l * r
           n == l + r
           d == WA!Sub(mx, my)
           q == WA!Rat(p, n)
<1>1. l \in Nat \ {0} /\ r \in Nat \ {0}
  OBVIOUS
<1>2. /\ mx \in Fraction /\ Is(mx, s, l) /\ my \in Fraction /\ Is(my, t, r)
      /\ Integers(X, l) /\ Integers(Y, r)
  BY MeanOfReadings, SameMeans
<1>3. s \in Int /\ t \in Int
  BY <1>1, <1>2, SumIs
<1>4. Len(SA!Readings(X)) = l /\ Len(SA!Readings(Y)) = r
  BY ReadingsAre
<1>5. z = WA!Mul(q, WA!Square(d))
  BY <1>4, SameMeans, SameArithmetic, SameRat DEF SA!Taken
<1> HIDE DEF l, r, s, t, mx, my, z
<1>6. p \in Nat \ {0} /\ n \in Nat \ {0} /\ e \in Int
  BY <1>1, <1>3, ProductIs DEF Across
<1>7. d \in Fraction /\ Is(d, e, p)
  BY <1>1, <1>2, <1>3, AddOf DEF Across
<1>8. q \in Fraction /\ Is(q, p, n)
  BY <1>6, RatIs, RatValue
<1> HIDE DEF p, n, d, q, e
<1>9. WA!Square(d) \in Fraction /\ Is(WA!Square(d), e * e, p * p) /\ e * e \in Int /\ p * p \in Nat \ {0}
  BY <1>6, <1>7, SquareOf, ProductIs
<1>10. z \in Fraction /\ Is(z, p * (e * e), n * (p * p))
  BY <1>5, <1>6, <1>8, <1>9, MulOf
<1>11. (p * (e * e)) * (n * p) = (e * e) * (n * (p * p))
  <2> DEFINE v == e * e
  <2>1. v \in Int
    BY <1>9
  <2> HIDE DEF v
  <2>2. (p * v) * (n * p) = v * (n * (p * p))
    BY <1>6, <2>1
  <2> QED
    BY <2>2 DEF v
<1>12. p * (e * e) \in Int /\ n * (p * p) \in Nat \ {0} /\ n * p \in Nat \ {0}
  BY <1>6, <1>9, ProductIs
<1>13. Is(z, e * e, n * p)
  BY <1>9, <1>10, <1>11, <1>12, Through
<1> QED
  BY <1>6, <1>10, <1>13 DEF z, e, n, p, l, r, s, t

\* What both sides leave, times both numbers.
Leaves(l, q, s, r, u, t) == AboutMean(l, q, s) * r + AboutMean(r, u, t) * l

\* What is left at a place.
LEMMA LeavesIs ==
  ASSUME NEW X \in Seq(Int), NEW Y \in Seq(Int), X /= <<>>, Y /= <<>>
  PROVE  LET l == Len(X)
             r == Len(Y)
             w == Leaves(l, Squares(X, l), SumTo(X, l), r, Squares(Y, r), SumTo(Y, r))
             z == SA!Add(SA!SquaresAbout(SA!Readings(X)), SA!SquaresAbout(SA!Readings(Y)))
         IN z \in Fraction /\ Is(z, w, l * r) /\ w \in Int
<1> DEFINE l == Len(X)
           r == Len(Y)
           a == AboutMean(l, Squares(X, l), SumTo(X, l))
           b == AboutMean(r, Squares(Y, r), SumTo(Y, r))
           x == SA!SquaresAbout(SA!Readings(X))
           y == SA!SquaresAbout(SA!Readings(Y))
<1>1. l \in Nat \ {0} /\ r \in Nat \ {0}
  OBVIOUS
<1>2. x \in Fraction /\ Is(x, a, l) /\ y \in Fraction /\ Is(y, b, r)
  BY SquaresOfReadings
<1>3. Integers(X, l) /\ Integers(Y, r)
  BY MeanOfReadings
<1>4. a \in Int /\ b \in Int
  BY <1>1, <1>3, SpreadOfOne
<1> HIDE DEF l, r, a, b, x, y
<1>5. WA!Add(x, y) \in Fraction /\ Is(WA!Add(x, y), a * r + b * l, l * r) /\ a * r + b * l \in Int
  BY <1>1, <1>2, <1>4, AddOf
<1>6. SA!Add(x, y) = WA!Add(x, y)
  BY SameArithmetic
<1> QED
  BY <1>5, <1>6 DEF Leaves, l, r, a, b, x, y

Conserved(l, q, s, r, u, t) ==
  (l + r) * Leaves(l, q, s, r, u, t) + Across(s, l, t, r) * Across(s, l, t, r) = (l * r) * AboutMean(l + r, q + u, s + t)

\* What is taken is what is not left: both together are the squares about the mean of all.
LEMMA TakenAndLeft ==
  ASSUME NEW l \in Nat, NEW r \in Nat, NEW q \in Int, NEW u \in Int, NEW s \in Int, NEW t \in Int
  PROVE  Conserved(l, q, s, r, u, t)
  BY SMT DEF Conserved, Leaves, Across, AboutMean

Balanced(n, w, v, d, all) == n * w + v = d * all

\* The less is left, the more is taken.
LEMMA LessLeft ==
  ASSUME NEW n \in Nat \ {0}, NEW all \in Int, NEW w \in Int, NEW v \in Int, NEW d \in Nat \ {0},
         NEW x \in Int, NEW y \in Int, NEW e \in Nat \ {0}, Balanced(n, w, v, d, all), Balanced(n, x, y, e, all)
  PROVE  w * e <= x * d <=> y * (n * d) <= v * (n * e)
<1>1. n * (w * e) = (d * all) * e - v * e
  <2>1. n * w = d * all - v
    <3> DEFINE i == n * w
               j == d * all
    <3>1. i \in Int /\ j \in Int /\ i + v = j
      BY DEF Balanced
    <3> HIDE DEF i, j
    <3>2. i = j - v
      BY <3>1
    <3> QED
      BY <3>2 DEF i, j
  <2>2. n * (w * e) = (n * w) * e /\ d * all \in Int
    BY Regroup
  <2>3. (d * all - v) * e = (d * all) * e - v * e
    BY <2>2, Distributed
  <2> QED
    BY <2>1, <2>2, <2>3, Zenon
<1>2. n * (x * d) = (e * all) * d - y * d
  <2>1. n * x = e * all - y
    <3> DEFINE i == n * x
               j == e * all
    <3>1. i \in Int /\ j \in Int /\ i + y = j
      BY DEF Balanced
    <3> HIDE DEF i, j
    <3>2. i = j - y
      BY <3>1
    <3> QED
      BY <3>2 DEF i, j
  <2>2. n * (x * d) = (n * x) * d /\ e * all \in Int
    BY Regroup
  <2>3. (e * all - y) * d = (e * all) * d - y * d
    BY <2>2, Distributed
  <2> QED
    BY <2>1, <2>2, <2>3, Zenon
<1>3. (d * all) * e = (e * all) * d
  OBVIOUS
<1>4. \A i, j \in Int : i <= j <=> n * i <= n * j
  BY SMT
<1>5. w * e \in Int /\ x * d \in Int /\ v * e \in Int /\ y * d \in Int /\ (e * all) * d \in Int
  OBVIOUS
<1>6. w * e <= x * d <=> y * d <= v * e
  <2> DEFINE i == w * e
             j == x * d
             h == (e * all) * d
             a == v * e
             b == y * d
  <2>1. n * i = h - a /\ n * j = h - b /\ i \in Int /\ j \in Int /\ h \in Int /\ a \in Int /\ b \in Int
    BY <1>1, <1>2, <1>3, <1>5
  <2> HIDE DEF i, j, h, a, b
  <2>2. i <= j <=> h - a <= h - b
    BY <1>4, <2>1
  <2>3. i <= j <=> b <= a
    BY <2>1, <2>2
  <2> QED
    BY <2>3 DEF i, j, a, b
<1>7. y * (n * d) = n * (y * d) /\ v * (n * e) = n * (v * e)
  OBVIOUS
<1> QED
  BY <1>4, <1>5, <1>6, <1>7

-----------------------------------------------------------------------------
(* The place that is proposed. *)

\* What is taken and left at place k of X.
TakenAt(X, k) == SA!Taken(SA!Readings(SubSeq(X, 1, k)), SA!Readings(SubSeq(X, k + 1, Len(X))))
LeavesAt(X, k) == SA!Add(SA!SquaresAbout(SA!Readings(SubSeq(X, 1, k))), SA!SquaresAbout(SA!Readings(SubSeq(X, k + 1, Len(X)))))

\* A part of a sequence.
LEMMA PartOf ==
  ASSUME NEW S, NEW X \in Seq(S), NEW n \in Nat, n = Len(X), NEW a \in Nat, NEW q \in Nat \ {0}, a + q <= n
  PROVE  LET Y == SubSeq(X, a + 1, a + q)
         IN Y \in Seq(S) /\ Len(Y) = q /\ \A i \in 1 .. q : Y[i] = X[a + i] /\ a + i \in 1 .. n
<1> DEFINE b == a + q
<1>1. b \in 1 .. n /\ a + 1 \in 1 .. n /\ b - (a + 1) + 1 = q
  OBVIOUS
<1>2. \A i \in 1 .. q : a + i \in 1 .. n
  OBVIOUS
<1> HIDE DEF b
<1>3. SubSeq(X, a + 1, b) \in Seq(S) /\ Len(SubSeq(X, a + 1, b)) = q /\ \A i \in 1 .. q : SubSeq(X, a + 1, b)[i] = X[a + i]
  BY <1>1
<1> QED
  BY <1>2, <1>3 DEF b

\* The two sides of a place, and their readings.
LEMMA SidesAre ==
  ASSUME NEW X \in Seq(Int), NEW k \in 1 .. Len(X) - 1
  PROVE  LET L == SubSeq(X, 1, k)
             R == SubSeq(X, k + 1, Len(X))
         IN /\ L \in Seq(Int) /\ Len(L) = k /\ L /= <<>> /\ R \in Seq(Int) /\ Len(R) = Len(X) - k /\ R /= <<>>
            /\ Follows(X, L, R, k, Len(X) - k) /\ Integers(X, Len(X))
            /\ SubSeq(SA!Readings(X), 1, k) = SA!Readings(L)
            /\ SubSeq(SA!Readings(X), k + 1, Len(X)) = SA!Readings(R)
<1> DEFINE n == Len(X)
           L == SubSeq(X, 1, k)
           R == SubSeq(X, k + 1, n)
           r == n - k
           xs == SA!Readings(X)
<1>1. n \in Nat /\ k \in Nat \ {0} /\ k + 1 \in Nat /\ r \in Nat \ {0} /\ k < n /\ n - (k + 1) + 1 = r /\ k - 1 + 1 = k
  OBVIOUS
<1>0. 0 \in Nat /\ 0 + k = k /\ k + r = n /\ 0 + 1 = 1 /\ k <= n /\ \A i \in Nat : 0 + i = i
  <2>1. r = n - k
    OBVIOUS
  <2> HIDE DEF n, r
  <2> QED
    BY <1>1, <2>1
<1> HIDE DEF n, r
<1>2. L \in Seq(Int) /\ Len(L) = k /\ \A i \in 1 .. k : L[i] = X[i]
  <2> DEFINE Y == SubSeq(X, 0 + 1, 0 + k)
  <2>1. Y = L
    BY <1>0
  <2> HIDE DEF Y, L
  <2>2. Y \in Seq(Int) /\ Len(Y) = k /\ \A i \in 1 .. k : Y[i] = X[0 + i]
    BY <1>0, <1>1, PartOf DEF n, Y
  <2> QED
    BY <2>1, <2>2
<1>3. R \in Seq(Int) /\ Len(R) = r /\ \A i \in 1 .. r : R[i] = X[k + i]
  BY <1>0, <1>1, PartOf DEF n
<1>4. L /= <<>> /\ R /= <<>>
  BY <1>1, <1>2, <1>3
<1>5. Follows(X, L, R, k, r) /\ Integers(X, n)
  BY <1>2, <1>3 DEF Follows, Integers, n
<1>6. xs \in Seq(Fraction) /\ Len(xs) = n /\ \A i \in 1 .. n : xs[i] = WA!Whole(X[i])
  BY ReadingsAre DEF n
<1> HIDE DEF L, R, xs
<1>7. SA!Readings(L) \in Seq(Fraction) /\ Len(SA!Readings(L)) = k /\ \A i \in 1 .. k : SA!Readings(L)[i] = WA!Whole(L[i])
  BY <1>2, ReadingsAre
<1>8. SA!Readings(R) \in Seq(Fraction) /\ Len(SA!Readings(R)) = r /\ \A i \in 1 .. r : SA!Readings(R)[i] = WA!Whole(R[i])
  BY <1>3, ReadingsAre
<1>9. SubSeq(xs, 1, k) = SA!Readings(L)
  <2>1. SubSeq(xs, 1, k) \in Seq(Fraction) /\ Len(SubSeq(xs, 1, k)) = k /\ \A i \in 1 .. k : SubSeq(xs, 1, k)[i] = xs[i]
    <3> DEFINE Y == SubSeq(xs, 0 + 1, 0 + k)
    <3>1. Y = SubSeq(xs, 1, k)
      BY <1>0
    <3> HIDE DEF Y
    <3>2. Y \in Seq(Fraction) /\ Len(Y) = k /\ \A i \in 1 .. k : Y[i] = xs[0 + i]
      BY <1>0, <1>1, <1>6, PartOf DEF Y
    <3> QED
      BY <3>1, <3>2
  <2>2. \A i \in 1 .. k : SubSeq(xs, 1, k)[i] = SA!Readings(L)[i]
    <3> TAKE i \in 1 .. k
    <3>1. i \in 1 .. n
      BY <1>1
    <3> QED
      BY <1>2, <1>6, <1>7, <2>1, <3>1
  <2> QED
    BY <1>7, <2>1, <2>2
<1>10. SubSeq(xs, k + 1, n) = SA!Readings(R)
  <2> DEFINE h == SubSeq(xs, k + 1, n)
  <2>1. h \in Seq(Fraction) /\ Len(h) = r /\ \A i \in 1 .. r : h[i] = xs[k + i]
    <3>1. h = SubSeq(xs, k + 1, k + r)
      BY <1>0
    <3>2. \A i \in 1 .. r : SubSeq(xs, k + 1, k + r)[i] = xs[k + i]
      BY <1>0, <1>1, <1>6, PartOf
    <3> HIDE DEF h
    <3>3. SubSeq(xs, k + 1, k + r) \in Seq(Fraction) /\ Len(SubSeq(xs, k + 1, k + r)) = r
      BY <1>0, <1>1, <1>6, PartOf
    <3> QED
      BY <3>1, <3>2, <3>3, Zenon
  <2> HIDE DEF h
  <2>2. \A i \in 1 .. r : h[i] = SA!Readings(R)[i]
    <3> TAKE i \in 1 .. r
    <3>1. k + i \in 1 .. n
      BY <1>1
    <3> QED
      BY <1>3, <1>6, <1>8, <2>1, <3>1
  <2>3. h = SA!Readings(R)
    BY <1>8, <2>1, <2>2
  <2> QED
    BY <2>3 DEF h
<1> QED
  BY <1>2, <1>3, <1>4, <1>5, <1>9, <1>10 DEF L, R, xs, n, r

\* What is taken and what is left stand for numbers in balance.
LEMMA PlaceIs ==
  ASSUME NEW X \in Seq(Int), NEW k \in 1 .. Len(X) - 1
  PROVE  \E w, v \in Int :
           /\ LeavesAt(X, k) \in Fraction /\ Is(LeavesAt(X, k), w, k * (Len(X) - k))
           /\ TakenAt(X, k) \in Fraction /\ Is(TakenAt(X, k), v, Len(X) * (k * (Len(X) - k)))
           /\ Balanced(Len(X), w, v, k * (Len(X) - k), AboutMean(Len(X), Squares(X, Len(X)), SumTo(X, Len(X))))
<1> DEFINE n == Len(X)
           L == SubSeq(X, 1, k)
           R == SubSeq(X, k + 1, n)
           r == n - k
           q == Squares(L, k)
           u == Squares(R, r)
           s == SumTo(L, k)
           t == SumTo(R, r)
           w == Leaves(k, q, s, r, u, t)
           e == Across(s, k, t, r)
<1>1. n \in Nat /\ k \in Nat /\ r \in Nat /\ k + r = n /\ n = k + r
  OBVIOUS
<1>2. L \in Seq(Int) /\ Len(L) = k /\ L /= <<>> /\ R \in Seq(Int) /\ Len(R) = r /\ R /= <<>> /\ Follows(X, L, R, k, r) /\ Integers(X, n)
  BY SidesAre
<1> HIDE DEF n, L, R, r
<1>3. Integers(L, k) /\ Integers(R, r) /\ SumTo(X, n) = s + t /\ Squares(X, n) = q + u
  BY <1>1, <1>2, SumOfSides, SquaresOfSides
<1>4. q \in Int /\ u \in Int /\ s \in Int /\ t \in Int
  BY <1>1, <1>3, SumIs, SquaresAreIntegers
<1>5. LeavesAt(X, k) \in Fraction /\ Is(LeavesAt(X, k), w, k * r) /\ w \in Int
  BY <1>2, LeavesIs DEF LeavesAt, L, R, n
<1>6. TakenAt(X, k) \in Fraction /\ Is(TakenAt(X, k), e * e, (k + r) * (k * r)) /\ e \in Int
  BY <1>2, TakenIs DEF TakenAt, L, R, n
<1>7. (k + r) * w + e * e = (k * r) * AboutMean(k + r, q + u, s + t)
  <2> HIDE DEF w, e, q, u, s, t
  <2>1. Conserved(k, q, s, r, u, t)
    BY <1>1, <1>4, TakenAndLeft
  <2> QED
    BY <2>1, Zenon DEF Conserved, w, e
<1> HIDE DEF w, e, q, u, s, t
<1>8. Balanced(n, w, e * e, k * r, AboutMean(n, Squares(X, n), SumTo(X, n)))
  BY <1>1, <1>3, <1>7, Zenon DEF Balanced
<1>9. e * e \in Int /\ Is(TakenAt(X, k), e * e, n * (k * r))
  BY <1>1, <1>6
<1> QED
  BY <1>5, <1>6, <1>8, <1>9 DEF r, n

\* The less is left at a place, the more is taken there.
LEMMA OrderOfPlaces ==
  ASSUME NEW X \in Seq(Int), NEW i \in 1 .. Len(X) - 1, NEW j \in 1 .. Len(X) - 1
  PROVE  /\ SA!Leq(LeavesAt(X, i), LeavesAt(X, j)) <=> SA!Leq(TakenAt(X, j), TakenAt(X, i))
         /\ TakenAt(X, i) \in Fraction /\ LeavesAt(X, i) \in Fraction
<1> DEFINE n == Len(X)
           all == AboutMean(n, Squares(X, n), SumTo(X, n))
           d == i * (n - i)
           e == j * (n - j)
<1>1. n \in Nat \ {0} /\ i \in Nat \ {0} /\ j \in Nat \ {0} /\ n - i \in Nat \ {0} /\ n - j \in Nat \ {0} /\ n \in Nat
  OBVIOUS
<1>2. d \in Nat \ {0} /\ e \in Nat \ {0}
  BY <1>1, ProductIs
<1>3. Integers(X, n)
  BY DEF Integers
<1>4. all \in Int
  <2>1. Squares(X, n) \in Int /\ SumTo(X, n) \in Int
    BY <1>1, <1>3, SumIs, SquaresAreIntegers
  <2> QED
    BY <1>1, <2>1 DEF AboutMean
<1>5. PICK w, v \in Int : /\ LeavesAt(X, i) \in Fraction /\ Is(LeavesAt(X, i), w, d)
                          /\ TakenAt(X, i) \in Fraction /\ Is(TakenAt(X, i), v, n * d) /\ Balanced(n, w, v, d, all)
  BY PlaceIs
<1>6. PICK x, y \in Int : /\ LeavesAt(X, j) \in Fraction /\ Is(LeavesAt(X, j), x, e)
                          /\ TakenAt(X, j) \in Fraction /\ Is(TakenAt(X, j), y, n * e) /\ Balanced(n, x, y, e, all)
  BY PlaceIs
<1> HIDE DEF n, all, d, e
<1>7. n * d \in Nat \ {0} /\ n * e \in Nat \ {0}
  BY <1>1, <1>2, ProductIs
<1>8. WA!Leq(LeavesAt(X, i), LeavesAt(X, j)) <=> w * e <= x * d
  BY <1>2, <1>5, <1>6, OrderOf
<1>9. WA!Leq(TakenAt(X, j), TakenAt(X, i)) <=> y * (n * d) <= v * (n * e)
  BY <1>5, <1>6, <1>7, OrderOf
<1>10. w * e <= x * d <=> y * (n * d) <= v * (n * e)
  BY <1>1, <1>2, <1>4, <1>5, <1>6, LessLeft
<1> QED
  BY <1>5, <1>8, <1>9, <1>10, SameArithmetic

\* Fractions are in a linear order.
LEMMA OrderIsLinear ==
  /\ \A x, y \in Fraction : SA!Leq(x, y) \/ SA!Leq(y, x)
  /\ \A x, y, z \in Fraction : SA!Leq(x, y) /\ SA!Leq(y, z) => SA!Leq(x, z)
<1>1. \A x, y \in Fraction : SA!Leq(x, y) <=> x[1] * y[2] <= y[1] * x[2]
  BY LeqIs, SameArithmetic
<1>2. \A x \in Fraction : x[1] \in Int /\ x[2] \in Nat \ {0}
  BY ItselfIs
<1>3. ASSUME NEW x \in Fraction, NEW y \in Fraction PROVE SA!Leq(x, y) \/ SA!Leq(y, x)
  BY <1>1, <1>2
<1>4. ASSUME NEW x \in Fraction, NEW y \in Fraction, NEW z \in Fraction, SA!Leq(x, y), SA!Leq(y, z) PROVE SA!Leq(x, z)
  <2> DEFINE a == x[1]
             b == x[2]
             c == y[1]
             d == y[2]
             e == z[1]
             f == z[2]
  <2>1. a \in Int /\ c \in Int /\ e \in Int /\ b \in Nat \ {0} /\ d \in Nat \ {0} /\ f \in Nat \ {0}
    BY <1>2
  <2>2. a * d <= c * b /\ c * f <= e * d
    BY <1>1, <1>4
  <2> HIDE DEF a, b, c, d, e, f
  <2>3. \A p, q \in Int, k \in Nat \ {0} : p <= q <=> p * k <= q * k
    BY SMT
  <2>4. a * d \in Int /\ c * b \in Int /\ c * f \in Int /\ e * d \in Int /\ a * f \in Int /\ e * b \in Int
    BY <2>1
  <2>5. (a * d) * f <= (c * b) * f /\ (c * f) * b <= (e * d) * b
    BY <2>1, <2>2, <2>3, <2>4
  <2>6. (a * d) * f = (a * f) * d /\ (c * b) * f = (c * f) * b /\ (e * d) * b = (e * b) * d
    BY <2>1, Swapped
  <2>7. (a * d) * f \in Int /\ (c * b) * f \in Int /\ (e * d) * b \in Int
    BY <2>1
  <2>8. (a * f) * d <= (e * b) * d
    <3> DEFINE i == (a * d) * f
               j == (c * b) * f
               h == (e * d) * b
    <3>1. i <= j /\ j <= h /\ i \in Int /\ j \in Int /\ h \in Int
      BY <2>5, <2>6, <2>7
    <3> HIDE DEF i, j, h
    <3>2. i <= h
      BY <3>1
    <3> QED
      BY <2>6, <3>2 DEF i, h
  <2>9. a * f <= e * b
    BY <2>1, <2>3, <2>4, <2>8
  <2> QED
    BY <1>1, <2>9 DEF a, b, e, f
<1> QED
  BY <1>3, <1>4
=============================================================================
