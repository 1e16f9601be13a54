----------------------------- MODULE ChangeProofs -----------------------------
(* What is proved of what changepoints are found by, for any two samples: the
   p-value of the rank-sum test is what counting all samples of the size gives,
   exactly, and the place that is proposed is the first of least squares.

   The number of ways that k of m + k ranks have a sum is proved to be a
   coefficient of the Gaussian binomial, which rank_sum_exact_lower_tail
   multiplies out; what dealings of tied ranks there are is followed from their
   groups; Fisher's tables are split at the class; and the squares that a split
   takes and those that it leaves have a constant sum. *)
EXTENDS StatisticsProofs

-----------------------------------------------------------------------------
(* Sums over finite sets. *)

\* What cannot be a smallest set of a kind is of that kind for no set.
LEMMA SmallestSet ==
  ASSUME NEW S, IsFiniteSet(S), NEW W \in SUBSET SUBSET S, W /= {}
  PROVE  \E T \in W : IsFiniteSet(T) /\ \A x \in T : T \ {x} \notin W
<1> DEFINE N == {n \in Nat : \E T \in W : Cardinality(T) = n}
<1>1. \A T \in W : IsFiniteSet(T) /\ Cardinality(T) \in Nat
  BY FS_Subset, FS_CardinalityType
<1>2. N \in SUBSET Nat /\ N /= {}
  BY <1>1
<1>3. PICK n \in N : \A m \in N : n <= m
  <2> HIDE DEF N
  <2> QED
    BY <1>2, Least
<1>4. PICK T \in W : Cardinality(T) = n
  BY <1>3
<1>5. ASSUME NEW x \in T, T \ {x} \in W PROVE FALSE
  <2>1. Cardinality(T \ {x}) = n - 1
    BY <1>1, <1>4, FS_RemoveElement
  <2>2. n - 1 \in N
    BY <1>1, <1>4, <1>5, <2>1
  <2> QED
    BY <1>2, <1>3, <2>2
<1> QED
  BY <1>1, <1>4, <1>5

\* A sum over a finite set, one element at a time.
Chosen(s) == CHOOSE x \in s : TRUE
Folds(f, D, g) == g = [s \in D |-> IF s = {} THEN 0 ELSE f[Chosen(s)] + g[s \ {Chosen(s)}]]
Folded(f, S) == CHOOSE g : Folds(f, SUBSET S, g)
SumOver(f, S) == Folded(f, S)[S]

LEMMA OneOf == ASSUME NEW s, s /= {} PROVE Chosen(s) \in s
  BY DEF Chosen

\* There is such a sum for every finite set, and only one.
LEMMA FoldThere == ASSUME NEW f, NEW S, IsFiniteSet(S) PROVE \E g : Folds(f, SUBSET S, g)
<1> DEFINE D(n) == {s \in SUBSET S : Cardinality(s) <= n}
           Bad == {n \in Nat : ~\E g : Folds(f, D(n), g)}
<1>1. ASSUME NEW s \in SUBSET S PROVE IsFiniteSet(s) /\ Cardinality(s) \in Nat /\ Cardinality(s) <= Cardinality(S)
  BY FS_Subset, FS_CardinalityType
<1>2. ASSUME NEW s \in SUBSET S, s /= {}
      PROVE s \ {Chosen(s)} \in SUBSET S /\ Cardinality(s \ {Chosen(s)}) = Cardinality(s) - 1
  BY <1>1, <1>2, OneOf, FS_RemoveElement
<1>3. Bad = {}
  <2> SUFFICES ASSUME Bad /= {} PROVE FALSE
    OBVIOUS
  <2>1. PICK n \in Bad : \A m \in Bad : n <= m
    <3>1. Bad \in SUBSET Nat
      OBVIOUS
    <3> HIDE DEF Bad
    <3> QED
      BY <3>1, Least
  <2>2. CASE n = 0
    <3>1. \A s \in D(0) : s = {}
      <4> TAKE s \in D(0)
      <4>1. IsFiniteSet(s) /\ Cardinality(s) = 0
        BY <1>1
      <4> QED
        BY <4>1, FS_EmptySet
    <3> DEFINE g == [s \in D(0) |-> 0]
    <3>2. Folds(f, D(0), g)
      <4> HIDE DEF D
      <4> QED
        BY <3>1 DEF Folds
    <3> QED
      BY <2>1, <2>2, <3>2
  <2>3. CASE n /= 0
    <3>1. n - 1 \in Nat /\ n - 1 \notin Bad
      <4>1. n \in Nat
        OBVIOUS
      <4> HIDE DEF Bad
      <4> QED
        BY <2>1, <2>3, <4>1
    <3>2. PICK g : Folds(f, D(n - 1), g)
      BY <3>1
    <3> DEFINE h == [s \in D(n) |-> IF s = {} THEN 0 ELSE f[Chosen(s)] + g[s \ {Chosen(s)}]]
    <3>3. \A s \in D(n) : s /= {} => s \ {Chosen(s)} \in D(n - 1)
      BY <1>1, <1>2
    <3>4. \A s \in D(n - 1) : s \in D(n)
      BY <1>1, <3>1
    <3>5. \A s \in D(n - 1) : h[s] = g[s]
      <4> HIDE DEF D
      <4> QED
        BY <3>2, <3>4 DEF Folds
    <3>6. Folds(f, D(n), h)
      <4>1. \A s \in D(n) : h[s] = IF s = {} THEN 0 ELSE f[Chosen(s)] + h[s \ {Chosen(s)}]
        <5> HIDE DEF D
        <5> QED
          BY <3>3, <3>5
      <4> HIDE DEF D
      <4> QED
        BY <4>1 DEF Folds
    <3> HIDE DEF h
    <3> QED
      BY <2>1, <3>6
  <2> QED
    BY <2>2, <2>3
<1>4. D(Cardinality(S)) = SUBSET S
  BY <1>1
<1>5. Cardinality(S) \in Nat
  BY FS_CardinalityType
<1> QED
  BY <1>3, <1>4, <1>5

LEMMA FoldIs ==
  ASSUME NEW f, NEW S, IsFiniteSet(S), NEW T \in SUBSET S
  PROVE  Folded(f, S)[T] = IF T = {} THEN 0 ELSE f[Chosen(T)] + Folded(f, S)[T \ {Chosen(T)}]
<1>1. Folds(f, SUBSET S, Folded(f, S))
  BY FoldThere DEF Folded
<1> DEFINE G == Folded(f, S)
<1>2. Folds(f, SUBSET S, G)
  BY <1>1
<1> HIDE DEF G
<1>3. G[T] = IF T = {} THEN 0 ELSE f[Chosen(T)] + G[T \ {Chosen(T)}]
  BY <1>2 DEF Folds
<1> QED
  BY <1>3 DEF G

LEMMA FoldAgrees ==
  ASSUME NEW f, NEW S, IsFiniteSet(S), NEW T \in SUBSET S PROVE Folded(f, S)[T] = SumOver(f, T)
<1> DEFINE W == {U \in SUBSET T : Folded(f, S)[U] /= Folded(f, T)[U]}
<1>1. IsFiniteSet(T)
  BY FS_Subset
<1>2. SUFFICES W = {}
  BY DEF SumOver
<1> SUFFICES ASSUME W /= {} PROVE FALSE
  OBVIOUS
<1>3. PICK U \in W : \A x \in U : U \ {x} \notin W
  <2>1. W \in SUBSET SUBSET T
    OBVIOUS
  <2> HIDE DEF W
  <2> QED
    BY <1>1, <2>1, SmallestSet
<1>4. /\ Folded(f, S)[U] = IF U = {} THEN 0 ELSE f[Chosen(U)] + Folded(f, S)[U \ {Chosen(U)}]
      /\ Folded(f, T)[U] = IF U = {} THEN 0 ELSE f[Chosen(U)] + Folded(f, T)[U \ {Chosen(U)}]
  BY <1>1, FoldIs
<1>5. U /= {} => Folded(f, S)[U \ {Chosen(U)}] = Folded(f, T)[U \ {Chosen(U)}]
  BY <1>3, OneOf
<1> QED
  BY <1>3, <1>4, <1>5

\* Sums of integers.
LEMMA SumEmpty == ASSUME NEW f PROVE SumOver(f, {}) = 0
  BY FoldIs, FS_EmptySet DEF SumOver

LEMMA SumStep ==
  ASSUME NEW f, NEW S, IsFiniteSet(S), S /= {}
  PROVE  SumOver(f, S) = f[Chosen(S)] + SumOver(f, S \ {Chosen(S)})
  BY FoldIs, FoldAgrees DEF SumOver

IntegersOn(f, S) == \A x \in S : f[x] \in Int

LEMMA SumInt == ASSUME NEW f, NEW S, IsFiniteSet(S), IntegersOn(f, S) PROVE SumOver(f, S) \in Int
<1> DEFINE W == {U \in SUBSET S : SumOver(f, U) \notin Int}
<1> SUFFICES ASSUME W /= {} PROVE FALSE
  OBVIOUS
<1>1. PICK U \in W : IsFiniteSet(U) /\ \A x \in U : U \ {x} \notin W
  <2>1. W \in SUBSET SUBSET S
    OBVIOUS
  <2> HIDE DEF W
  <2> QED
    BY <2>1, SmallestSet
<1>2. CASE U = {}
  BY <1>1, <1>2, SumEmpty
<1>3. CASE U /= {}
  <2>1. Chosen(U) \in U /\ f[Chosen(U)] \in Int
    BY <1>3, OneOf DEF IntegersOn
  <2>2. SumOver(f, U \ {Chosen(U)}) \in Int
    BY <1>1, <2>1
  <2>3. SumOver(f, U) = f[Chosen(U)] + SumOver(f, U \ {Chosen(U)})
    BY <1>1, <1>3, SumStep
  <2> QED
    BY <1>1, <2>1, <2>2, <2>3
<1> QED
  BY <1>2, <1>3

\* Any element may be taken first.
LEMMA SumRemove ==
  ASSUME NEW f, NEW S, IsFiniteSet(S), IntegersOn(f, S), NEW x \in S
  PROVE  SumOver(f, S) = f[x] + SumOver(f, S \ {x})
<1> DEFINE W == {U \in SUBSET S : \E y \in U : SumOver(f, U) /= f[y] + SumOver(f, U \ {y})}
<1> SUFFICES ASSUME W /= {} PROVE FALSE
  OBVIOUS
<1>1. PICK U \in W : IsFiniteSet(U) /\ \A y \in U : U \ {y} \notin W
  <2>1. W \in SUBSET SUBSET S
    OBVIOUS
  <2> HIDE DEF W
  <2> QED
    BY <2>1, SmallestSet
<1>2. PICK y \in U : SumOver(f, U) /= f[y] + SumOver(f, U \ {y})
  BY <1>1
<1> DEFINE z == Chosen(U)
<1>3. z \in U /\ SumOver(f, U) = f[z] + SumOver(f, U \ {z})
  BY <1>1, OneOf, SumStep
<1> HIDE DEF z
<1>4. y /= z
  BY <1>2, <1>3
<1>5. SumOver(f, U \ {z}) = f[y] + SumOver(f, (U \ {z}) \ {y})
  BY <1>1, <1>3, <1>4
<1>6. SumOver(f, U \ {y}) = f[z] + SumOver(f, (U \ {y}) \ {z})
  BY <1>1, <1>3, <1>4
<1>7. SumOver(f, (U \ {z}) \ {y}) = SumOver(f, (U \ {y}) \ {z})
  <2>1. (U \ {z}) \ {y} = (U \ {y}) \ {z}
    OBVIOUS
  <2> QED
    BY <2>1, Zenon
<1>8. f[y] \in Int /\ f[z] \in Int /\ SumOver(f, (U \ {y}) \ {z}) \in Int
  <2>1. IsFiniteSet((U \ {y}) \ {z}) /\ IntegersOn(f, (U \ {y}) \ {z})
    BY <1>1, FS_RemoveElement DEF IntegersOn
  <2> QED
    BY <2>1, SumInt, <1>3 DEF IntegersOn
<1> QED
  BY <1>2, <1>3, <1>5, <1>6, <1>7, <1>8

\* One element more.
LEMMA SumAdd ==
  ASSUME NEW f, NEW S, IsFiniteSet(S), NEW x, x \notin S, IntegersOn(f, S \union {x})
  PROVE  SumOver(f, S \union {x}) = SumOver(f, S) + f[x]
<1>1. IsFiniteSet(S \union {x}) /\ (S \union {x}) \ {x} = S
  BY FS_AddElement
<1>2. SumOver(f, S \union {x}) = f[x] + SumOver(f, S)
  <2>1. SumOver(f, S \union {x}) = f[x] + SumOver(f, (S \union {x}) \ {x})
    BY <1>1, SumRemove
  <2> QED
    BY <1>1, <2>1, Zenon
<1>3. f[x] \in Int /\ SumOver(f, S) \in Int
  BY SumInt DEF IntegersOn
<1> QED
  BY <1>1, <1>2, <1>3

\* What holds of the empty set and of a set with one more element holds of a finite set.
Grows(W, S) == {} \in W /\ \A T \in SUBSET S : T \in W => \A x \in S : x \notin T => T \union {x} \in W

LEMMA SetInduction ==
  ASSUME NEW S, IsFiniteSet(S), NEW W, Grows(W, S) PROVE S \in W
<1> DEFINE Bad == {T \in SUBSET S : T \notin W}
<1> SUFFICES ASSUME Bad /= {} PROVE FALSE
  OBVIOUS
<1>1. PICK T \in Bad : \A x \in T : T \ {x} \notin Bad
  <2>1. Bad \in SUBSET SUBSET S
    OBVIOUS
  <2> HIDE DEF Bad
  <2> QED
    BY <2>1, SmallestSet
<1>2. T /= {}
  BY <1>1 DEF Grows
<1>3. PICK x \in T : T \ {x} \in W
  BY <1>1, <1>2
<1>4. (T \ {x}) \union {x} = T /\ T \ {x} \in SUBSET S /\ x \in S /\ x \notin T \ {x}
  OBVIOUS
<1>5. (T \ {x}) \union {x} \in W
  BY <1>3, <1>4 DEF Grows
<1> QED
  BY <1>1, <1>4, <1>5, Zenon

\* One more element, of a part of S.
LEMMA SumMore ==
  ASSUME NEW f, NEW S, IsFiniteSet(S), IntegersOn(f, S), NEW T \in SUBSET S, NEW x \in S, x \notin T
  PROVE  /\ SumOver(f, T \union {x}) = SumOver(f, T) + f[x]
         /\ SumOver(f, T) \in Int /\ f[x] \in Int /\ SumOver(f, T \union {x}) \in Int
<1>1. IsFiniteSet(T) /\ IsFiniteSet(T \union {x}) /\ IntegersOn(f, T) /\ IntegersOn(f, T \union {x})
  BY FS_Subset, FS_AddElement DEF IntegersOn
<1>2. SumOver(f, T \union {x}) = SumOver(f, T) + f[x]
  BY <1>1, SumAdd
<1> QED
  BY <1>1, <1>2, SumInt DEF IntegersOn

\* Sums of what is the same, of what is less, and of one number.
LEMMA SumSame ==
  ASSUME NEW f, NEW g, NEW S, IsFiniteSet(S), IntegersOn(f, S), \A x \in S : f[x] = g[x]
  PROVE  SumOver(f, S) = SumOver(g, S)
<1> DEFINE W == {T \in SUBSET S : SumOver(f, T) = SumOver(g, T)}
<1>1. IntegersOn(g, S)
  BY DEF IntegersOn
<1>2. Grows(W, S)
  <2>1. {} \in W
    BY SumEmpty
  <2>2. ASSUME NEW T \in SUBSET S, T \in W, NEW x \in S, x \notin T PROVE T \union {x} \in W
    <3>1. SumOver(f, T \union {x}) = SumOver(f, T) + f[x]
      BY <2>2, SumMore
    <3>2. SumOver(g, T \union {x}) = SumOver(g, T) + g[x]
      BY <1>1, <2>2, SumMore
    <3> QED
      BY <2>2, <3>1, <3>2
  <2> HIDE DEF W
  <2> QED
    BY <2>1, <2>2 DEF Grows
<1>3. S \in W
  <2> HIDE DEF W
  <2> QED
    BY <1>2, SetInduction
<1> QED
  BY <1>3

LEMMA SumOrder ==
  ASSUME NEW f, NEW g, NEW S, IsFiniteSet(S), IntegersOn(f, S), IntegersOn(g, S), \A x \in S : f[x] <= g[x]
  PROVE  SumOver(f, S) <= SumOver(g, S)
<1> DEFINE W == {T \in SUBSET S : SumOver(f, T) <= SumOver(g, T)}
<1>2. Grows(W, S)
  <2>1. {} \in W
    BY SumEmpty
  <2>2. ASSUME NEW T \in SUBSET S, T \in W, NEW x \in S, x \notin T PROVE T \union {x} \in W
    <3>1. SumOver(f, T \union {x}) = SumOver(f, T) + f[x] /\ SumOver(f, T) \in Int /\ f[x] \in Int
      BY <2>2, SumMore
    <3>2. SumOver(g, T \union {x}) = SumOver(g, T) + g[x] /\ SumOver(g, T) \in Int /\ g[x] \in Int
      BY <2>2, SumMore
    <3>3. f[x] <= g[x] /\ SumOver(f, T) <= SumOver(g, T)
      BY <2>2
    <3>4. SumOver(f, T \union {x}) <= SumOver(g, T \union {x})
      <4> DEFINE p == SumOver(f, T)
                 q == SumOver(g, T)
      <4> HIDE DEF p, q
      <4>1. p + f[x] <= q + g[x]
        BY <3>1, <3>2, <3>3 DEF p, q
      <4> QED
        BY <3>1, <3>2, <4>1 DEF p, q
    <3> QED
      BY <3>4
  <2> HIDE DEF W
  <2> QED
    BY <2>1, <2>2 DEF Grows
<1>3. S \in W
  <2> HIDE DEF W
  <2> QED
    BY <1>2, SetInduction
<1> QED
  BY <1>3

LEMMA SumOfEqual ==
  ASSUME NEW f, NEW S, IsFiniteSet(S), NEW c \in Int, \A x \in S : f[x] = c
  PROVE  SumOver(f, S) = Cardinality(S) * c
<1> DEFINE W == {T \in SUBSET S : SumOver(f, T) = Cardinality(T) * c}
<1>1. IntegersOn(f, S)
  BY DEF IntegersOn
<1>2. Grows(W, S)
  <2>1. {} \in W
    BY SumEmpty, FS_EmptySet
  <2>2. ASSUME NEW T \in SUBSET S, T \in W, NEW x \in S, x \notin T PROVE T \union {x} \in W
    <3>1. SumOver(f, T \union {x}) = SumOver(f, T) + c
      BY <1>1, <2>2, SumMore
    <3>2. Cardinality(T) \in Nat /\ Cardinality(T \union {x}) = Cardinality(T) + 1
      BY <2>2, FS_Subset, FS_AddElement, FS_CardinalityType
    <3>3. SumOver(f, T) = Cardinality(T) * c
      BY <2>2
    <3>4. (Cardinality(T) + 1) * c = Cardinality(T) * c + c
      BY <3>2
    <3> QED
      BY <3>1, <3>2, <3>3, <3>4
  <2> HIDE DEF W
  <2> QED
    BY <2>1, <2>2 DEF Grows
<1>3. S \in W
  <2> HIDE DEF W
  <2> QED
    BY <1>2, SetInduction
<1> QED
  BY <1>3

LEMMA SumNat ==
  ASSUME NEW f, NEW S, IsFiniteSet(S), \A x \in S : f[x] \in Nat PROVE SumOver(f, S) \in Nat
<1> DEFINE z == [x \in S |-> 0]
<1>1. IntegersOn(f, S) /\ IntegersOn(z, S) /\ \A x \in S : z[x] = 0 /\ z[x] <= f[x]
  BY DEF IntegersOn
<1> HIDE DEF z
<1>2. SumOver(z, S) <= SumOver(f, S) /\ SumOver(f, S) \in Int
  BY <1>1, SumOrder, SumInt
<1>3. SumOver(z, S) = Cardinality(S) * 0 /\ Cardinality(S) \in Nat
  BY <1>1, SumOfEqual, FS_CardinalityType
<1> QED
  BY <1>2, <1>3

LEMMA BothMore ==
  ASSUME NEW a \in Int, NEW b \in Int, NEW u \in Int, NEW v \in Int, NEW p \in Int, NEW q \in Int
  PROVE  (a * u + b * v) + (a * p + b * q) = a * (u + p) + b * (v + q)
<1>1. a * (u + p) = a * u + a * p /\ b * (v + q) = b * v + b * q
  OBVIOUS
<1>2. a * u \in Int /\ a * p \in Int /\ b * v \in Int /\ b * q \in Int
  OBVIOUS
<1> QED
  BY <1>1, <1>2

Combines(f, S, a, g, b, h) == \A x \in S : f[x] = a * g[x] + b * h[x]

\* A sum of a g's and b h's.
LEMMA SumOfBoth ==
  ASSUME NEW S, IsFiniteSet(S), NEW f, NEW g, NEW h, IntegersOn(g, S), IntegersOn(h, S), NEW a \in Int, NEW b \in Int,
         Combines(f, S, a, g, b, h)
  PROVE  IntegersOn(f, S) /\ SumOver(f, S) = a * SumOver(g, S) + b * SumOver(h, S)
<1> DEFINE W == {T \in SUBSET S : SumOver(f, T) = a * SumOver(g, T) + b * SumOver(h, T)}
<1>1. IntegersOn(f, S)
  <2>1. \A i, j \in Int : a * i + b * j \in Int
    OBVIOUS
  <2> QED
    BY <2>1 DEF IntegersOn, Combines
<1>2. Grows(W, S)
  <2>1. {} \in W
    BY SumEmpty
  <2>2. ASSUME NEW T \in SUBSET S, T \in W, NEW x \in S, x \notin T PROVE T \union {x} \in W
    <3>1. SumOver(f, T \union {x}) = SumOver(f, T) + f[x]
      BY <1>1, <2>2, SumMore
    <3>2. SumOver(g, T \union {x}) = SumOver(g, T) + g[x] /\ SumOver(g, T) \in Int /\ g[x] \in Int
      BY <2>2, SumMore
    <3>3. SumOver(h, T \union {x}) = SumOver(h, T) + h[x] /\ SumOver(h, T) \in Int /\ h[x] \in Int
      BY <2>2, SumMore
    <3>4. SumOver(f, T) = a * SumOver(g, T) + b * SumOver(h, T)
      BY <2>2
    <3>6. (a * SumOver(g, T) + b * SumOver(h, T)) + (a * g[x] + b * h[x])
            = a * (SumOver(g, T) + g[x]) + b * (SumOver(h, T) + h[x])
      <4>1. SumOver(g, T) \in Int /\ g[x] \in Int /\ SumOver(h, T) \in Int /\ h[x] \in Int
        BY <3>2, <3>3
      <4> QED
        BY <4>1, BothMore
    <3>7. f[x] = a * g[x] + b * h[x]
      BY DEF Combines
    <3>8. SumOver(f, T \union {x}) = a * SumOver(g, T \union {x}) + b * SumOver(h, T \union {x})
      BY <3>1, <3>2, <3>3, <3>4, <3>6, <3>7, Zenon
    <3> QED
      BY <3>8
  <2> HIDE DEF W
  <2> QED
    BY <2>1, <2>2 DEF Grows
<1>3. S \in W
  <2> HIDE DEF W
  <2> QED
    BY <1>2, SetInduction
<1> QED
  BY <1>1, <1>3

\* A sum over two sets that have nothing in common.
LEMMA SumUnion ==
  ASSUME NEW f, NEW S, NEW R, IsFiniteSet(S), IsFiniteSet(R), S \intersect R = {}, IntegersOn(f, S \union R)
  PROVE  SumOver(f, S \union R) = SumOver(f, S) + SumOver(f, R)
<1> DEFINE W == {T \in SUBSET R : SumOver(f, S \union T) = SumOver(f, S) + SumOver(f, T)}
<1>1. IntegersOn(f, S) /\ IntegersOn(f, R) /\ IsFiniteSet(S \union R)
  BY FS_Union DEF IntegersOn
<1>2. Grows(W, R)
  <2>1. {} \in W
    <3>1. S \union {} = S /\ SumOver(f, S) \in Int
      BY <1>1, SumInt
    <3>2. SumOver(f, S \union {}) = SumOver(f, S)
      BY <3>1, Zenon
    <3> QED
      BY <3>1, <3>2, SumEmpty
  <2>2. ASSUME NEW T \in SUBSET R, T \in W, NEW x \in R, x \notin T PROVE T \union {x} \in W
    <3>1. SumOver(f, T \union {x}) = SumOver(f, T) + f[x] /\ SumOver(f, T) \in Int /\ f[x] \in Int
      BY <1>1, <2>2, SumMore
    <3>2. S \union T \in SUBSET (S \union R) /\ x \in S \union R /\ x \notin S \union T
      BY <2>2
    <3>3. SumOver(f, (S \union T) \union {x}) = SumOver(f, S \union T) + f[x]
      BY <1>1, <3>2, SumMore
    <3>4. (S \union T) \union {x} = S \union (T \union {x})
      OBVIOUS
    <3>5. SumOver(f, (S \union T) \union {x}) = SumOver(f, S \union (T \union {x}))
      BY <3>4, Zenon
    <3>6. SumOver(f, S \union T) = SumOver(f, S) + SumOver(f, T) /\ SumOver(f, S) \in Int
      BY <1>1, <2>2, SumInt
    <3>7. \A p, q, r \in Int : (p + q) + r = p + (q + r)
      OBVIOUS
    <3>8. (SumOver(f, S) + SumOver(f, T)) + f[x] = SumOver(f, S) + (SumOver(f, T) + f[x])
      BY <3>1, <3>6, <3>7, Zenon
    <3>9. SumOver(f, S \union (T \union {x})) = SumOver(f, S) + SumOver(f, T \union {x})
      BY <3>1, <3>3, <3>5, <3>6, <3>8, Zenon
    <3> QED
      BY <3>9
  <2> HIDE DEF W
  <2> QED
    BY <2>1, <2>2 DEF Grows
<1>3. R \in W
  <2> HIDE DEF W
  <2> QED
    BY <1>2, SetInduction
<1> QED
  BY <1>3

Moves(m, S, f, g) == (\A x \in S : g[m[x]] = f[x]) /\ \A x, y \in S : m[x] = m[y] => x = y

\* The elements may be moved one to one.
LEMMA SumMoved ==
  ASSUME NEW S, IsFiniteSet(S), NEW f, NEW g, NEW m, IntegersOn(f, S), Moves(m, S, f, g)
  PROVE  SumOver(f, S) = SumOver(g, {m[x] : x \in S})
<1> DEFINE M(T) == {m[x] : x \in T}
           W == {T \in SUBSET S : IsFiniteSet(M(T)) /\ SumOver(f, T) = SumOver(g, M(T))}
<1>2. Grows(W, S)
  <2>1. {} \in W
    <3>1. M({}) = {}
      OBVIOUS
    <3>2. SumOver(g, M({})) = SumOver(g, {}) /\ IsFiniteSet(M({}))
      BY <3>1, FS_EmptySet, Zenon
    <3> QED
      BY <3>2, SumEmpty
  <2>2. ASSUME NEW T \in SUBSET S, T \in W, NEW x \in S, x \notin T PROVE T \union {x} \in W
    <3>1. SumOver(f, T \union {x}) = SumOver(f, T) + f[x]
      BY <2>2, SumMore
    <3>2. M(T \union {x}) = M(T) \union {m[x]} /\ m[x] \notin M(T) /\ IntegersOn(g, M(T) \union {m[x]})
      BY <2>2 DEF IntegersOn, Moves
    <3>3. IsFiniteSet(M(T)) /\ SumOver(f, T) = SumOver(g, M(T))
      BY <2>2
    <3> HIDE DEF M
    <3>4. SumOver(g, M(T) \union {m[x]}) = SumOver(g, M(T)) + g[m[x]]
      BY <3>2, <3>3, SumAdd
    <3>5. IsFiniteSet(M(T) \union {m[x]})
      BY <3>3, FS_AddElement
    <3>6. SumOver(g, M(T \union {x})) = SumOver(g, M(T)) + f[x] /\ IsFiniteSet(M(T \union {x}))
      <4>1. g[m[x]] = f[x]
        BY DEF Moves
      <4> QED
        BY <3>2, <3>4, <3>5, <4>1, Zenon
    <3> QED
      BY <3>1, <3>3, <3>6
  <2> HIDE DEF W
  <2> QED
    BY <2>1, <2>2 DEF Grows
<1>3. S \in W
  <2> HIDE DEF W
  <2> QED
    BY <1>2, SetInduction
<1> QED
  BY <1>3

\* Counted by what c makes of them.
Classed(S, C, c, f) == (\A x \in S : c[x] \in C) /\ \A t \in C : f[t] = Cardinality({x \in S : c[x] = t})

LEMMA CountByClass ==
  ASSUME NEW S, IsFiniteSet(S), NEW C, IsFiniteSet(C), NEW c, NEW f, Classed(S, C, c, f)
  PROVE  Cardinality(S) = SumOver(f, C)
<1>0. (\A x \in S : c[x] \in C) /\ \A t \in C : f[t] = Cardinality({x \in S : c[x] = t})
  BY DEF Classed
<1> DEFINE W == {T \in SUBSET C : Cardinality({x \in S : c[x] \in T}) = SumOver(f, T)}
<1>1. IntegersOn(f, C)
  <2>1. \A t \in C : f[t] \in Nat
    <3> TAKE t \in C
    <3>1. {x \in S : c[x] = t} \in SUBSET S
      OBVIOUS
    <3>2. Cardinality({x \in S : c[x] = t}) \in Nat
      BY <3>1, FS_Subset, FS_CardinalityType
    <3> QED
      BY <1>0, <3>2
  <2> QED
    BY <2>1 DEF IntegersOn
<1>2. Grows(W, C)
  <2>1. {} \in W
    <3>1. {x \in S : c[x] \in {}} = {}
      OBVIOUS
    <3> QED
      BY <3>1, SumEmpty, FS_EmptySet
  <2>2. ASSUME NEW T \in SUBSET C, T \in W, NEW t \in C, t \notin T PROVE T \union {t} \in W
    <3>1. SumOver(f, T \union {t}) = SumOver(f, T) + f[t]
      BY <1>1, <2>2, SumMore
    <3> DEFINE A == {x \in S : c[x] \in T}
               B == {x \in S : c[x] = t}
    <3>2. {x \in S : c[x] \in T \union {t}} = A \union B /\ A \intersect B = {} /\ IsFiniteSet(A) /\ IsFiniteSet(B)
      <4>1. A \in SUBSET S /\ B \in SUBSET S
        OBVIOUS
      <4>2. IsFiniteSet(A) /\ IsFiniteSet(B)
        <5> HIDE DEF A, B
        <5> QED
          BY <4>1, FS_Subset
      <4> QED
        BY <4>2, <2>2
    <3>3. Cardinality(A) = SumOver(f, T) /\ Cardinality(B) = f[t]
      BY <1>0, <2>2
    <3>4. Cardinality(A \union B) = Cardinality(A) + Cardinality(B)
      <4> HIDE DEF A, B
      <4>1. Cardinality(A \union B) = Cardinality(A) + Cardinality(B) - Cardinality(A \intersect B)
        BY <3>2, FS_Union
      <4>2. Cardinality(A \intersect B) = 0
        BY <3>2, FS_EmptySet
      <4> QED
        BY <3>2, <4>1, <4>2, FS_CardinalityType
    <3> HIDE DEF A, B
    <3> QED
      BY <3>1, <3>2, <3>3, <3>4
  <2> HIDE DEF W
  <2> QED
    BY <2>1, <2>2 DEF Grows
<1>3. C \in W
  <2> HIDE DEF W
  <2> QED
    BY <1>2, SetInduction
<1>4. {x \in S : c[x] \in C} = S
  BY <1>0
<1> QED
  BY <1>3, <1>4

-----------------------------------------------------------------------------
(* Selections of numbers, and their sums. *)

\* Sets that are one to one have as many elements, and apart sets together those of both.
LEMMA CountMoved ==
  ASSUME NEW A, IsFiniteSet(A), NEW B, NEW m, \A x \in A : m[x] \in B, \A x, y \in A : m[x] = m[y] => x = y,
         \A z \in B : \E x \in A : m[x] = z
  PROVE  IsFiniteSet(B) /\ Cardinality(B) = Cardinality(A)
<1> DEFINE f == [x \in A |-> m[x]]
<1>1. f \in Bijection(A, B)
  BY DEF Bijection, Injection, Surjection, IsInjective
<1> QED
  BY <1>1, FS_Bijection DEF ExistsBijection

LEMMA CountDisjoint ==
  ASSUME NEW A, IsFiniteSet(A), NEW B, IsFiniteSet(B), A \intersect B = {}
  PROVE  Cardinality(A \union B) = Cardinality(A) + Cardinality(B) /\ Cardinality(A) \in Nat /\ Cardinality(B) \in Nat
<1>1. Cardinality(A \union B) = Cardinality(A) + Cardinality(B) - Cardinality(A \intersect B)
  BY FS_Union
<1>2. Cardinality(A \intersect B) = 0
  BY FS_EmptySet
<1> QED
  BY <1>1, <1>2, FS_CardinalityType

\* The numbers up to n, and their sets, are finitely many.
LEMMA FiniteSubsets ==
  ASSUME NEW n \in Nat
  PROVE  /\ IsFiniteSet(1 .. n) /\ Cardinality(1 .. n) = n
         /\ \A X \in SUBSET SUBSET (1 .. n) : IsFiniteSet(X) /\ Cardinality(X) \in Nat
         /\ \A S \in SUBSET (1 .. n) : IsFiniteSet(S) /\ Cardinality(S) \in Nat /\ Cardinality(S) <= n
                                       /\ (Cardinality(S) = n => S = 1 .. n)
<1>1. IsFiniteSet(1 .. n) /\ Cardinality(1 .. n) = n
  BY FS_Interval
<1>2. IsFiniteSet(SUBSET (1 .. n))
  BY <1>1, FS_SUBSET
<1>3. ASSUME NEW X \in SUBSET SUBSET (1 .. n) PROVE IsFiniteSet(X) /\ Cardinality(X) \in Nat
  BY <1>2, FS_Subset, FS_CardinalityType
<1>4. ASSUME NEW S \in SUBSET (1 .. n)
      PROVE  IsFiniteSet(S) /\ Cardinality(S) \in Nat /\ Cardinality(S) <= n /\ (Cardinality(S) = n => S = 1 .. n)
  <2>1. IsFiniteSet(S) /\ Cardinality(S) <= Cardinality(1 .. n) /\ (Cardinality(1 .. n) = Cardinality(S) => S = 1 .. n)
    BY <1>1, FS_Subset, Zenon
  <2> QED
    BY <1>1, <2>1, FS_CardinalityType
<1> QED
  BY <1>1, <1>3, <1>4

\* Sets of X without n, and what is left of those with n.
Without(n, X) == {S \in SUBSET (1 .. n - 1) : S \in X}
With(n, X) == {S \in SUBSET (1 .. n - 1) : S \union {n} \in X}

\* Sets of numbers up to n, counted by whether n is one of them.
LEMMA CountByLast ==
  ASSUME NEW n \in Nat \ {0}, NEW X \in SUBSET SUBSET (1 .. n)
  PROVE  Cardinality(X) = Cardinality(Without(n, X)) + Cardinality(With(n, X))
<1> DEFINE A == {S \in X : n \notin S}
           B == {S \in X : n \in S}
           m == [S \in With(n, X) |-> S \union {n}]
<1>1. A = Without(n, X)
  <2>1. \A S \in SUBSET (1 .. n) : n \notin S => S \in SUBSET (1 .. n - 1)
    OBVIOUS
  <2>2. \A S \in SUBSET (1 .. n - 1) : n \notin S
    OBVIOUS
  <2> QED
    BY <2>1, <2>2 DEF Without
<1>2. IsFiniteSet(With(n, X)) /\ IsFiniteSet(A) /\ IsFiniteSet(B)
  <2>1. n - 1 \in Nat
    OBVIOUS
  <2>2. With(n, X) \in SUBSET SUBSET (1 .. n - 1)
    BY DEF With
  <2>3. A \in SUBSET SUBSET (1 .. n) /\ B \in SUBSET SUBSET (1 .. n)
    OBVIOUS
  <2> HIDE DEF A, B
  <2> QED
    BY <2>1, <2>2, <2>3, FiniteSubsets
<1>3. Cardinality(B) = Cardinality(With(n, X))
  <2>1. \A S \in With(n, X) : m[S] \in B
    BY DEF With
  <2>2. ASSUME NEW S \in With(n, X), NEW T \in With(n, X), m[S] = m[T] PROVE S = T
    <3>1. n \notin S /\ n \notin T
      BY DEF With
    <3>2. S \union {n} = T \union {n}
      BY <2>2
    <3>3. (S \union {n}) \ {n} = S /\ (T \union {n}) \ {n} = T
      BY <3>1
    <3> QED
      BY <3>2, <3>3, Zenon
  <2>3. ASSUME NEW S \in B PROVE \E T \in With(n, X) : m[T] = S
    <3>1. S \ {n} \in SUBSET (1 .. n - 1) /\ (S \ {n}) \union {n} = S
      OBVIOUS
    <3>2. S \ {n} \in With(n, X)
      BY <3>1 DEF With
    <3>3. m[S \ {n}] = (S \ {n}) \union {n}
      BY <3>2
    <3>4. m[S \ {n}] = S
      BY <3>1, <3>3, Zenon
    <3> HIDE DEF m
    <3> QED
      BY <3>2, <3>4
  <2> HIDE DEF B, m
  <2> QED
    BY <1>2, <2>1, <2>2, <2>3, CountMoved
<1>4. A \union B = X /\ A \intersect B = {}
  OBVIOUS
<1> HIDE DEF A, B
<1>5. Cardinality(A \union B) = Cardinality(A) + Cardinality(B)
  BY <1>2, <1>4, CountDisjoint
<1> QED
  BY <1>1, <1>3, <1>4, <1>5, Zenon

-----------------------------------------------------------------------------
\* Selections of k of the numbers up to n: all, and those with a sum.
Itself == [x \in Int |-> x]
SetSum(S) == SumOver(Itself, S)
Picks(k, n) == {S \in SUBSET (1 .. n) : Cardinality(S) = k}
SumsTo(k, n, s) == {S \in Picks(k, n) : SetSum(S) = s}
Count(k, n, s) == Cardinality(SumsTo(k, n, s))

\* The sum of a set of numbers, and of one with a number more.
LEMMA SetSumIs ==
  ASSUME NEW S \in SUBSET Int, IsFiniteSet(S)
  PROVE  /\ SetSum(S) \in Int
         /\ \A x \in S : SetSum(S) = x + SetSum(S \ {x})
         /\ \A x \in Int : x \notin S => SetSum(S \union {x}) = SetSum(S) + x
<1>1. \A T \in SUBSET Int : IntegersOn(Itself, T)
  BY DEF IntegersOn, Itself
<1>2. \A x \in Int : Itself[x] = x
  BY DEF Itself
<1>3. SetSum(S) \in Int
  BY <1>1, SumInt DEF SetSum
<1>4. ASSUME NEW x \in S PROVE SetSum(S) = x + SetSum(S \ {x})
  BY <1>1, <1>2, SumRemove DEF SetSum
<1>5. ASSUME NEW x \in Int, x \notin S PROVE SetSum(S \union {x}) = SetSum(S) + x
  <2>1. S \union {x} \in SUBSET Int
    OBVIOUS
  <2> QED
    BY <1>1, <1>2, <1>5, <2>1, SumAdd DEF SetSum
<1> QED
  BY <1>3, <1>4, <1>5

LEMMA CountIsNat ==
  ASSUME NEW n \in Nat, NEW k, NEW s
  PROVE  Count(k, n, s) \in Nat /\ Cardinality(Picks(k, n)) \in Nat /\ IsFiniteSet(Picks(k, n))
<1>1. SumsTo(k, n, s) \in SUBSET SUBSET (1 .. n) /\ Picks(k, n) \in SUBSET SUBSET (1 .. n)
  BY DEF SumsTo, Picks
<1> QED
  BY <1>1, FiniteSubsets DEF Count

\* The last number is one of them or not.
LEMMA PicksByLast ==
  ASSUME NEW n \in Nat \ {0}, NEW k \in Nat \ {0}, NEW S \in SUBSET (1 .. n - 1)
  PROVE  /\ S \in Picks(k, n) <=> S \in Picks(k, n - 1)
         /\ S \union {n} \in Picks(k, n) <=> S \in Picks(k - 1, n - 1)
         /\ SetSum(S \union {n}) = SetSum(S) + n /\ SetSum(S) \in Int
<1>1. n - 1 \in Nat /\ S \in SUBSET (1 .. n) /\ S \union {n} \in SUBSET (1 .. n) /\ n \notin S
  OBVIOUS
<1>2. IsFiniteSet(S) /\ Cardinality(S) \in Nat
  BY <1>1, FiniteSubsets
<1>3. Cardinality(S \union {n}) = Cardinality(S) + 1
  BY <1>1, <1>2, FS_AddElement
<1>4. S \in SUBSET Int
  OBVIOUS
<1>5. SetSum(S \union {n}) = SetSum(S) + n /\ SetSum(S) \in Int
  BY <1>1, <1>2, <1>4, SetSumIs
<1>6. Cardinality(S) + 1 = k <=> Cardinality(S) = k - 1
  BY <1>2
<1> QED
  BY <1>1, <1>3, <1>5, <1>6 DEF Picks

\* With or without the last number, the rest has the rest of the sum.
LEMMA CountStep ==
  ASSUME NEW n \in Nat \ {0}, NEW k \in Nat \ {0}, NEW s \in Int
  PROVE  Count(k, n, s) = Count(k, n - 1, s) + Count(k - 1, n - 1, s - n)
<1>1. SumsTo(k, n, s) \in SUBSET SUBSET (1 .. n)
  BY DEF SumsTo, Picks
<1>2. Without(n, SumsTo(k, n, s)) = SumsTo(k, n - 1, s)
  <2>1. ASSUME NEW S \in SUBSET (1 .. n - 1) PROVE S \in SumsTo(k, n, s) <=> S \in SumsTo(k, n - 1, s)
    BY PicksByLast DEF SumsTo
  <2>2. SumsTo(k, n - 1, s) \in SUBSET SUBSET (1 .. n - 1)
    BY DEF SumsTo, Picks
  <2> QED
    BY <2>1, <2>2 DEF Without
<1>3. With(n, SumsTo(k, n, s)) = SumsTo(k - 1, n - 1, s - n)
  <2>1. ASSUME NEW S \in SUBSET (1 .. n - 1) PROVE S \union {n} \in SumsTo(k, n, s) <=> S \in SumsTo(k - 1, n - 1, s - n)
    <3>1. SetSum(S \union {n}) = s <=> SetSum(S) = s - n
      BY PicksByLast
    <3>2. S \union {n} \in Picks(k, n) <=> S \in Picks(k - 1, n - 1)
      BY PicksByLast
    <3> QED
      BY <3>1, <3>2 DEF SumsTo
  <2>2. SumsTo(k - 1, n - 1, s - n) \in SUBSET SUBSET (1 .. n - 1)
    BY DEF SumsTo, Picks
  <2> QED
    BY <2>1, <2>2 DEF With
<1>4. Cardinality(SumsTo(k, n, s))
        = Cardinality(Without(n, SumsTo(k, n, s))) + Cardinality(With(n, SumsTo(k, n, s)))
  BY <1>1, CountByLast
<1> QED
  BY <1>2, <1>3, <1>4, Zenon DEF Count

LEMMA PicksStep ==
  ASSUME NEW n \in Nat \ {0}, NEW k \in Nat \ {0}
  PROVE  Cardinality(Picks(k, n)) = Cardinality(Picks(k, n - 1)) + Cardinality(Picks(k - 1, n - 1))
<1>1. Picks(k, n) \in SUBSET SUBSET (1 .. n)
  BY DEF Picks
<1>2. Without(n, Picks(k, n)) = Picks(k, n - 1)
  <2>1. ASSUME NEW S \in SUBSET (1 .. n - 1) PROVE S \in Picks(k, n) <=> S \in Picks(k, n - 1)
    BY PicksByLast
  <2>2. Picks(k, n - 1) \in SUBSET SUBSET (1 .. n - 1)
    BY DEF Picks
  <2> QED
    BY <2>1, <2>2 DEF Without
<1>3. With(n, Picks(k, n)) = Picks(k - 1, n - 1)
  <2>1. ASSUME NEW S \in SUBSET (1 .. n - 1) PROVE S \union {n} \in Picks(k, n) <=> S \in Picks(k - 1, n - 1)
    BY PicksByLast
  <2>2. Picks(k - 1, n - 1) \in SUBSET SUBSET (1 .. n - 1)
    BY DEF Picks
  <2> QED
    BY <2>1, <2>2 DEF With
<1>4. Cardinality(Picks(k, n)) = Cardinality(Without(n, Picks(k, n))) + Cardinality(With(n, Picks(k, n)))
  BY <1>1, CountByLast
<1> QED
  BY <1>2, <1>3, <1>4, Zenon

\* There is one way to choose none.
LEMMA PicksOfNone ==
  ASSUME NEW n \in Nat
  PROVE  Picks(0, n) = {{}} /\ \A s \in Int : Count(0, n, s) = IF s = 0 THEN 1 ELSE 0
<1>1. \A S \in SUBSET (1 .. n) : Cardinality(S) = 0 <=> S = {}
  BY FiniteSubsets, FS_EmptySet
<1>2. Picks(0, n) = {{}}
  BY <1>1 DEF Picks
<1>3. SetSum({}) = 0
  BY SumEmpty DEF SetSum
<1>4. ASSUME NEW s \in Int PROVE Count(0, n, s) = IF s = 0 THEN 1 ELSE 0
  <2>1. SumsTo(0, n, s) = IF s = 0 THEN {{}} ELSE {}
    BY <1>2, <1>3 DEF SumsTo
  <2> QED
    BY <2>1, FS_EmptySet, FS_Singleton DEF Count
<1> QED
  BY <1>2, <1>4

-----------------------------------------------------------------------------
(* The rank sum: U is what is above the least sum. *)

\* 1 + ... + i.
Tri(i) == (i * (i + 1)) \div 2

LEMMA TriIs ==
  /\ Tri(0) = 0
  /\ \A i \in Nat : Tri(i) \in Nat /\ 2 * Tri(i) = i * (i + 1)
  /\ \A i \in Nat \ {0} : Tri(i) = Tri(i - 1) + i
<1>1. \A i \in Nat : \E h \in Nat : i * (i + 1) = 2 * h
  <2> DEFINE Bad == {i \in Nat : ~\E h \in Nat : i * (i + 1) = 2 * h}
  <2> SUFFICES ASSUME Bad /= {} PROVE FALSE
    OBVIOUS
  <2>1. PICK i \in Bad : \A j \in Bad : i <= j
    <3>1. Bad \in SUBSET Nat
      OBVIOUS
    <3> HIDE DEF Bad
    <3> QED
      BY <3>1, Least
  <2>2. i \in Nat /\ i /= 0
    <3>1. i \in Nat /\ ~\E h \in Nat : i * (i + 1) = 2 * h
      OBVIOUS
    <3>2. 0 * (0 + 1) = 2 * 0
      OBVIOUS
    <3> QED
      BY <3>1, <3>2
  <2>3. i - 1 \in Nat /\ i - 1 \notin Bad
    <3> HIDE DEF Bad
    <3> QED
      BY <2>1, <2>2
  <2>4. PICK h \in Nat : (i - 1) * ((i - 1) + 1) = 2 * h
    BY <2>3
  <2>5. i * (i + 1) = 2 * (h + i) /\ h + i \in Nat
    <3>1. i * (i + 1) = (i - 1) * ((i - 1) + 1) + 2 * i
      BY <2>2
    <3> QED
      BY <2>2, <2>4, <3>1
  <2> QED
    BY <2>1, <2>5
<1>2. ASSUME NEW i \in Nat PROVE Tri(i) \in Nat /\ 2 * Tri(i) = i * (i + 1)
  <2>1. PICK h \in Nat : i * (i + 1) = 2 * h
    BY <1>1
  <2>2. (2 * h) \div 2 = h
    OBVIOUS
  <2> QED
    BY <2>1, <2>2 DEF Tri
<1>3. ASSUME NEW i \in Nat \ {0} PROVE Tri(i) = Tri(i - 1) + i
  <2>1. i - 1 \in Nat /\ i * (i + 1) = (i - 1) * ((i - 1) + 1) + 2 * i
    OBVIOUS
  <2>2. 2 * Tri(i) = i * (i + 1) /\ 2 * Tri(i - 1) = (i - 1) * ((i - 1) + 1) /\ Tri(i) \in Nat /\ Tri(i - 1) \in Nat
    BY <1>2, <2>1
  <2>3. 2 * Tri(i) = 2 * Tri(i - 1) + 2 * i
    <3> DEFINE p == i * (i + 1)
               q == (i - 1) * ((i - 1) + 1)
    <3>1. p = q + 2 * i /\ 2 * Tri(i) = p /\ 2 * Tri(i - 1) = q
      BY <2>1, <2>2
    <3> HIDE DEF p, q
    <3> QED
      BY <3>1
  <2>4. Tri(i) \in Int /\ Tri(i - 1) \in Int
    BY <2>2
  <2>5. \A p, q \in Int : 2 * p = 2 * q + 2 * i => p = q + i
    OBVIOUS
  <2> QED
    BY <2>3, <2>4, <2>5, Zenon
<1>4. Tri(0) = 0
  BY DEF Tri
<1> QED
  BY <1>2, <1>3, <1>4

LEMMA TriGrows ==
  ASSUME NEW i \in Nat \ {0} PROVE Tri(i) = Tri(i - 1) + i /\ Tri(i) \in Nat /\ Tri(i - 1) \in Nat
<1>1. i - 1 \in Nat
  OBVIOUS
<1> QED
  BY <1>1, TriIs, Zenon

\* Induction on the sum of two numbers.
LEMMA PairInduction ==
  ASSUME NEW W, \A i, m \in Nat : (\A p, q \in Nat : p + q < i + m => <<p, q>> \in W) => <<i, m>> \in W
  PROVE  \A i, m \in Nat : <<i, m>> \in W
<1> DEFINE Bad == {t \in Nat : \E i, m \in Nat : i + m = t /\ <<i, m>> \notin W}
<1>1. Bad = {}
  <2> SUFFICES ASSUME Bad /= {} PROVE FALSE
    OBVIOUS
  <2>1. PICK t \in Bad : \A u \in Bad : t <= u
    <3>1. Bad \in SUBSET Nat
      OBVIOUS
    <3> HIDE DEF Bad
    <3> QED
      BY <3>1, Least
  <2>2. PICK i \in Nat, m \in Nat : i + m = t /\ <<i, m>> \notin W
    BY <2>1
  <2>3. ASSUME NEW p \in Nat, NEW q \in Nat, p + q < i + m PROVE <<p, q>> \in W
    <3>1. p + q \in Nat /\ p + q \notin Bad
      <4> HIDE DEF Bad
      <4> QED
        BY <2>1, <2>2, <2>3
    <3> QED
      BY <3>1
  <2> QED
    BY <2>2, <2>3
<1>2. ASSUME NEW i \in Nat, NEW m \in Nat PROVE <<i, m>> \in W
  <2>1. i + m \in Nat
    OBVIOUS
  <2>2. i + m \notin Bad
    <3> HIDE DEF Bad
    <3> QED
      BY <1>1
  <2>3. <<i, m>> \notin W => i + m \in Bad
    BY <2>1
  <2> QED
    BY <2>2, <2>3
<1> QED
  BY <1>2

-----------------------------------------------------------------------------
\* How many choices of i ranks of m + i have the sum that makes U = j.
UCount(i, m, j) == Count(i, m + i, Tri(i) + j)

\* All numbers up to n have this sum.
LEMMA AllSum == ASSUME NEW n \in Nat PROVE SetSum(1 .. n) = Tri(n)
<1> DEFINE Bad == {k \in Nat : SetSum(1 .. k) /= Tri(k)}
<1> SUFFICES ASSUME Bad /= {} PROVE FALSE
  OBVIOUS
<1>1. PICK k \in Bad : \A j \in Bad : k <= j
  <2>1. Bad \in SUBSET Nat
    OBVIOUS
  <2> HIDE DEF Bad
  <2> QED
    BY <2>1, Least
<1>2. k \in Nat /\ SetSum(1 .. k) /= Tri(k)
  OBVIOUS
<1>3. k /= 0
  <2>1. 1 .. 0 = {}
    OBVIOUS
  <2>2. SetSum(1 .. 0) = 0
    BY <2>1, SumEmpty, Zenon DEF SetSum
  <2> QED
    BY <1>2, <2>2, TriIs
<1>4. k - 1 \in Nat /\ SetSum(1 .. k - 1) = Tri(k - 1)
  <2>1. k - 1 \in Nat /\ k - 1 \notin Bad
    <3> HIDE DEF Bad
    <3> QED
      BY <1>1, <1>2, <1>3
  <2> QED
    BY <2>1
<1>5. SetSum((1 .. k - 1) \union {k}) = SetSum(1 .. k - 1) + k
  <2>1. 1 .. k - 1 \in SUBSET Int /\ k \in Int /\ k \notin 1 .. k - 1 /\ IsFiniteSet(1 .. k - 1)
    BY <1>2, <1>4, FiniteSubsets
  <2> QED
    BY <2>1, SetSumIs
<1>6. (1 .. k - 1) \union {k} = 1 .. k
  BY <1>2, <1>3
<1>7. SetSum(1 .. k) = SetSum(1 .. k - 1) + k
  BY <1>5, <1>6, Zenon
<1> QED
  BY <1>2, <1>3, <1>4, <1>7, TriIs

LEMMA UIsNat == ASSUME NEW i \in Nat, NEW m \in Nat, NEW j PROVE UCount(i, m, j) \in Nat
  BY CountIsNat DEF UCount

\* Of no ranks U is 0.
LEMMA UOfNone ==
  ASSUME NEW i \in Nat, NEW j \in Int
  PROVE  /\ UCount(0, i, j) = IF j = 0 THEN 1 ELSE 0
         /\ UCount(i, 0, j) = IF j = 0 THEN 1 ELSE 0
<1>1. UCount(0, i, j) = IF j = 0 THEN 1 ELSE 0
  <2>1. UCount(0, i, j) = Count(0, i + 0, 0 + j)
    BY TriIs, Zenon DEF UCount
  <2>2. i + 0 = i /\ 0 + j = j
    OBVIOUS
  <2>3. UCount(0, i, j) = Count(0, i, j)
    BY <2>1, <2>2, Zenon
  <2> QED
    BY <2>3, PicksOfNone
<1>2. UCount(i, 0, j) = IF j = 0 THEN 1 ELSE 0
  <2>1. \A S \in SUBSET (1 .. i) : Cardinality(S) = i <=> S = 1 .. i
    BY FiniteSubsets
  <2>2. Picks(i, i) = {1 .. i}
    BY <2>1 DEF Picks
  <2>3. Tri(i) \in Nat
    BY TriIs
  <2>4. SumsTo(i, i, Tri(i) + j) = IF j = 0 THEN {1 .. i} ELSE {}
    BY <2>2, <2>3, AllSum DEF SumsTo
  <2>5. 0 + i = i
    OBVIOUS
  <2>6. Count(i, i, Tri(i) + j) = IF j = 0 THEN 1 ELSE 0
    BY <2>4, FS_EmptySet, FS_Singleton DEF Count
  <2> QED
    BY <2>5, <2>6 DEF UCount
<1> QED
  BY <1>1, <1>2

\* The greatest rank is one of them or not.
LEMMA UStep ==
  ASSUME NEW i \in Nat \ {0}, NEW m \in Nat \ {0}, NEW j \in Int
  PROVE  UCount(i, m, j) = UCount(i, m - 1, j) + UCount(i - 1, m, j - m)
<1>1. Tri(i) \in Nat /\ Tri(i - 1) \in Nat /\ Tri(i) = Tri(i - 1) + i
  BY TriGrows
<1>2. Count(i, m + i, Tri(i) + j) = Count(i, (m + i) - 1, Tri(i) + j) + Count(i - 1, (m + i) - 1, (Tri(i) + j) - (m + i))
  BY <1>1, CountStep
<1>3. (m + i) - 1 = (m - 1) + i /\ (m + i) - 1 = m + (i - 1) /\ (Tri(i) + j) - (m + i) = Tri(i - 1) + (j - m)
  BY <1>1
<1>4. Count(i, (m + i) - 1, Tri(i) + j) = UCount(i, m - 1, j)
  BY <1>3 DEF UCount
<1>5. Count(i - 1, (m + i) - 1, (Tri(i) + j) - (m + i)) = UCount(i - 1, m, j - m)
  BY <1>3 DEF UCount
<1> QED
  BY <1>2, <1>4, <1>5 DEF UCount

\* The smallest rank is one of them or not.
UFirst(i, m, j) == UCount(i, m, j) = UCount(i - 1, m, j) + UCount(i, m - 1, j - i)

\* It follows from the recursion for the greatest one, by induction on i + m.
LEMMA UOther ==
  ASSUME NEW i \in Nat \ {0}, NEW m \in Nat \ {0}, NEW j \in Int PROVE UFirst(i, m, j)
<1> DEFINE W == {p \in Nat \X Nat : p[1] /= 0 /\ p[2] /= 0 => \A t \in Int : UFirst(p[1], p[2], t)}
<1>1. ASSUME NEW a \in Nat, NEW b \in Nat, \A p, q \in Nat : p + q < a + b => <<p, q>> \in W
      PROVE  <<a, b>> \in W
  <2> SUFFICES ASSUME a /= 0, b /= 0, NEW t \in Int PROVE UFirst(a, b, t)
    OBVIOUS
  <2>1. \A x \in Int : /\ UCount(a, b - 1, x) \in Nat /\ UCount(a - 1, b, x) \in Nat
                       /\ b /= 1 => UCount(a, b - 2, x) \in Nat
                       /\ a /= 1 => UCount(a - 2, b, x) \in Nat
                       /\ UCount(a - 1, b - 1, x) \in Nat
    BY UIsNat
  <2>2. UCount(a, b, t) = UCount(a, b - 1, t) + UCount(a - 1, b, t - b)
    BY UStep
  <2>3. b /= 1 => UCount(a, b - 1, t) = UCount(a - 1, b - 1, t) + UCount(a, b - 2, t - a)
    <3> SUFFICES ASSUME b /= 1 PROVE UCount(a, b - 1, t) = UCount(a - 1, b - 1, t) + UCount(a, b - 2, t - a)
      OBVIOUS
    <3>1. b - 1 \in Nat /\ b - 1 /= 0 /\ a + (b - 1) < a + b /\ (b - 1) - 1 = b - 2
      OBVIOUS
    <3>2. UFirst(a, b - 1, t)
      BY <1>1, <3>1
    <3> QED
      BY <3>1, <3>2 DEF UFirst
  <2>4. a /= 1 => UCount(a - 1, b, t - b) = UCount(a - 2, b, t - b) + UCount(a - 1, b - 1, (t - b) - (a - 1))
    <3> SUFFICES ASSUME a /= 1 PROVE UCount(a - 1, b, t - b) = UCount(a - 2, b, t - b) + UCount(a - 1, b - 1, (t - b) - (a - 1))
      OBVIOUS
    <3>1. a - 1 \in Nat /\ a - 1 /= 0 /\ (a - 1) + b < a + b /\ (a - 1) - 1 = a - 2 /\ t - b \in Int
      OBVIOUS
    <3>2. UFirst(a - 1, b, t - b)
      BY <1>1, <3>1
    <3> QED
      BY <3>1, <3>2 DEF UFirst
  <2>5. b /= 1 => UCount(a, b - 1, t - a) = UCount(a, b - 2, t - a) + UCount(a - 1, b - 1, (t - a) - (b - 1))
    <3> SUFFICES ASSUME b /= 1 PROVE UCount(a, b - 1, t - a) = UCount(a, b - 2, t - a) + UCount(a - 1, b - 1, (t - a) - (b - 1))
      OBVIOUS
    <3>1. b - 1 \in Nat \ {0} /\ (b - 1) - 1 = b - 2 /\ t - a \in Int
      OBVIOUS
    <3> QED
      BY <3>1, UStep
  <2>6. a /= 1 => UCount(a - 1, b, t) = UCount(a - 1, b - 1, t) + UCount(a - 2, b, t - b)
    <3> SUFFICES ASSUME a /= 1 PROVE UCount(a - 1, b, t) = UCount(a - 1, b - 1, t) + UCount(a - 2, b, t - b)
      OBVIOUS
    <3>1. a - 1 \in Nat \ {0} /\ (a - 1) - 1 = a - 2
      OBVIOUS
    <3> QED
      BY <3>1, UStep
  <2>7. (t - b) - (a - 1) = (t - a) - (b - 1)
    OBVIOUS
  <2>8. CASE a /= 1 /\ b /= 1
    <3> DEFINE x == (t - b) - (a - 1)
    <3>1. /\ UCount(a - 1, b - 1, t) \in Nat /\ UCount(a, b - 2, t - a) \in Nat /\ UCount(a - 2, b, t - b) \in Nat
          /\ UCount(a - 1, b - 1, x) \in Nat
      BY <2>1, <2>8
    <3>2. UCount(a - 1, b, t - b) = UCount(a - 2, b, t - b) + UCount(a - 1, b - 1, x)
      BY <2>4, <2>8
    <3>3. UCount(a, b - 1, t - a) = UCount(a, b - 2, t - a) + UCount(a - 1, b - 1, x)
      BY <2>5, <2>7, <2>8
    <3> HIDE DEF x
    <3> QED
      BY <2>2, <2>3, <2>6, <2>8, <3>1, <3>2, <3>3 DEF UFirst
  <2>9. CASE a = 1
    <3>1. \A y \in Nat, x \in Int : UCount(a - 1, y, x) = IF x = 0 THEN 1 ELSE 0
      BY <2>9, UOfNone
    <3>2. CASE b = 1
      <4>1. UCount(a, b - 1, t) = (IF t = 0 THEN 1 ELSE 0) /\ UCount(a, b - 1, t - a) = (IF t - a = 0 THEN 1 ELSE 0)
        BY <3>2, UOfNone
      <4>2. UCount(a - 1, b, t) = (IF t = 0 THEN 1 ELSE 0) /\ UCount(a - 1, b, t - b) = (IF t - b = 0 THEN 1 ELSE 0)
        BY <3>1
      <4> QED
        BY <2>2, <2>9, <3>2, <4>1, <4>2 DEF UFirst
    <3>3. CASE b /= 1
      <4>1. /\ UCount(a - 1, b - 1, t) = UCount(a - 1, b, t)
            /\ UCount(a - 1, b, t - b) = UCount(a - 1, b - 1, (t - a) - (b - 1))
        <5>1. t - b = 0 <=> (t - a) - (b - 1) = 0
          BY <2>9
        <5> QED
          BY <3>1, <5>1
      <4>2. UCount(a, b - 2, t - a) \in Nat /\ UCount(a - 1, b, t) \in Nat /\ UCount(a - 1, b, t - b) \in Nat
        BY <2>1, <3>3
      <4> QED
        BY <2>2, <2>3, <2>5, <3>3, <4>1, <4>2 DEF UFirst
    <3> QED
      BY <3>2, <3>3
  <2>10. CASE b = 1 /\ a /= 1
    <3>1. \A y \in Nat, x \in Int : UCount(y, b - 1, x) = IF x = 0 THEN 1 ELSE 0
      BY <2>10, UOfNone
    <3>2. /\ UCount(a, b - 1, t) = UCount(a - 1, b - 1, t)
          /\ UCount(a, b - 1, t - a) = UCount(a - 1, b - 1, (t - b) - (a - 1))
      <4>1. t - a = 0 <=> (t - b) - (a - 1) = 0
        BY <2>10
      <4> QED
        BY <2>10, <3>1, <4>1
    <3>3. UCount(a - 1, b - 1, t) \in Nat /\ UCount(a - 2, b, t - b) \in Nat /\ UCount(a, b - 1, t - a) \in Nat
      BY <2>1, <2>10
    <3> QED
      BY <2>2, <2>4, <2>6, <2>10, <3>2, <3>3 DEF UFirst
  <2> QED
    BY <2>8, <2>9, <2>10
<1>2. \A a, b \in Nat : <<a, b>> \in W
  <2> HIDE DEF W
  <2> QED
    BY <1>1, PairInduction
<1>3. <<i, m>> \in W
  BY <1>2
<1> QED
  BY <1>3

\* U is from 0 to i m, and its counts are symmetric.
LEMMA UEnds ==
  ASSUME NEW i \in Nat, NEW m \in Nat, NEW j \in Int, j < 0 PROVE UCount(i, m, j) = 0
<1> DEFINE W == {p \in Nat \X Nat : \A t \in Int : t < 0 => UCount(p[1], p[2], t) = 0}
<1>1. ASSUME NEW a \in Nat, NEW b \in Nat, \A p, q \in Nat : p + q < a + b => <<p, q>> \in W
      PROVE  <<a, b>> \in W
  <2> SUFFICES ASSUME NEW t \in Int, t < 0 PROVE UCount(a, b, t) = 0
    OBVIOUS
  <2>1. CASE a = 0 \/ b = 0
    BY <2>1, UOfNone
  <2>2. CASE a /= 0 /\ b /= 0
    <3>1. UCount(a, b, t) = UCount(a, b - 1, t) + UCount(a - 1, b, t - b)
      BY <2>2, UStep
    <3>2. <<a, b - 1>> \in W /\ <<a - 1, b>> \in W
      BY <1>1, <2>2
    <3>3. t - b \in Int /\ t - b < 0
      BY <2>2
    <3> QED
      BY <3>1, <3>2, <3>3
  <2> QED
    BY <2>1, <2>2
<1>2. \A a, b \in Nat : <<a, b>> \in W
  <2> HIDE DEF W
  <2> QED
    BY <1>1, PairInduction
<1>3. <<i, m>> \in W
  BY <1>2
<1> QED
  BY <1>3

USame(i, m, j) == UCount(i, m, j) = UCount(i, m, i * m - j)

\* By both recursions.
LEMMA USymmetric ==
  ASSUME NEW i \in Nat, NEW m \in Nat, NEW j \in Int PROVE USame(i, m, j)
<1> DEFINE W == {p \in Nat \X Nat : \A t \in Int : USame(p[1], p[2], t)}
<1>1. ASSUME NEW a \in Nat, NEW b \in Nat, \A p, q \in Nat : p + q < a + b => <<p, q>> \in W
      PROVE  <<a, b>> \in W
  <2> SUFFICES ASSUME NEW t \in Int PROVE USame(a, b, t)
    OBVIOUS
  <2>1. CASE a = 0 \/ b = 0
    <3>1. a * b = 0
      BY <2>1
    <3>2. t = 0 <=> 0 - t = 0
      OBVIOUS
    <3>3. 0 - t \in Int
      OBVIOUS
    <3>4. UCount(a, b, t) = UCount(a, b, 0 - t)
      BY <2>1, <3>2, <3>3, UOfNone
    <3> QED
      BY <3>1, <3>4 DEF USame
  <2>2. CASE a /= 0 /\ b /= 0
    <3> DEFINE u == a * b - t
    <3>0. a * b \in Nat /\ u \in Int
      OBVIOUS
    <3>1. UCount(a, b, t) = UCount(a, b - 1, t) + UCount(a - 1, b, t - b)
      BY <2>2, UStep
    <3>2. UCount(a, b, u) = UCount(a - 1, b, u) + UCount(a, b - 1, u - a)
      <4>1. UFirst(a, b, u)
        <5> HIDE DEF u
        <5> QED
          BY <2>2, <3>0, UOther
      <4> QED
        BY <4>1 DEF UFirst
    <3>3. <<a, b - 1>> \in W /\ <<a - 1, b>> \in W
      BY <1>1, <2>2
    <3>4. UCount(a, b - 1, t) = UCount(a, b - 1, a * (b - 1) - t)
      BY <3>3 DEF USame
    <3>5. UCount(a - 1, b, t - b) = UCount(a - 1, b, (a - 1) * b - (t - b))
      <4>1. t - b \in Int
        OBVIOUS
      <4> QED
        BY <3>3, <4>1 DEF USame
    <3>6. a * (b - 1) - t = u - a /\ (a - 1) * b - (t - b) = u
      <4>1. a * (b - 1) = a * b - a /\ (a - 1) * b = a * b - b
        OBVIOUS
      <4> QED
        BY <3>0, <4>1
    <3>7. UCount(a, b - 1, t) \in Nat /\ UCount(a - 1, b, t - b) \in Nat
      BY <2>2, UIsNat
    <3>8. UCount(a, b - 1, t) = UCount(a, b - 1, u - a) /\ UCount(a - 1, b, t - b) = UCount(a - 1, b, u)
      BY <3>4, <3>5, <3>6, Zenon
    <3>9. UCount(a, b, t) = UCount(a, b, u)
      <4> HIDE DEF u
      <4> QED
        BY <3>1, <3>2, <3>7, <3>8
    <3> QED
      BY <3>9 DEF USame
  <2> QED
    BY <2>1, <2>2
<1>2. \A a, b \in Nat : <<a, b>> \in W
  <2> HIDE DEF W
  <2> QED
    BY <1>1, PairInduction
<1>3. <<i, m>> \in W
  BY <1>2
<1> QED
  BY <1>3

\* What one factor of the product adds.
LEMMA UDifference ==
  ASSUME NEW i \in Nat \ {0}, NEW m \in Nat \ {0}, NEW j \in Int
  PROVE  UCount(i, m, j) - UCount(i, m, j - i) = UCount(i - 1, m, j) - UCount(i - 1, m, (j - i) - m)
<1>1. UCount(i, m, j) = UCount(i - 1, m, j) + UCount(i, m - 1, j - i)
  BY UOther DEF UFirst
<1>2. UCount(i, m, j - i) = UCount(i, m - 1, j - i) + UCount(i - 1, m, (j - i) - m)
  BY UStep
<1>3. /\ UCount(i - 1, m, j) \in Nat /\ UCount(i, m - 1, j - i) \in Nat
      /\ UCount(i - 1, m, (j - i) - m) \in Nat
  BY UIsNat
<1> QED
  BY <1>1, <1>2, <1>3

-----------------------------------------------------------------------------
(* How many choices there are. *)

\* How many choices of i of m + i there are.
Selections(i, m) == Cardinality(Picks(i, m + i))

\* Pascal's triangle.
LEMMA ChoicesStep ==
  ASSUME NEW i \in Nat \ {0}, NEW m \in Nat \ {0}
  PROVE  Selections(i, m) = Selections(i, m - 1) + Selections(i - 1, m)
<1>1. Cardinality(Picks(i, m + i)) = Cardinality(Picks(i, (m + i) - 1)) + Cardinality(Picks(i - 1, (m + i) - 1))
  BY PicksStep
<1>2. (m + i) - 1 = (m - 1) + i /\ (m + i) - 1 = m + (i - 1)
  OBVIOUS
<1>3. Picks(i, (m + i) - 1) = Picks(i, (m - 1) + i) /\ Picks(i - 1, (m + i) - 1) = Picks(i - 1, m + (i - 1))
  BY <1>2, Zenon
<1> QED
  BY <1>1, <1>3, Zenon DEF Selections

LEMMA ChoicesOfNone == ASSUME NEW i \in Nat PROVE Selections(0, i) = 1 /\ Selections(i, 0) = 1
<1>1. Selections(0, i) = 1
  <2>1. i + 0 = i
    OBVIOUS
  <2>2. Picks(0, i + 0) = {{}}
    BY <2>1, PicksOfNone, Zenon
  <2> QED
    BY <2>2, FS_Singleton DEF Selections
<1>2. Selections(i, 0) = 1
  <2>1. \A S \in SUBSET (1 .. i) : Cardinality(S) = i <=> S = 1 .. i
    BY FiniteSubsets
  <2>2. Picks(i, i) = {1 .. i}
    BY <2>1 DEF Picks
  <2>3. 0 + i = i
    OBVIOUS
  <2>4. Picks(i, 0 + i) = {1 .. i}
    BY <2>2, <2>3, Zenon
  <2> QED
    BY <2>4, FS_Singleton DEF Selections
<1> QED
  BY <1>1, <1>2

LEMMA ChoicesNat == ASSUME NEW i \in Nat, NEW m \in Nat PROVE Selections(i, m) \in Nat \ {0}
<1> DEFINE W == {p \in Nat \X Nat : Selections(p[1], p[2]) \in Nat \ {0}}
<1>1. ASSUME NEW a \in Nat, NEW b \in Nat, \A p, q \in Nat : p + q < a + b => <<p, q>> \in W
      PROVE  <<a, b>> \in W
  <2>1. CASE a = 0 \/ b = 0
    BY <2>1, ChoicesOfNone
  <2>2. CASE a /= 0 /\ b /= 0
    <3>1. Selections(a, b) = Selections(a, b - 1) + Selections(a - 1, b)
      BY <2>2, ChoicesStep
    <3>2. <<a, b - 1>> \in W /\ <<a - 1, b>> \in W
      BY <1>1, <2>2
    <3> QED
      BY <3>1, <3>2
  <2> QED
    BY <2>1, <2>2
<1>2. \A a, b \in Nat : <<a, b>> \in W
  <2> HIDE DEF W
  <2> QED
    BY <1>1, PairInduction
<1>3. <<i, m>> \in W
  BY <1>2
<1> QED
  BY <1>3

\* i C(m + i - 1, i) = m C(m + i - 1, i - 1).
Absorbs(i, m) == i * Selections(i, m - 1) = m * Selections(i - 1, m)

LEMMA AbsorbStep ==
  ASSUME NEW a \in Int, NEW b \in Int, NEW x \in Int, NEW y \in Int, NEW z \in Int,
         a * y = (b - 1) * x, (a - 1) * x = b * z
  PROVE  a * (y + x) = b * (x + z)
<1>1. a * (y + x) = a * y + a * x /\ b * (x + z) = b * x + b * z
  OBVIOUS
<1>2. (b - 1) * x = b * x - x /\ (a - 1) * x = a * x - x
  OBVIOUS
<1> DEFINE ay == a * y
           ax == a * x
           bx == b * x
           bz == b * z
<1>3. ay \in Int /\ ax \in Int /\ bx \in Int /\ bz \in Int
  OBVIOUS
<1>4. ay = bx - x /\ ax - x = bz
  BY <1>2
<1>5. ay + ax = bx + bz
  <2> HIDE DEF ay, ax, bx, bz
  <2> QED
    BY <1>3, <1>4
<1> QED
  BY <1>1, <1>5

LEMMA ChoicesAbsorb == ASSUME NEW i \in Nat \ {0}, NEW m \in Nat \ {0} PROVE Absorbs(i, m)
<1> DEFINE W == {p \in Nat \X Nat : p[1] /= 0 /\ p[2] /= 0 => Absorbs(p[1], p[2])}
<1>1. ASSUME NEW a \in Nat, NEW b \in Nat, \A p, q \in Nat : p + q < a + b => <<p, q>> \in W
      PROVE  <<a, b>> \in W
  <2> SUFFICES ASSUME a /= 0, b /= 0 PROVE Absorbs(a, b)
    OBVIOUS
  <2> DEFINE x == Selections(a - 1, b - 1)
             y == IF b = 1 THEN 0 ELSE Selections(a, b - 2)
             z == IF a = 1 THEN 0 ELSE Selections(a - 2, b)
  <2>1. Selections(a, b - 1) = y + x
    <3>1. CASE b = 1
      <4>1. Selections(a, b - 1) = 1 /\ Selections(a - 1, b - 1) = 1
        BY <3>1, ChoicesOfNone
      <4> QED
        BY <3>1, <4>1
    <3>2. CASE b /= 1
      <4>1. b - 1 \in Nat \ {0} /\ (b - 1) - 1 = b - 2
        BY <3>2
      <4>2. Selections(a, b - 1) = Selections(a, (b - 1) - 1) + Selections(a - 1, b - 1)
        BY <4>1, ChoicesStep
      <4> QED
        BY <3>2, <4>1, <4>2
    <3> QED
      BY <3>1, <3>2
  <2>2. Selections(a - 1, b) = x + z
    <3>1. CASE a = 1
      <4>1. Selections(a - 1, b) = 1 /\ Selections(a - 1, b - 1) = 1
        BY <3>1, ChoicesOfNone
      <4> QED
        BY <3>1, <4>1
    <3>2. CASE a /= 1
      <4>1. a - 1 \in Nat \ {0} /\ (a - 1) - 1 = a - 2
        BY <3>2
      <4>2. Selections(a - 1, b) = Selections(a - 1, b - 1) + Selections((a - 1) - 1, b)
        BY <4>1, ChoicesStep
      <4> QED
        BY <3>2, <4>1, <4>2
    <3> QED
      BY <3>1, <3>2
  <2>3. a * y = (b - 1) * x
    <3>1. CASE b = 1
      <4>1. x \in Nat
        BY ChoicesNat
      <4> QED
        BY <3>1, <4>1
    <3>2. CASE b /= 1
      <4>1. b - 1 \in Nat /\ b - 1 /= 0 /\ a + (b - 1) < a + b /\ (b - 1) - 1 = b - 2
        BY <3>2
      <4>2. Absorbs(a, b - 1)
        BY <1>1, <4>1
      <4> QED
        BY <3>2, <4>1, <4>2 DEF Absorbs
    <3> QED
      BY <3>1, <3>2
  <2>4. (a - 1) * x = b * z
    <3>1. CASE a = 1
      <4>1. x \in Nat
        BY ChoicesNat
      <4> QED
        BY <3>1, <4>1
    <3>2. CASE a /= 1
      <4>1. a - 1 \in Nat /\ a - 1 /= 0 /\ (a - 1) + b < a + b /\ (a - 1) - 1 = a - 2
        BY <3>2
      <4>2. Absorbs(a - 1, b)
        BY <1>1, <4>1
      <4> QED
        BY <3>2, <4>1, <4>2 DEF Absorbs
    <3> QED
      BY <3>1, <3>2
  <2>5. x \in Int /\ y \in Int /\ z \in Int
    <3>1. b /= 1 => Selections(a, b - 2) \in Nat
      BY ChoicesNat
    <3>2. a /= 1 => Selections(a - 2, b) \in Nat
      BY ChoicesNat
    <3>3. x \in Nat
      BY ChoicesNat
    <3> QED
      BY <3>1, <3>2, <3>3
  <2> HIDE DEF x, y, z
  <2>6. a * (y + x) = b * (x + z)
    BY <2>3, <2>4, <2>5, AbsorbStep
  <2> QED
    BY <2>1, <2>2, <2>6, Zenon DEF Absorbs
<1>2. \A a, b \in Nat : <<a, b>> \in W
  <2> HIDE DEF W
  <2> QED
    BY <1>1, PairInduction
<1>3. <<i, m>> \in W
  BY <1>2
<1> QED
  BY <1>3

\* k C(n, k) = n C(n - 1, k - 1).
LEMMA ChoicesScale ==
  ASSUME NEW i \in Nat \ {0}, NEW m \in Nat \ {0} PROVE i * Selections(i, m) = (m + i) * Selections(i - 1, m)
<1> DEFINE x == Selections(i, m - 1)
           y == Selections(i - 1, m)
<1>1. Selections(i, m) = x + y /\ i * x = m * y
  BY ChoicesStep, ChoicesAbsorb DEF Absorbs
<1>2. x \in Nat /\ y \in Nat
  <2>1. i - 1 \in Nat /\ m - 1 \in Nat
    OBVIOUS
  <2>2. Selections(i, m - 1) \in Nat \ {0} /\ Selections(i - 1, m) \in Nat \ {0}
    BY <2>1, ChoicesNat
  <2> QED
    BY <2>2
<1> HIDE DEF x, y
<1>3. i * (x + y) = i * x + i * y /\ (m + i) * y = m * y + i * y
  BY <1>2
<1>4. i * (x + y) = (m + i) * y
  BY <1>1, <1>3, Zenon
<1> QED
  BY <1>1, <1>4, Zenon DEF y

-----------------------------------------------------------------------------
(* One factor of the Gaussian binomial. *)

\* A sum over numbers in order.
LEMMA SumInOrder ==
  ASSUME NEW g, NEW n \in Nat, Integers(g, n) PROVE SumTo(g, n) = SumOver(g, 1 .. n)
<1> DEFINE f == Sums(g, n)
           Bad == {t \in 0 .. n : f[t] /= SumOver(g, 1 .. t)}
<1>1. f[0] = 0 /\ (\A i \in 1 .. n : f[i] = f[i - 1] + g[i]) /\ \A i \in 0 .. n : f[i] \in Int
  BY SumsGrow
<1> HIDE DEF f
<1>2. Bad = {}
  <2> SUFFICES ASSUME Bad /= {} PROVE FALSE
    OBVIOUS
  <2>1. PICK t \in Bad : \A s \in Bad : t <= s
    <3>1. Bad \in SUBSET Nat
      OBVIOUS
    <3> HIDE DEF Bad
    <3> QED
      BY <3>1, Least
  <2>2. t \in 0 .. n /\ f[t] /= SumOver(g, 1 .. t)
    OBVIOUS
  <2>3. t /= 0
    <3>1. 1 .. 0 = {}
      OBVIOUS
    <3>2. SumOver(g, 1 .. 0) = 0
      BY <3>1, SumEmpty, Zenon
    <3> QED
      BY <1>1, <2>2, <3>2
  <2>4. t - 1 \in 0 .. n /\ f[t - 1] = SumOver(g, 1 .. t - 1)
    <3>1. t - 1 \in 0 .. n /\ ~(t <= t - 1)
      BY <2>2, <2>3
    <3>2. t - 1 \notin Bad
      <4> HIDE DEF Bad
      <4> QED
        BY <2>1, <3>1
    <3> QED
      BY <3>1, <3>2
  <2>5. SumOver(g, (1 .. t - 1) \union {t}) = SumOver(g, 1 .. t - 1) + g[t]
    <3>1. t - 1 \in Nat /\ t \notin 1 .. t - 1 /\ \A x \in (1 .. t - 1) \union {t} : x \in 1 .. n
      BY <2>2, <2>4
    <3>2. IsFiniteSet(1 .. t - 1) /\ IntegersOn(g, (1 .. t - 1) \union {t})
      BY <3>1, FiniteSubsets DEF IntegersOn, Integers
    <3> QED
      BY <3>1, <3>2, SumAdd
  <2>6. (1 .. t - 1) \union {t} = 1 .. t
    BY <2>2, <2>3
  <2>7. SumOver(g, 1 .. t) = SumOver(g, 1 .. t - 1) + g[t]
    BY <2>5, <2>6, Zenon
  <2>8. f[t] = f[t - 1] + g[t]
    BY <1>1, <2>2, <2>3
  <2> QED
    BY <2>2, <2>4, <2>7, <2>8
<1>3. n \notin Bad
  BY <1>2
<1> QED
  BY <1>3 DEF SumTo, f

-----------------------------------------------------------------------------
\* Every i-th place from j down to 0, and how many choices there are for one of them.
Steps(j, i) == {t \in 0 .. j : \E c \in Nat : t = j - c * i}
UAt(i, m) == [t \in Int |-> UCount(i, m, t)]
UDivided(i, m, j) == SumOver(UAt(i - 1, m), Steps(j, i))

\* The first of these places is j, the others are those from j - i down.
LEMMA StepsDown ==
  ASSUME NEW i \in Nat \ {0}, NEW j \in Nat
  PROVE  Steps(j, i) = Steps(j - i, i) \union {j} /\ j \notin Steps(j - i, i)
<1>1. ASSUME NEW t \in Steps(j, i), t /= j PROVE t \in Steps(j - i, i)
  <2>1. PICK c \in Nat : t = j - c * i
    BY DEF Steps
  <2>2. c /= 0
    BY <1>1, <2>1
  <2>3. c - 1 \in Nat /\ (c - 1) * i = c * i - i /\ c * i \in Nat /\ (c - 1) * i \in Nat
    BY <2>2
  <2>4. t = (j - i) - (c - 1) * i /\ t <= j - i /\ t \in 0 .. j
    <3> DEFINE p == c * i
               q == (c - 1) * i
    <3>1. t = j - p /\ q = p - i /\ p \in Nat /\ q \in Nat /\ t \in 0 .. j
      BY <2>1, <2>3 DEF Steps
    <3> HIDE DEF p, q
    <3>2. t = (j - i) - q /\ t <= j - i /\ t \in 0 .. j
      BY <3>1
    <3> QED
      BY <3>2 DEF q
  <2> QED
    BY <2>3, <2>4 DEF Steps
<1>2. ASSUME NEW t \in Steps(j - i, i) PROVE t \in Steps(j, i) /\ t /= j
  <2>1. PICK c \in Nat : t = (j - i) - c * i
    BY DEF Steps
  <2>2. c + 1 \in Nat /\ (c + 1) * i = c * i + i /\ c * i \in Nat
    OBVIOUS
  <2>3. t = j - (c + 1) * i /\ t \in 0 .. j /\ t /= j
    <3> DEFINE p == c * i
               q == (c + 1) * i
    <3>1. t = (j - i) - p /\ q = p + i /\ p \in Nat /\ t \in 0 .. j - i
      BY <2>1, <2>2 DEF Steps
    <3> HIDE DEF p, q
    <3>2. t = j - q /\ t \in 0 .. j /\ t /= j
      BY <3>1
    <3> QED
      BY <3>2 DEF q
  <2> QED
    BY <2>2, <2>3 DEF Steps
<1>3. j \in Steps(j, i)
  <2>1. j = j - 0 * i
    OBVIOUS
  <2> QED
    BY <2>1 DEF Steps
<1> QED
  BY <1>1, <1>2, <1>3

LEMMA StepsNone == ASSUME NEW i \in Nat, NEW j \in Int, j < 0 PROVE Steps(j, i) = {}
  BY DEF Steps

\* What division by 1 - x^i gives at j, from what it gives at j - i.
LEMMA DividedStep ==
  ASSUME NEW i \in Nat \ {0}, NEW m \in Nat, NEW j \in Int
  PROVE  /\ UDivided(i, m, j) \in Int
         /\ UDivided(i, m, j) = UDivided(i, m, j - i) + UCount(i - 1, m, j)
         /\ j < 0 => UDivided(i, m, j) = 0
<1>1. i - 1 \in Nat
  OBVIOUS
<1>2. \A S \in SUBSET Int : IntegersOn(UAt(i - 1, m), S)
  BY <1>1, UIsNat DEF IntegersOn, UAt
<1>3. \A a \in Int : IsFiniteSet(Steps(a, i)) /\ Steps(a, i) \in SUBSET Int
  <2> TAKE a \in Int
  <2>1. Steps(a, i) \in SUBSET (0 .. a) /\ IsFiniteSet(0 .. a)
    BY FS_Interval DEF Steps
  <2>2. IsFiniteSet(Steps(a, i))
    BY <2>1, FS_Subset
  <2> QED
    BY <2>1, <2>2
<1>4. \A a \in Int : UDivided(i, m, a) \in Int
  BY <1>2, <1>3, SumInt DEF UDivided
<1>5. \A a \in Int : a < 0 => UDivided(i, m, a) = 0
  <2> SUFFICES ASSUME NEW a \in Int, a < 0 PROVE UDivided(i, m, a) = 0
    OBVIOUS
  <2>1. Steps(a, i) = {}
    BY StepsNone
  <2> QED
    BY <2>1, SumEmpty, Zenon DEF UDivided
<1>6. UDivided(i, m, j) = UDivided(i, m, j - i) + UCount(i - 1, m, j)
  <2>1. CASE j < 0
    <3>1. UDivided(i, m, j - i) = 0 /\ UDivided(i, m, j) = 0 /\ UCount(i - 1, m, j) = 0
      BY <1>1, <1>5, <2>1, UEnds
    <3> QED
      BY <3>1
  <2>2. CASE j >= 0
    <3>1. Steps(j, i) = Steps(j - i, i) \union {j} /\ j \notin Steps(j - i, i) /\ j - i \in Int
      BY <2>2, StepsDown
    <3>2. IntegersOn(UAt(i - 1, m), Steps(j - i, i) \union {j})
      BY <1>2, <1>3, <3>1
    <3>3. SumOver(UAt(i - 1, m), Steps(j - i, i) \union {j}) = SumOver(UAt(i - 1, m), Steps(j - i, i)) + UAt(i - 1, m)[j]
      BY <1>3, <3>1, <3>2, SumAdd
    <3>4. UAt(i - 1, m)[j] = UCount(i - 1, m, j)
      BY DEF UAt
    <3> QED
      BY <3>1, <3>3, <3>4, Zenon DEF UDivided
  <2> QED
    BY <2>1, <2>2
<1> QED
  BY <1>4, <1>5, <1>6

\* Division by 1 - x^i and multiplication by 1 - x^(m + i).
UFactor(i, m, j) == UDivided(i, m, j) - UDivided(i, m, (j - i) - m) = UCount(i, m, j)

\* The counts for i of m + i are those for i - 1 times (1 - x^(m + i)) / (1 - x^i).
LEMMA UFactors ==
  ASSUME NEW i \in Nat \ {0}, NEW m \in Nat \ {0}, NEW j \in Int PROVE UFactor(i, m, j)
<1>1. ASSUME NEW t \in Int, t < 0 PROVE UFactor(i, m, t)
  <2>1. UDivided(i, m, t) = 0 /\ UDivided(i, m, (t - i) - m) = 0 /\ UCount(i, m, t) = 0
    BY <1>1, DividedStep, UEnds
  <2> QED
    BY <2>1 DEF UFactor
<1> DEFINE Bad == {t \in Nat : ~UFactor(i, m, t)}
<1>2. Bad = {}
  <2> SUFFICES ASSUME Bad /= {} PROVE FALSE
    OBVIOUS
  <2>1. PICK t \in Bad : \A s \in Bad : t <= s
    <3>1. Bad \in SUBSET Nat
      OBVIOUS
    <3> HIDE DEF Bad
    <3> QED
      BY <3>1, Least
  <2>2. t \in Nat /\ ~UFactor(i, m, t)
    OBVIOUS
  <2>3. UFactor(i, m, t - i)
    <3>1. CASE t - i < 0
      BY <1>1, <2>2, <3>1
    <3>2. CASE t - i >= 0
      <4>1. t - i \in Nat /\ ~(t <= t - i)
        BY <2>2, <3>2
      <4>2. t - i \notin Bad
        <5> HIDE DEF Bad
        <5> QED
          BY <2>1, <4>1
      <4> QED
        BY <4>1, <4>2
    <3> QED
      BY <2>2, <3>1, <3>2
  <2> DEFINE x == (t - i) - m
  <2>4. x \in Int /\ ((t - i) - i) - m = x - i /\ t - i \in Int /\ x - i \in Int
    BY <2>2
  <2> HIDE DEF Bad, x
  <2>5. UDivided(i, m, t) = UDivided(i, m, t - i) + UCount(i - 1, m, t)
    BY <2>2, DividedStep
  <2>6. UDivided(i, m, x) = UDivided(i, m, x - i) + UCount(i - 1, m, x)
    BY <2>4, DividedStep
  <2>7. UDivided(i, m, t - i) - UDivided(i, m, x - i) = UCount(i, m, t - i)
    BY <2>3, <2>4 DEF UFactor
  <2>8. UCount(i, m, t) - UCount(i, m, t - i) = UCount(i - 1, m, t) - UCount(i - 1, m, x)
    BY <2>2, UDifference DEF x
  <2>9. /\ UDivided(i, m, t - i) \in Int /\ UDivided(i, m, x - i) \in Int /\ UCount(i - 1, m, t) \in Nat
        /\ UCount(i - 1, m, x) \in Nat /\ UCount(i, m, t) \in Nat /\ UCount(i, m, t - i) \in Nat
    <3>1. i - 1 \in Nat
      OBVIOUS
    <3> QED
      BY <2>2, <2>4, <3>1, DividedStep, UIsNat
  <2>10. UDivided(i, m, t) - UDivided(i, m, x) = UCount(i, m, t)
    BY <2>5, <2>6, <2>7, <2>8, <2>9
  <2> QED
    BY <2>2, <2>10 DEF UFactor, x
<1>3. CASE j < 0
  BY <1>1, <1>3
<1>4. CASE j >= 0
  <2>1. j \in Nat /\ j \notin Bad
    <3> HIDE DEF Bad
    <3> QED
      BY <1>2, <1>4
  <2> QED
    BY <2>1
<1> QED
  BY <1>3, <1>4

-----------------------------------------------------------------------------
(* The factors of rank_sum_exact_lower_tail. *)

\* The numbers p are the shares of the choices, for each U up to u.
Tells(p, i, m, u) == \A j \in 0 .. u : p[j] \in Fraction /\ Is(p[j], UCount(i, m, j), Selections(i, m))

\* The places that divided of Factor adds up, from j down by i.
Back(j, i, c) == j - (c - 1) * i

GoBack(j, i, n) ==
  /\ \A c \in 1 .. n : Back(j, i, c) \in 0 .. j
  /\ \A c, d \in 1 .. n : Back(j, i, c) = Back(j, i, d) => c = d
  /\ {Back(j, i, c) : c \in 1 .. n} = Steps(j, i)

LEMMA BackIs ==
  ASSUME NEW i \in Nat \ {0}, NEW j \in Nat, NEW n \in Nat, n = j \div i + 1 PROVE GoBack(j, i, n)
<1>1. ASSUME NEW c \in 1 .. n
      PROVE  c - 1 \in Nat /\ (c - 1) * i \in Nat /\ (c - 1) * i <= j
  <2>1. c - 1 \in Nat /\ j \div i \in Nat /\ j \div i >= c - 1
    BY Fills
  <2>2. j >= i * (c - 1)
    BY <2>1, Fills
  <2>3. i * (c - 1) = (c - 1) * i /\ (c - 1) * i \in Nat
    BY <2>1
  <2> QED
    BY <2>1, <2>2, <2>3
<1>2. ASSUME NEW c \in 1 .. n PROVE Back(j, i, c) \in 0 .. j
  <2> DEFINE q == (c - 1) * i
  <2>1. q \in Nat /\ q <= j
    BY <1>1
  <2> HIDE DEF q
  <2>2. j - q \in 0 .. j
    BY <2>1
  <2> QED
    BY <2>2 DEF Back, q
<1>3. ASSUME NEW c \in 1 .. n, NEW d \in 1 .. n, Back(j, i, c) = Back(j, i, d) PROVE c = d
  <2> DEFINE p == (c - 1) * i
             q == (d - 1) * i
  <2>1. p \in Nat /\ q \in Nat
    BY <1>1
  <2>2. j - p = j - q
    BY <1>3 DEF Back
  <2>3. p = q
    <3> HIDE DEF p, q
    <3> QED
      BY <2>1, <2>2
  <2>4. c - 1 = d - 1
    BY <2>3, Cancelled
  <2> QED
    BY <2>4
<1>4. ASSUME NEW t \in Steps(j, i) PROVE \E c \in 1 .. n : t = Back(j, i, c)
  <2>1. PICK c \in Nat : t = j - c * i
    BY DEF Steps
  <2>2. t \in 0 .. j
    BY DEF Steps
  <2>3. c * i \in Nat /\ c * i = i * c
    OBVIOUS
  <2>4. j >= i * c
    <3> DEFINE q == c * i
    <3>1. q \in Nat /\ t = j - q /\ t \in 0 .. j
      BY <2>1, <2>2, <2>3
    <3> HIDE DEF q
    <3>2. j >= q
      BY <3>1
    <3> QED
      BY <2>3, <3>2 DEF q
  <2>5. j \div i >= c /\ j \div i \in Nat
    BY <2>4, Fills
  <2>6. c + 1 \in 1 .. n /\ (c + 1) - 1 = c
    BY <2>5
  <2>7. Back(j, i, c + 1) = t
    BY <2>1, <2>6, Zenon DEF Back
  <2> QED
    BY <2>6, <2>7
<1>5. ASSUME NEW c \in 1 .. n PROVE Back(j, i, c) \in Steps(j, i)
  BY <1>1, <1>2 DEF Back, Steps
<1> QED
  BY <1>2, <1>3, <1>4, <1>5 DEF GoBack

\* What divided of Factor stands for.
LEMMA DividedIs ==
  ASSUME NEW i \in Nat \ {0}, NEW m \in Nat, NEW u \in Nat, NEW p, Tells(p, i - 1, m, u), NEW j \in 0 .. u
  PROVE  LET d == WA!Total([c \in 1 .. j \div i + 1 |-> p[j - (c - 1) * i]])
         IN d \in Fraction /\ Is(d, UDivided(i, m, j), Selections(i - 1, m))
<1> DEFINE n == j \div i + 1
           xs == [c \in 1 .. n |-> p[Back(j, i, c)]]
           g == [c \in 1 .. n |-> UCount(i - 1, m, Back(j, i, c))]
           back == [c \in 1 .. n |-> Back(j, i, c)]
<1>1. n \in Nat /\ i - 1 \in Nat /\ n = j \div i + 1 /\ j \in Nat
  BY Fills
<1> HIDE DEF n
<1>2. /\ \A c \in 1 .. n : Back(j, i, c) \in 0 .. j
      /\ \A c, d \in 1 .. n : Back(j, i, c) = Back(j, i, d) => c = d
      /\ {Back(j, i, c) : c \in 1 .. n} = Steps(j, i)
  <2>1. GoBack(j, i, n)
    BY <1>1, BackIs
  <2> QED
    BY <2>1 DEF GoBack
<1>3. /\ \A c \in 1 .. n : back[c] = Back(j, i, c) /\ xs[c] = p[Back(j, i, c)] /\ g[c] = UCount(i - 1, m, Back(j, i, c))
      /\ xs = [c \in 1 .. n |-> xs[c]]
  OBVIOUS
<1>4. xs = [c \in 1 .. j \div i + 1 |-> p[j - (c - 1) * i]]
  BY <1>1 DEF Back
<1> HIDE DEF xs, g, back
<1>5. \A c \in 1 .. n : Back(j, i, c) \in 0 .. u /\ Back(j, i, c) \in Int
  BY <1>2
<1>6. \A c \in 1 .. n : xs[c] \in Fraction /\ g[c] \in Int /\ Is(xs[c], g[c], Selections(i - 1, m))
  <2> TAKE c \in 1 .. n
  <2> DEFINE b == Back(j, i, c)
  <2>1. b \in 0 .. u /\ b \in Int /\ xs[c] = p[b] /\ g[c] = UCount(i - 1, m, b)
    BY <1>3, <1>5
  <2> HIDE DEF b
  <2>2. p[b] \in Fraction /\ Is(p[b], UCount(i - 1, m, b), Selections(i - 1, m))
    BY <2>1 DEF Tells
  <2>3. UCount(i - 1, m, b) \in Nat
    BY <1>1, <2>1, UIsNat
  <2> QED
    BY <2>1, <2>2, <2>3
<1>7. xs \in Seq(Fraction) /\ Len(xs) = n
  BY <1>1, <1>3, <1>6, ListIs
<1>8. WA!Total(xs) \in Fraction /\ Is(WA!Total(xs), SumTo(g, n), Selections(i - 1, m))
  <2>1. Selections(i - 1, m) \in Nat \ {0}
    BY <1>1, ChoicesNat
  <2> QED
    BY <1>1, <1>6, <1>7, <2>1, TotalIsSum
<1>9. SumTo(g, n) = UDivided(i, m, j)
  <2>1. Integers(g, n) /\ IntegersOn(g, 1 .. n)
    BY <1>6 DEF Integers, IntegersOn
  <2>2. SumTo(g, n) = SumOver(g, 1 .. n)
    BY <1>1, <2>1, SumInOrder
  <2>3. \A c \in 1 .. n : UAt(i - 1, m)[back[c]] = g[c]
    BY <1>3, <1>5 DEF UAt
  <2>4. \A c, d \in 1 .. n : back[c] = back[d] => c = d
    BY <1>2, <1>3
  <2>5. SumOver(g, 1 .. n) = SumOver(UAt(i - 1, m), {back[c] : c \in 1 .. n})
    <3>1. IsFiniteSet(1 .. n)
      BY <1>1, FiniteSubsets
    <3> DEFINE G == UAt(i - 1, m)
               S == 1 .. n
    <3>2. Moves(back, S, g, G)
      BY <2>3, <2>4 DEF Moves
    <3>3. IsFiniteSet(S) /\ IntegersOn(g, S)
      BY <2>1, <3>1
    <3> HIDE DEF G, S
    <3>4. SumOver(g, S) = SumOver(G, {back[c] : c \in S})
      BY <3>2, <3>3, SumMoved
    <3> QED
      BY <3>4 DEF G, S
  <2>6. {back[c] : c \in 1 .. n} = Steps(j, i)
    BY <1>2, <1>3
  <2> QED
    BY <2>2, <2>5, <2>6, Zenon DEF UDivided
<1> QED
  BY <1>4, <1>8, <1>9, Zenon

\* One factor of the product takes the shares for i - 1 to those for i.
LEMMA FactorIs ==
  ASSUME NEW i \in Nat \ {0}, NEW m \in Nat \ {0}, NEW u \in Nat, NEW p, Tells(p, i - 1, m, u)
  PROVE  Tells(SA!Factor(p, u, m, i), i, m, u)
<1> DEFINE d == [j \in 0 .. u |-> WA!Total([c \in 1 .. j \div i + 1 |-> p[j - (c - 1) * i]])]
           D == Selections(i - 1, m)
           r == WA!Rat(i, m + i)
           e(j) == IF j >= m + i THEN WA!Sub(d[j], d[j - m - i]) ELSE d[j]
<1>1. SA!Factor(p, u, m, i) = [j \in 0 .. u |-> WA!Mul(r, e(j))]
  <2> DEFINE sd == [j \in 0 .. u |-> SA!Total([c \in 1 .. j \div i + 1 |-> p[j - (c - 1) * i]])]
  <2>1. SA!Factor(p, u, m, i)
          = [j \in 0 .. u |-> SA!Mul(SA!Rat(i, m + i), IF j >= m + i THEN SA!Sub(sd[j], sd[j - m - i]) ELSE sd[j])]
    BY DEF SA!Factor
  <2>2. sd = d
    BY SameTotal
  <2> HIDE DEF sd, d
  <2> QED
    BY <2>1, <2>2, SameArithmetic, SameRat
<1>2. D \in Nat \ {0} /\ Selections(i, m) \in Nat \ {0} /\ i * Selections(i, m) = (m + i) * D
  <2>1. i - 1 \in Nat
    OBVIOUS
  <2> QED
    BY <2>1, ChoicesNat, ChoicesScale
<1>3. \A j \in 0 .. u : d[j] \in Fraction /\ Is(d[j], UDivided(i, m, j), D)
  <2> TAKE j \in 0 .. u
  <2> DEFINE t == WA!Total([c \in 1 .. j \div i + 1 |-> p[j - (c - 1) * i]])
  <2>1. t \in Fraction /\ Is(t, UDivided(i, m, j), D)
    BY DividedIs
  <2>2. d[j] = t
    OBVIOUS
  <2> HIDE DEF t, d, D
  <2> QED
    BY <2>1, <2>2
<1> HIDE DEF d
<1>4. ASSUME NEW j \in 0 .. u PROVE e(j) \in Fraction /\ Is(e(j), UCount(i, m, j), D)
  <2>1. j \in Int /\ (j - i) - m = j - m - i /\ j - m - i \in Int
    OBVIOUS
  <2>2. UDivided(i, m, j) - UDivided(i, m, j - m - i) = UCount(i, m, j)
    BY <2>1, UFactors, Zenon DEF UFactor
  <2>3. UDivided(i, m, j) \in Int /\ UDivided(i, m, j - m - i) \in Int /\ UCount(i, m, j) \in Nat
    BY <2>1, DividedStep, UIsNat
  <2>4. CASE j >= m + i
    <3>1. j - m - i \in 0 .. u
      BY <2>4
    <3> DEFINE x == d[j]
               y == d[j - m - i]
               a == UDivided(i, m, j)
               b == UDivided(i, m, j - m - i)
    <3>2. x \in Fraction /\ Is(x, a, D) /\ y \in Fraction /\ Is(y, b, D) /\ a \in Int /\ b \in Int
      BY <1>3, <2>3, <3>1
    <3>3. e(j) = WA!Sub(x, y) /\ a - b = UCount(i, m, j)
      BY <2>2, <2>4
    <3> HIDE DEF x, y, a, b, D
    <3>4. WA!Sub(x, y) \in Fraction /\ Is(WA!Sub(x, y), a * D - b * D, D * D)
      BY <1>2, <3>2, AddOf
    <3>5. Is(WA!Sub(x, y), a - b, D)
      <4>1. (a * D - b * D) * D = (a - b) * (D * D) /\ a * D - b * D \in Int /\ D * D \in Nat \ {0} /\ a - b \in Int
        <5>1. D \in Int /\ D * D \in Nat \ {0}
          BY <1>2, ProductIs
        <5>2. (a - b) * D = a * D - b * D
          BY <3>2, <5>1, Distributed
        <5>3. (a - b) * (D * D) = ((a - b) * D) * D
          BY <3>2, <5>1, Regroup
        <5>4. a * D - b * D \in Int /\ a - b \in Int
          BY <3>2, <5>1
        <5> QED
          BY <5>1, <5>2, <5>3, <5>4, Zenon
      <4> QED
        BY <1>2, <3>4, <4>1, Through
    <3> QED
      BY <3>3, <3>4, <3>5, Zenon
  <2>5. CASE ~(j >= m + i)
    <3>1. UDivided(i, m, j - m - i) = 0
      BY <2>1, <2>5, DividedStep
    <3>2. UDivided(i, m, j) = UCount(i, m, j)
      BY <2>2, <2>3, <3>1
    <3> QED
      BY <1>3, <2>5, <3>2
  <2> QED
    BY <2>4, <2>5
<1>5. ASSUME NEW j \in 0 .. u
      PROVE  WA!Mul(r, e(j)) \in Fraction /\ Is(WA!Mul(r, e(j)), UCount(i, m, j), Selections(i, m))
  <2> DEFINE x == e(j)
             a == UCount(i, m, j)
             C == Selections(i, m)
  <2>1. r \in Fraction /\ Is(r, i, m + i) /\ m + i \in Nat \ {0}
    BY RatIs, RatValue
  <2>2. x \in Fraction /\ Is(x, a, D) /\ a \in Int
    BY <1>4, UIsNat
  <2> HIDE DEF x, a, C, r, D
  <2>3. WA!Mul(r, x) \in Fraction /\ Is(WA!Mul(r, x), i * a, (m + i) * D)
    BY <1>2, <2>1, <2>2, MulOf
  <2>4. Is(WA!Mul(r, x), a, C)
    <3>1. (i * a) * C = a * ((m + i) * D)
      <4>1. C \in Int /\ D \in Int
        BY <1>2 DEF C
      <4>2. (i * a) * C = (i * C) * a
        BY <2>2, <4>1, Swapped
      <4>3. i * C = (m + i) * D
        BY <1>2 DEF C
      <4>4. ((m + i) * D) * a = a * ((m + i) * D)
        BY <2>1, <2>2, <4>1
      <4> QED
        BY <4>2, <4>3, <4>4, Zenon
    <3>2. i * a \in Int /\ (m + i) * D \in Nat \ {0} /\ C \in Int
      BY <1>2, <2>1, <2>2, ProductIs DEF C
    <3> QED
      BY <2>2, <2>3, <3>1, <3>2, Through
  <2> QED
    BY <2>3, <2>4 DEF x, a, C
<1> HIDE DEF e, r
<1> QED
  BY <1>1, <1>5 DEF Tells

-----------------------------------------------------------------------------
(* The lower tail. *)

\* The products of Coefficients, by its recursion.
AreFactors(m, u, n, f) ==
  f = [i \in 0 .. n |-> IF i = 0 THEN [j \in 0 .. u |-> IF j = 0 THEN SA!One ELSE SA!Zero]
                        ELSE SA!Factor(f[i - 1], u, m, i)]

LEMMA FactorsThere == ASSUME NEW m, NEW u, NEW n \in Nat PROVE \E f : AreFactors(m, u, n, f)
<1> DEFINE first == [j \in 0 .. u |-> IF j = 0 THEN SA!One ELSE SA!Zero]
           missing == {k \in Nat : ~\E f : AreFactors(m, u, k, f)}
<1> HIDE DEF first
<1>1. SUFFICES ASSUME missing /= {} PROVE FALSE
  OBVIOUS
<1>2. PICK k \in missing : \A l \in missing : k <= l
  <2>1. missing \in SUBSET Nat
    OBVIOUS
  <2> HIDE DEF missing
  <2> QED
    BY <1>1, <2>1, Least
<1>3. k \in Nat /\ ~\E f : AreFactors(m, u, k, f)
  OBVIOUS
<1>4. \A l \in Nat : l < k => \E f : AreFactors(m, u, l, f)
  BY <1>2, <1>3
<1> HIDE DEF missing
<1>5. CASE k = 0
  <2> DEFINE f == [i \in 0 .. k |-> first]
  <2>1. AreFactors(m, u, k, f)
    BY <1>5 DEF AreFactors, first
  <2> QED
    BY <1>3, <2>1
<1>6. CASE k > 0
  <2>1. PICK f : AreFactors(m, u, k - 1, f)
    BY <1>3, <1>4, <1>6
  <2> DEFINE g == [i \in 0 .. k |-> IF i = 0 THEN first ELSE SA!Factor(f[i - 1], u, m, i)]
  <2>2. \A i \in 0 .. k - 1 : g[i] = f[i]
    <3>1. f = [i \in 0 .. k - 1 |-> IF i = 0 THEN first ELSE SA!Factor(f[i - 1], u, m, i)]
      BY <2>1, Zenon DEF AreFactors, first
    <3>2. \A i \in 0 .. k - 1 : i \in 0 .. k
      BY <1>3
    <3>3. \A i \in 0 .. k - 1 : f[i] = IF i = 0 THEN first ELSE SA!Factor(f[i - 1], u, m, i)
      BY <3>1, Zenon
    <3> QED
      BY <3>2, <3>3
  <2>3. \A i \in 0 .. k : i /= 0 => g[i - 1] = f[i - 1]
    <3>1. \A i \in 0 .. k : i /= 0 => i - 1 \in 0 .. k - 1
      BY <1>3
    <3> HIDE DEF g
    <3> QED
      BY <2>2, <3>1
  <2>4. g = [i \in 0 .. k |-> IF i = 0 THEN first ELSE SA!Factor(g[i - 1], u, m, i)]
    BY <2>3
  <2> HIDE DEF g
  <2>5. AreFactors(m, u, k, g)
    BY <2>4 DEF AreFactors, first
  <2> QED
    BY <1>3, <2>5
<1> QED
  BY <1>3, <1>5, <1>6

\* The coefficients are the shares of the choices for each U.
LEMMA CoefficientsTell ==
  ASSUME NEW k \in Nat, NEW m \in Nat \ {0}, NEW u \in Nat PROVE Tells(SA!Coefficients(k, m, u), k, m, u)
<1> DEFINE f == CHOOSE g : AreFactors(m, u, k, g)
           Bad == {i \in 0 .. k : ~Tells(f[i], i, m, u)}
<1>1. SA!Coefficients(k, m, u) = f[k]
  BY DEF SA!Coefficients, AreFactors
<1>2. AreFactors(m, u, k, f)
  BY FactorsThere
<1> HIDE DEF f
<1>3. \A i \in 0 .. k : f[i] = IF i = 0 THEN [j \in 0 .. u |-> IF j = 0 THEN SA!One ELSE SA!Zero]
                               ELSE SA!Factor(f[i - 1], u, m, i)
  BY <1>2, Zenon DEF AreFactors
<1>4. Bad = {}
  <2> SUFFICES ASSUME Bad /= {} PROVE FALSE
    OBVIOUS
  <2>1. PICK i \in Bad : \A s \in Bad : i <= s
    <3>1. Bad \in SUBSET Nat
      OBVIOUS
    <3> HIDE DEF Bad
    <3> QED
      BY <3>1, Least
  <2>2. i \in 0 .. k /\ ~Tells(f[i], i, m, u)
    OBVIOUS
  <2>3. i /= 0
    <3>1. f[0] = [j \in 0 .. u |-> IF j = 0 THEN SA!One ELSE SA!Zero]
      BY <1>3
    <3>2. Selections(0, m) = 1 /\ \A j \in 0 .. u : UCount(0, m, j) = IF j = 0 THEN 1 ELSE 0
      BY ChoicesOfNone, UOfNone
    <3>3. SA!One = <<1, 1>> /\ SA!Zero = <<0, 1>>
      BY DEF SA!One, SA!Zero, SA!Whole
    <3>4. Is(<<1, 1>>, 1, 1) /\ Is(<<0, 1>>, 0, 1) /\ <<1, 1>> \in Fraction /\ <<0, 1>> \in Fraction
      BY DEF Is, Fraction
    <3>5. \A j \in 0 .. u : f[0][j] = IF j = 0 THEN <<1, 1>> ELSE <<0, 1>>
      BY <3>1, <3>3
    <3>6. Tells(f[0], 0, m, u)
      BY <3>2, <3>4, <3>5 DEF Tells
    <3> QED
      BY <2>2, <3>6
  <2>4. i - 1 \in 0 .. k /\ ~(i <= i - 1)
    BY <2>2, <2>3
  <2>5. Tells(f[i - 1], i - 1, m, u)
    <3>1. i - 1 \notin Bad
      <4> HIDE DEF Bad
      <4> QED
        BY <2>1, <2>4
    <3> QED
      BY <2>4, <3>1
  <2>6. i \in Nat \ {0}
    BY <2>2, <2>3
  <2>7. Tells(SA!Factor(f[i - 1], u, m, i), i, m, u)
    BY <2>5, <2>6, FactorIs
  <2>8. f[i] = SA!Factor(f[i - 1], u, m, i)
    BY <1>3, <2>2, <2>3
  <2> QED
    BY <2>2, <2>7, <2>8, Zenon
<1>5. k \notin Bad
  BY <1>4
<1> QED
  BY <1>1, <1>5

-----------------------------------------------------------------------------
\* The choices whose sum is not greater.
UpTo(k, n, s) == {S \in Picks(k, n) : SetSum(S) <= s}
DownTo(k, n, s) == {S \in Picks(k, n) : SetSum(S) >= s}

LEMMA PickIs ==
  ASSUME NEW n \in Nat, NEW k, NEW S \in Picks(k, n)
  PROVE  S \in SUBSET (1 .. n) /\ S \in SUBSET Int /\ IsFiniteSet(S) /\ SetSum(S) \in Int /\ Cardinality(S) = k
<1>1. S \in SUBSET (1 .. n) /\ Cardinality(S) = k /\ S \in SUBSET Int
  BY DEF Picks
<1>2. IsFiniteSet(S)
  BY <1>1, FiniteSubsets
<1> QED
  BY <1>1, <1>2, SetSumIs

\* No sum is less than that of the first k numbers.
LEMMA LeastSum ==
  ASSUME NEW k \in Nat, NEW m \in Nat, NEW S \in Picks(k, m + k) PROVE SetSum(S) >= Tri(k)
<1> DEFINE j == SetSum(S) - Tri(k)
<1>1. SetSum(S) \in Int /\ Tri(k) \in Nat
  BY PickIs, TriIs
<1>2. SetSum(S) = Tri(k) + j /\ j \in Int
  BY <1>1
<1> HIDE DEF j
<1>3. S \in SumsTo(k, m + k, Tri(k) + j)
  BY <1>2 DEF SumsTo
<1>4. Count(k, m + k, Tri(k) + j) /= 0
  <2>1. SumsTo(k, m + k, Tri(k) + j) \in SUBSET SUBSET (1 .. m + k)
    BY DEF SumsTo, Picks
  <2>2. IsFiniteSet(SumsTo(k, m + k, Tri(k) + j))
    BY <2>1, FiniteSubsets
  <2> QED
    BY <1>3, <2>2, FS_EmptySet DEF Count
<1>5. UCount(k, m, j) /= 0
  BY <1>4 DEF UCount
<1>6. ~(j < 0)
  BY <1>2, <1>5, UEnds
<1> QED
  BY <1>1, <1>2, <1>6

\* One sum more.
LEMMA UpToStep ==
  ASSUME NEW k \in Nat, NEW n \in Nat, NEW s \in Int
  PROVE  /\ Cardinality(UpTo(k, n, s)) = Cardinality(UpTo(k, n, s - 1)) + Count(k, n, s)
         /\ Cardinality(UpTo(k, n, s)) \in Nat
<1>1. \A t \in Int : IsFiniteSet(UpTo(k, n, t)) /\ IsFiniteSet(SumsTo(k, n, t))
  <2> TAKE t \in Int
  <2>1. UpTo(k, n, t) \in SUBSET SUBSET (1 .. n) /\ SumsTo(k, n, t) \in SUBSET SUBSET (1 .. n)
    BY DEF UpTo, SumsTo, Picks
  <2> QED
    BY <2>1, FiniteSubsets
<1>2. UpTo(k, n, s) = UpTo(k, n, s - 1) \union SumsTo(k, n, s) /\ UpTo(k, n, s - 1) \intersect SumsTo(k, n, s) = {}
  <2>1. \A S \in Picks(k, n) : SetSum(S) \in Int
    BY PickIs
  <2>2. \A S \in Picks(k, n) : SetSum(S) <= s <=> SetSum(S) <= s - 1 \/ SetSum(S) = s
    BY <2>1
  <2>3. \A S \in Picks(k, n) : ~(SetSum(S) <= s - 1 /\ SetSum(S) = s)
    BY <2>1
  <2> QED
    BY <2>2, <2>3 DEF UpTo, SumsTo
<1>3. Cardinality(UpTo(k, n, s - 1) \union SumsTo(k, n, s))
        = Cardinality(UpTo(k, n, s - 1)) + Cardinality(SumsTo(k, n, s))
  BY <1>1, <1>2, CountDisjoint
<1> QED
  BY <1>1, <1>2, <1>3, FS_CardinalityType, Zenon DEF Count

\* rank_sum_exact_lower_tail is exact: its result is the share of the choices of k of m + k ranks whose sum is not
\* greater (libpilot.cc 1381-1402).
THEOREM LowerTailIs ==
  ASSUME NEW k \in Nat, NEW m \in Nat \ {0}, NEW u \in Nat
  PROVE  LET t == SA!LowerTail(k, m, u)
         IN /\ t \in Fraction /\ Coprime(t[1], t[2])
            /\ Is(t, Cardinality(UpTo(k, m + k, Tri(k) + u)), Selections(k, m))
<1> DEFINE p == SA!Coefficients(k, m, u)
           xs == [j \in 1 .. u + 1 |-> p[j - 1]]
           g == [j \in 1 .. u + 1 |-> UCount(k, m, j - 1)]
           f == [j \in 0 .. u + 1 |-> Cardinality(UpTo(k, m + k, Tri(k) + (j - 1)))]
           D == Selections(k, m)
<1>1. Tells(p, k, m, u)
  BY CoefficientsTell
<1>2. SA!LowerTail(k, m, u) = WA!Total(xs)
  BY SameTotal DEF SA!LowerTail, SA!SumUpTo
<1>3. /\ \A j \in 1 .. u + 1 : xs[j] = p[j - 1] /\ g[j] = UCount(k, m, j - 1)
      /\ \A j \in 0 .. u + 1 : f[j] = Cardinality(UpTo(k, m + k, Tri(k) + (j - 1)))
      /\ xs = [j \in 1 .. u + 1 |-> xs[j]]
  OBVIOUS
<1> HIDE DEF p, xs, g, f, D
<1>4. \A j \in 1 .. u + 1 : xs[j] \in Fraction /\ g[j] \in Int /\ Is(xs[j], g[j], D)
  <2> TAKE j \in 1 .. u + 1
  <2>1. j - 1 \in 0 .. u
    OBVIOUS
  <2>2. p[j - 1] \in Fraction /\ Is(p[j - 1], UCount(k, m, j - 1), D)
    BY <1>1, <2>1 DEF Tells, D
  <2> QED
    BY <1>3, <2>2, UIsNat
<1>5. xs \in Seq(Fraction) /\ Len(xs) = u + 1
  <2>1. u + 1 \in Nat
    OBVIOUS
  <2> QED
    BY <1>3, <1>4, <2>1, ListIs
<1>6. Tri(k) \in Nat
  BY TriIs
<1>7. f[0] = 0
  <2>1. \A S \in Picks(k, m + k) : SetSum(S) >= Tri(k) /\ SetSum(S) \in Int
    BY LeastSum, PickIs
  <2>2. UpTo(k, m + k, Tri(k) + (0 - 1)) = {}
    BY <1>6, <2>1 DEF UpTo
  <2> QED
    <3>1. 0 \in 0 .. u + 1
      OBVIOUS
    <3>2. f[0] = Cardinality(UpTo(k, m + k, Tri(k) + (0 - 1)))
      BY <1>3, <3>1
    <3> QED
      BY <2>2, <3>2, FS_EmptySet
<1>8. \A j \in 0 .. u + 1 : f[j] \in Int
  <2> TAKE j \in 0 .. u + 1
  <2>1. Tri(k) + (j - 1) \in Int
    BY <1>6
  <2> QED
    <3>1. m + k \in Nat
      OBVIOUS
    <3>2. Cardinality(UpTo(k, m + k, Tri(k) + (j - 1))) \in Nat
      BY <2>1, <3>1, UpToStep
    <3> QED
      BY <1>3, <3>2
<1>9. \A j \in 1 .. u + 1 : f[j] = f[j - 1] + g[j]
  <2> TAKE j \in 1 .. u + 1
  <2> DEFINE s == Tri(k) + (j - 1)
  <2>1. s \in Int /\ s - 1 = Tri(k) + ((j - 1) - 1) /\ j - 1 \in 0 .. u + 1 /\ j \in 0 .. u + 1
    BY <1>6
  <2>2. Cardinality(UpTo(k, m + k, s)) = Cardinality(UpTo(k, m + k, s - 1)) + Count(k, m + k, s)
    <3> HIDE DEF s
    <3> QED
      BY <2>1, UpToStep
  <2>3. f[j] = Cardinality(UpTo(k, m + k, s)) /\ f[j - 1] = Cardinality(UpTo(k, m + k, s - 1)) /\ g[j] = Count(k, m + k, s)
    BY <1>3, <2>1 DEF UCount
  <2> QED
    BY <2>2, <2>3, Zenon
<1>10. D \in Nat \ {0}
  BY ChoicesNat DEF D
<1>11. WA!Total(xs) \in Fraction /\ Is(WA!Total(xs), f[Len(xs)], D)
  <2>1. /\ \A i \in 0 .. Len(xs) : f[i] \in Int
        /\ \A i \in 1 .. Len(xs) : g[i] \in Int /\ Is(xs[i], g[i], D) /\ f[i] = f[i - 1] + g[i]
    BY <1>4, <1>5, <1>8, <1>9
  <2> QED
    BY <1>5, <1>7, <1>10, <2>1, TotalOf, Zenon
<1>12. f[Len(xs)] = Cardinality(UpTo(k, m + k, Tri(k) + u))
  <2>1. (u + 1) - 1 = u /\ u + 1 \in 0 .. u + 1
    OBVIOUS
  <2> QED
    BY <1>3, <1>5, <2>1
<1>13. Coprime(WA!Total(xs)[1], WA!Total(xs)[2])
  BY <1>5, TotalLowest
<1> QED
  BY <1>2, <1>11, <1>12, <1>13, Zenon DEF D

-----------------------------------------------------------------------------
(* The two-sided p-value. *)

\* Twice the expectation of a rank sum.
Middle(k, m) == k * (m + k + 1)

LEMMA MiddleIs ==
  ASSUME NEW k \in Nat, NEW m \in Nat
  PROVE  Middle(k, m) \in Nat /\ Middle(k, m) = 2 * Tri(k) + k * m /\ k * m \in Nat /\ Tri(k) \in Nat
<1>1. Tri(k) \in Nat /\ 2 * Tri(k) = k * (k + 1)
  BY TriIs
<1>2. k * (m + k + 1) = k * (k + 1) + k * m /\ k * m \in Nat /\ k * (m + k + 1) \in Nat
  OBVIOUS
<1> QED
  BY <1>1, <1>2, Zenon DEF Middle

\* As many choices are below the expectation as above.
LEMMA CountSymmetric ==
  ASSUME NEW k \in Nat, NEW m \in Nat, NEW s \in Int
  PROVE  Count(k, m + k, s) = Count(k, m + k, Middle(k, m) - s)
<1> DEFINE j == s - Tri(k)
           h == k * m
<1>1. Tri(k) \in Nat /\ h \in Nat /\ Middle(k, m) = 2 * Tri(k) + h
  BY MiddleIs
<1>2. j \in Int /\ s = Tri(k) + j
  BY <1>1
<1>3. UCount(k, m, j) = UCount(k, m, h - j)
  BY <1>2, USymmetric DEF USame
<1> HIDE DEF j, h
<1>4. Tri(k) + (h - j) = Middle(k, m) - s
  BY <1>1, <1>2
<1> QED
  BY <1>2, <1>3, <1>4, Zenon DEF UCount

\* One sum less.
LEMMA DownToStep ==
  ASSUME NEW k \in Nat, NEW n \in Nat, NEW s \in Int
  PROVE  /\ Cardinality(DownTo(k, n, s)) = Cardinality(DownTo(k, n, s + 1)) + Count(k, n, s)
         /\ Cardinality(DownTo(k, n, s)) \in Nat
<1>1. \A t \in Int : IsFiniteSet(DownTo(k, n, t)) /\ IsFiniteSet(SumsTo(k, n, t))
  <2> TAKE t \in Int
  <2>1. DownTo(k, n, t) \in SUBSET SUBSET (1 .. n) /\ SumsTo(k, n, t) \in SUBSET SUBSET (1 .. n)
    BY DEF DownTo, SumsTo, Picks
  <2> QED
    BY <2>1, FiniteSubsets
<1>2. DownTo(k, n, s) = DownTo(k, n, s + 1) \union SumsTo(k, n, s) /\ DownTo(k, n, s + 1) \intersect SumsTo(k, n, s) = {}
  <2>1. \A S \in Picks(k, n) : SetSum(S) \in Int
    BY PickIs
  <2>2. \A S \in Picks(k, n) : SetSum(S) >= s <=> SetSum(S) >= s + 1 \/ SetSum(S) = s
    BY <2>1
  <2>3. \A S \in Picks(k, n) : ~(SetSum(S) >= s + 1 /\ SetSum(S) = s)
    BY <2>1
  <2> QED
    BY <2>2, <2>3 DEF DownTo, SumsTo
<1>3. Cardinality(DownTo(k, n, s + 1) \union SumsTo(k, n, s))
        = Cardinality(DownTo(k, n, s + 1)) + Cardinality(SumsTo(k, n, s))
  <2>1. s + 1 \in Int
    OBVIOUS
  <2>2. IsFiniteSet(DownTo(k, n, s + 1)) /\ IsFiniteSet(SumsTo(k, n, s))
    BY <1>1, <2>1
  <2> QED
    BY <2>2, <1>2, CountDisjoint
<1> QED
  BY <1>1, <1>2, <1>3, FS_CardinalityType, Zenon DEF Count

\* Nor is one greater than that of the last k.
LEMMA GreatestSum ==
  ASSUME NEW k \in Nat, NEW m \in Nat, NEW S \in Picks(k, m + k) PROVE SetSum(S) <= Middle(k, m) - Tri(k)
<1> DEFINE s == SetSum(S)
           j == (Middle(k, m) - s) - Tri(k)
<1>1. s \in Int /\ Tri(k) \in Nat /\ Middle(k, m) \in Nat
  <2>1. m + k \in Nat
    OBVIOUS
  <2> QED
    BY <2>1, PickIs, MiddleIs
<1>2. Middle(k, m) - s = Tri(k) + j /\ j \in Int
  BY <1>1
<1>3. S \in SumsTo(k, m + k, s)
  BY DEF SumsTo
<1> HIDE DEF s, j
<1>4. Count(k, m + k, s) /= 0
  <2>1. SumsTo(k, m + k, s) \in SUBSET SUBSET (1 .. m + k)
    BY DEF SumsTo, Picks
  <2>2. IsFiniteSet(SumsTo(k, m + k, s))
    BY <2>1, FiniteSubsets
  <2> QED
    BY <1>3, <2>2, FS_EmptySet DEF Count
<1>5. Count(k, m + k, Tri(k) + j) /= 0
  BY <1>1, <1>2, <1>4, CountSymmetric
<1>6. UCount(k, m, j) /= 0
  BY <1>5 DEF UCount
<1>7. ~(j < 0)
  BY <1>2, <1>6, UEnds
<1>8. s <= Middle(k, m) - Tri(k)
  BY <1>1, <1>2, <1>7
<1> QED
  BY <1>8 DEF s

\* How many choices are not above s, and not below.
Low(k, m, s) == Cardinality(UpTo(k, m + k, s))
High(k, m, s) == Cardinality(DownTo(k, m + k, s))
Mirrored(k, m, t) == High(k, m, Middle(k, m) - t) = Low(k, m, t)

\* The tails are mirror images, so the lesser of two is the one on the side of the sum.
LEMMA TailsMirror ==
  ASSUME NEW k \in Nat, NEW m \in Nat, NEW t \in Int PROVE Mirrored(k, m, t)
<1> DEFINE c == Middle(k, m)
<1>1. c \in Nat /\ Tri(k) \in Nat
  BY MiddleIs
<1> HIDE DEF c
<1>2. ASSUME NEW x \in Int, x < Tri(k) PROVE Mirrored(k, m, x)
  <2>1. UpTo(k, m + k, x) = {}
    <3>1. \A S \in Picks(k, m + k) : SetSum(S) >= Tri(k) /\ SetSum(S) \in Int
      BY LeastSum, PickIs
    <3> QED
      BY <1>1, <1>2, <3>1 DEF UpTo
  <2>2. DownTo(k, m + k, c - x) = {}
    <3>1. \A S \in Picks(k, m + k) : SetSum(S) <= c - Tri(k) /\ SetSum(S) \in Int
      BY GreatestSum, PickIs DEF c
    <3> QED
      BY <1>1, <1>2, <3>1 DEF DownTo
  <2> QED
    BY <2>1, <2>2, Zenon DEF Mirrored, High, Low, c
<1> DEFINE Bad == {v \in Nat : ~Mirrored(k, m, Tri(k) + v)}
<1>3. Bad = {}
  <2> SUFFICES ASSUME Bad /= {} PROVE FALSE
    OBVIOUS
  <2>1. PICK v \in Bad : \A s \in Bad : v <= s
    <3>1. Bad \in SUBSET Nat
      OBVIOUS
    <3> HIDE DEF Bad
    <3> QED
      BY <3>1, Least
  <2>2. v \in Nat /\ ~Mirrored(k, m, Tri(k) + v)
    OBVIOUS
  <2> DEFINE x == Tri(k) + v
  <2>3. x \in Int /\ x - 1 \in Int /\ x - 1 = Tri(k) + (v - 1)
    BY <1>1, <2>2
  <2>4. Mirrored(k, m, x - 1)
    <3>1. CASE v = 0
      BY <1>1, <1>2, <2>3, <3>1
    <3>2. CASE v /= 0
      <4>1. v - 1 \in Nat /\ ~(v <= v - 1)
        BY <2>2, <3>2
      <4>2. v - 1 \notin Bad
        <5> HIDE DEF Bad
        <5> QED
          BY <2>1, <4>1
      <4>3. Mirrored(k, m, Tri(k) + (v - 1))
        BY <4>1, <4>2
      <4> QED
        BY <2>3, <4>3
    <3> QED
      BY <3>1, <3>2
  <2> HIDE DEF Bad, x
  <2>5. Low(k, m, x) = Low(k, m, x - 1) + Count(k, m + k, x)
    <3>1. m + k \in Nat
      OBVIOUS
    <3> QED
      BY <2>3, <3>1, UpToStep DEF Low
  <2>6. c - x \in Int /\ (c - x) + 1 = c - (x - 1) /\ m + k \in Nat
    BY <1>1, <2>3
  <2>7. High(k, m, c - x) = High(k, m, c - (x - 1)) + Count(k, m + k, c - x)
    <3>1. High(k, m, c - x) = High(k, m, (c - x) + 1) + Count(k, m + k, c - x)
      BY <2>6, DownToStep DEF High
    <3> QED
      BY <2>6, <3>1
  <2>8. Count(k, m + k, x) = Count(k, m + k, c - x)
    BY <2>3, CountSymmetric DEF c
  <2>9. High(k, m, c - (x - 1)) = Low(k, m, x - 1)
    BY <2>4 DEF Mirrored, c
  <2>10. High(k, m, c - x) = Low(k, m, x)
    BY <2>5, <2>7, <2>8, <2>9
  <2> QED
    BY <2>2, <2>10 DEF Mirrored, c, x
<1>4. CASE t < Tri(k)
  BY <1>2, <1>4
<1>5. CASE t >= Tri(k)
  <2>1. t - Tri(k) \in Nat /\ Tri(k) + (t - Tri(k)) = t
    BY <1>1, <1>5
  <2>2. t - Tri(k) \notin Bad
    <3> HIDE DEF Bad
    <3> QED
      BY <1>3
  <2>3. Mirrored(k, m, Tri(k) + (t - Tri(k)))
    BY <2>1, <2>2
  <2> QED
    BY <2>1, <2>3
<1> QED
  BY <1>1, <1>4, <1>5

\* The tail grows with the sum.
LEMMA LowGrows ==
  ASSUME NEW k \in Nat, NEW m \in Nat, NEW s \in Int, NEW t \in Int, s <= t
  PROVE  Low(k, m, s) \in Nat /\ Low(k, m, t) \in Nat /\ Low(k, m, s) <= Low(k, m, t)
<1>1. UpTo(k, m + k, t) \in SUBSET SUBSET (1 .. m + k) /\ m + k \in Nat
  BY DEF UpTo, Picks
<1>2. IsFiniteSet(UpTo(k, m + k, t))
  BY <1>1, FiniteSubsets
<1>3. UpTo(k, m + k, s) \subseteq UpTo(k, m + k, t)
  <2>1. \A S \in Picks(k, m + k) : SetSum(S) \in Int
    BY <1>1, PickIs
  <2> QED
    BY <2>1 DEF UpTo
<1> QED
  BY <1>2, <1>3, FS_Subset, FS_CardinalityType DEF Low

-----------------------------------------------------------------------------
LEMMA LesserOfTwo == ASSUME NEW a \in Int, NEW b \in Int PROVE SA!Min({a, b}) = IF a <= b THEN a ELSE b
  BY DEF SA!Min

\* The share of the choices that are as far out, on the side of s, twice.
Extreme(k, m, s) == SA!Least(SA!One, SA!Rat(2 * SA!Min({Low(k, m, s), High(k, m, s)}), Selections(k, m)))
TwoSided(k, m, t) == SA!Least(SA!One, SA!Rat(2 * Low(k, m, t), Selections(k, m)))

\* Below the expectation it is twice the lower tail.
LEMMA ExtremeIs ==
  ASSUME NEW k \in Nat, NEW m \in Nat, NEW s \in Int
  PROVE  /\ 2 * s <= Middle(k, m) => Extreme(k, m, s) = TwoSided(k, m, s)
         /\ 2 * s >= Middle(k, m) => Extreme(k, m, s) = TwoSided(k, m, Middle(k, m) - s)
<1> DEFINE c == Middle(k, m)
<1>1. c \in Nat
  BY MiddleIs
<1> HIDE DEF c
<1>2. c - s \in Int /\ c - (c - s) = s
  BY <1>1
<1>3. High(k, m, s) = Low(k, m, c - s)
  <2>1. High(k, m, c - (c - s)) = Low(k, m, c - s)
    BY <1>2, TailsMirror DEF Mirrored, c
  <2> QED
    BY <1>2, <2>1, Zenon
<1>4. Low(k, m, s) \in Nat /\ Low(k, m, c - s) \in Nat
  BY <1>2, LowGrows
<1> DEFINE a == Low(k, m, s)
           b == Low(k, m, c - s)
<1>5. 2 * s <= c => a <= b
  <2>1. 2 * s <= c => s <= c - s
    BY <1>1
  <2> QED
    BY <1>2, <2>1, LowGrows
<1>6. 2 * s >= c => b <= a
  <2>1. 2 * s >= c => c - s <= s
    BY <1>1
  <2> QED
    BY <1>2, <2>1, LowGrows
<1>7. Extreme(k, m, s) = SA!Least(SA!One, SA!Rat(2 * SA!Min({a, b}), Selections(k, m)))
  BY <1>3, Zenon DEF Extreme
<1>8. SA!Min({a, b}) = IF a <= b THEN a ELSE b
  BY <1>4, LesserOfTwo
<1>9. TwoSided(k, m, s) = SA!Least(SA!One, SA!Rat(2 * a, Selections(k, m)))
      /\ TwoSided(k, m, c - s) = SA!Least(SA!One, SA!Rat(2 * b, Selections(k, m)))
  BY DEF TwoSided
<1> HIDE DEF a, b
<1>10. a \in Nat /\ b \in Nat
  BY <1>4 DEF a, b
<1>11. 2 * s <= c => SA!Min({a, b}) = a
  BY <1>5, <1>8
<1>12. 2 * s >= c => SA!Min({a, b}) = b
  BY <1>6, <1>8, <1>10
<1> QED
  BY <1>7, <1>9, <1>11, <1>12, Zenon DEF c

\* 1, and the lesser of two numbers.
LEMMA OneIs == SA!One \in Fraction /\ SA!One = <<1, 1>> /\ Is(SA!One, 1, 1)
  BY DEF SA!One, SA!Whole, Is, Fraction

LEMMA LeastIs ==
  ASSUME NEW x \in Fraction, NEW y \in Fraction, NEW a \in Int, NEW b \in Int, NEW d \in Nat \ {0}, Is(x, a, d), Is(y, b, d),
         a <= b
  PROVE  SA!Leq(SA!Least(SA!One, x), SA!Least(SA!One, y))
<1>1. SA!Leq(SA!One, x) <=> d <= a
  BY OneIs, OrderOf, SameArithmetic
<1>2. SA!Leq(SA!One, y) <=> d <= b
  BY OneIs, OrderOf, SameArithmetic
<1>3. SA!Leq(SA!One, SA!One)
  BY OneIs, OrderOf, SameArithmetic
<1>4. SA!Leq(x, SA!One) <=> a <= d
  BY OneIs, OrderOf, SameArithmetic
<1>5. SA!Leq(x, y)
  <2>1. WA!Leq(x, y) <=> a * d <= b * d
    BY OrderOf
  <2>2. a * d <= b * d
    OBVIOUS
  <2> QED
    BY <2>1, <2>2, SameArithmetic
<1> QED
  BY <1>1, <1>2, <1>3, <1>4, <1>5 DEF SA!Least

\* So does the two-sided p-value, up to the expectation.
LEMMA TwoSidedGrows ==
  ASSUME NEW k \in Nat, NEW m \in Nat, NEW s \in Int, NEW t \in Int, s <= t
  PROVE  SA!Leq(TwoSided(k, m, s), TwoSided(k, m, t))
<1> DEFINE a == 2 * Low(k, m, s)
           b == 2 * Low(k, m, t)
           d == Selections(k, m)
<1>1. a \in Int /\ b \in Int /\ a <= b /\ d \in Nat \ {0}
  <2>1. Low(k, m, s) \in Nat /\ Low(k, m, t) \in Nat /\ Low(k, m, s) <= Low(k, m, t)
    BY LowGrows
  <2>2. Selections(k, m) \in Nat \ {0}
    BY ChoicesNat
  <2> QED
    BY <2>1, <2>2
<1> HIDE DEF a, b, d
<1>2. WA!Rat(a, d) \in Fraction /\ Is(WA!Rat(a, d), a, d) /\ WA!Rat(b, d) \in Fraction /\ Is(WA!Rat(b, d), b, d)
  BY <1>1, RatIs, RatValue
<1>3. SA!Leq(SA!Least(SA!One, WA!Rat(a, d)), SA!Least(SA!One, WA!Rat(b, d)))
  BY <1>1, <1>2, LeastIs
<1> QED
  BY <1>3, SameRat DEF TwoSided, a, b, d

\* So is the two-sided p-value of rank_sum_p (libpilot.cc 1404-1420).
THEOREM RankSumPIs ==
  ASSUME NEW k \in Nat, NEW m \in Nat \ {0}, NEW u \in Nat
  PROVE  SA!RankSumP(k, m, u) = TwoSided(k, m, Tri(k) + u)
<1> DEFINE t == SA!LowerTail(k, m, u)
           a == Low(k, m, Tri(k) + u)
           d == Selections(k, m)
           x == WA!Mul(WA!Whole(2), t)
           y == WA!Rat(2 * a, d)
<1>1. t \in Fraction /\ Coprime(t[1], t[2]) /\ Is(t, a, d)
  BY LowerTailIs DEF Low
<1>2. a \in Nat /\ d \in Nat \ {0} /\ 2 * a \in Int
  <2>1. Tri(k) + u \in Int
    BY TriIs
  <2>2. Low(k, m, Tri(k) + u) \in Nat
    BY <2>1, LowGrows
  <2>3. d \in Nat \ {0}
    BY ChoicesNat
  <2> QED
    BY <2>2, <2>3
<1>3. SA!RankSumP(k, m, u) = SA!Least(SA!One, x) /\ TwoSided(k, m, Tri(k) + u) = SA!Least(SA!One, y)
  BY SameRat, SameArithmetic DEF SA!RankSumP, TwoSided
<1> HIDE DEF t, a, d
<1>4. WA!Whole(2) \in Fraction /\ Is(WA!Whole(2), 2, 1) /\ Coprime(WA!Whole(2)[1], WA!Whole(2)[2])
  <2>1. WA!Whole(2)[1] = 2 /\ WA!Whole(2)[2] = 1
    BY DEF WA!Whole
  <2>2. Coprime(2, 1)
    <3>1. \E i \in Int, j \in Int : i * 2 + j * 1 = 1
      <4> WITNESS 0 \in Int, 1 \in Int
      <4> QED
        OBVIOUS
    <3> QED
      BY <3>1 DEF Coprime
  <2> QED
    BY <2>1, <2>2, WholeOf
<1>5. x \in Fraction /\ Is(x, 2 * a, 1 * d) /\ Coprime(x[1], x[2])
  BY <1>1, <1>2, <1>4, MulOf, MulLowest
<1>6. y \in Fraction /\ Is(y, 2 * a, d) /\ Coprime(y[1], y[2])
  <2>1. d \in Int /\ d /= 0
    BY <1>2
  <2> QED
    BY <1>2, <2>1, RatParts, RatValue
<1>7. 1 * d = d
  BY <1>2
<1> HIDE DEF x, y
<1>8. x = y
  BY <1>2, <1>5, <1>6, <1>7, SameNumber
<1> QED
  BY <1>3, <1>8

-----------------------------------------------------------------------------
(* The model's sums. *)
\* SumFunction and the others of the community modules are these sums and counts.
LEMMA ModelSums ==
  /\ \A f, S : SA!SumFunctionOnSet(f, S) = SumOver(f, S)
  /\ \A f : SA!SumFunction(f) = SumOver(f, DOMAIN f)
  /\ \A S : SA!SumSet(S) = SumOver([x \in S |-> x], S)
<1>1. ASSUME NEW f, NEW S PROVE SA!SumFunctionOnSet(f, S) = SumOver(f, S)
  BY DEF SA!SumFunctionOnSet, SA!FoldFunctionOnSet, SA!MapThenFoldSet, SumOver, Folded, Folds, Chosen
<1>2. ASSUME NEW f PROVE SA!SumFunction(f) = SumOver(f, DOMAIN f)
  BY DEF SA!SumFunction, SA!SumFunctionOnSet, SA!FoldFunctionOnSet, SA!MapThenFoldSet, SumOver, Folded, Folds, Chosen
<1>3. ASSUME NEW S PROVE SA!SumSet(S) = SumOver([x \in S |-> x], S)
  BY DEF SA!SumSet, SA!FoldSet, SA!MapThenFoldSet, SumOver, Folded, Folds, Chosen
<1> QED
  BY <1>1, <1>2, <1>3

LEMMA ModelSetSum == ASSUME NEW S \in SUBSET Int, IsFiniteSet(S) PROVE SA!SumSet(S) = SetSum(S)
<1> DEFINE f == [x \in S |-> x]
<1>1. IntegersOn(f, S) /\ \A x \in S : f[x] = Itself[x]
  BY DEF IntegersOn, Itself
<1>2. SumOver(f, S) = SumOver(Itself, S)
  <2> HIDE DEF f
  <2> QED
    BY <1>1, SumSame
<1>3. SA!SumSet(S) = SumOver(f, S)
  BY ModelSums
<1> QED
  BY <1>2, <1>3 DEF SetSum

LEMMA ModelCount == \A S : SA!Cardinality(S) = Cardinality(S)
  BY DEF SA!Cardinality, Cardinality

LEMMA ModelPicks ==
  /\ \A k, n : SA!kSubset(k, 1 .. n) = Picks(k, n)
  /\ \A k, n : SA!Ways(n, k) = Cardinality(Picks(k, n))
  BY ModelCount DEF SA!kSubset, SA!Ways, Picks

-----------------------------------------------------------------------------
\* Finite sets of which no two have an element in common, and all of them together.
SetsApart(P, V) == /\ \A v \in V : IsFiniteSet(P[v])
                /\ \A v, w \in V : v /= w => P[v] \intersect P[w] = {}
Joined(P, V) == UNION {P[v] : v \in V}

\* A sum over parts is that of their sums.
LEMMA SumByPart ==
  ASSUME NEW V, IsFiniteSet(V), NEW P, SetsApart(P, V), NEW h, IntegersOn(h, Joined(P, V)),
         NEW f, \A v \in V : f[v] = SumOver(h, P[v])
  PROVE  IsFiniteSet(Joined(P, V)) /\ SumOver(h, Joined(P, V)) = SumOver(f, V) /\ IntegersOn(f, V)
<1> DEFINE W == {T \in SUBSET V : IsFiniteSet(Joined(P, T)) /\ SumOver(h, Joined(P, T)) = SumOver(f, T)}
<1>1. IntegersOn(f, V)
  <2>1. \A v \in V : SumOver(h, P[v]) \in Int
    <3> TAKE v \in V
    <3>1. IsFiniteSet(P[v])
      BY DEF SetsApart
    <3>2. IntegersOn(h, P[v])
      BY DEF Joined, IntegersOn
    <3> QED
      BY <3>1, <3>2, SumInt
  <2> QED
    BY <2>1 DEF IntegersOn
<1>2. {} \in W
  <2>1. Joined(P, {}) = {}
    BY DEF Joined
  <2> QED
    BY <2>1, SumEmpty, FS_EmptySet, Zenon
<1>3. ASSUME NEW T \in SUBSET V, T \in W, NEW x \in V, x \notin T PROVE T \union {x} \in W
  <2>1. Joined(P, T \union {x}) = Joined(P, T) \union P[x]
    BY DEF Joined
  <2>2. IsFiniteSet(Joined(P, T)) /\ IsFiniteSet(P[x]) /\ SumOver(h, Joined(P, T)) = SumOver(f, T)
    BY <1>3 DEF SetsApart
  <2>3. Joined(P, T) \intersect P[x] = {}
    BY <1>3 DEF Joined, SetsApart
  <2>4. IntegersOn(h, Joined(P, T) \union P[x])
    BY DEF IntegersOn, Joined
  <2>5. SumOver(h, Joined(P, T) \union P[x]) = SumOver(h, Joined(P, T)) + SumOver(h, P[x])
    BY <2>2, <2>3, <2>4, SumUnion
  <2>6. SumOver(f, T \union {x}) = SumOver(f, T) + f[x]
    BY <1>1, <1>3, SumMore
  <2>7. IsFiniteSet(Joined(P, T) \union P[x])
    BY <2>2, FS_Union
  <2>8. SumOver(h, Joined(P, T \union {x})) = SumOver(f, T \union {x})
    BY <2>1, <2>2, <2>5, <2>6, Zenon
  <2> QED
    BY <2>1, <2>7, <2>8
<1> HIDE DEF W
<1>4. V \in W
  <2>1. Grows(W, V)
    BY <1>2, <1>3 DEF Grows
  <2> QED
    BY <2>1, SetInduction
<1> QED
  BY <1>1, <1>4 DEF W

-----------------------------------------------------------------------------
(* Groups of values that are the same, and the ranks of a group. *)
Grouped(V, all) == IsFiniteSet(V) /\ V \in SUBSET Int /\ \A v \in V : all[v] \in Nat \ {0}
Under(V, all, v) == SumOver(all, {w \in V : w < v})
Block(V, all, v) == Under(V, all, v) + 1 .. Under(V, all, v) + all[v]

\* The ranks of a group follow those of the groups below.
LEMMA UnderIs ==
  ASSUME NEW V, NEW all, Grouped(V, all), NEW v \in V
  PROVE  /\ Under(V, all, v) \in Nat /\ SumOver(all, V) \in Nat
         /\ Under(V, all, v) + all[v] = SumOver(all, {w \in V : w <= v})
         /\ Under(V, all, v) + all[v] <= SumOver(all, V)
         /\ \A w \in V : v < w => Under(V, all, v) + all[v] <= Under(V, all, w)
<1> DEFINE L == {w \in V : w < v}
<1>1. IsFiniteSet(V) /\ V \in SUBSET Int /\ \A w \in V : all[w] \in Nat
  BY DEF Grouped
<1>2. IntegersOn(all, V)
  BY <1>1 DEF IntegersOn
<1>3. \A T \in SUBSET V : IsFiniteSet(T) /\ IntegersOn(all, T) /\ SumOver(all, T) \in Nat
  <2> TAKE T \in SUBSET V
  <2>1. IsFiniteSet(T) /\ IntegersOn(all, T)
    BY <1>1, <1>2, FS_Subset DEF IntegersOn
  <2> QED
    BY <1>1, <2>1, SumNat
<1>4. v \notin L /\ L \in SUBSET V /\ L \union {v} = {w \in V : w <= v}
  <2>1. \A w \in V : w <= v <=> w < v \/ w = v
    BY <1>1
  <2>2. v \notin L
    BY <1>1
  <2> QED
    BY <2>1, <2>2
<1>5. SumOver(all, L \union {v}) = SumOver(all, L) + all[v]
  BY <1>1, <1>2, <1>4, SumMore
<1> HIDE DEF L
<1>6. ASSUME NEW T \in SUBSET V, L \union {v} \subseteq T PROVE SumOver(all, L) + all[v] <= SumOver(all, T)
  <2> DEFINE K == L \union {v}
             D == T \ K
  <2>1. T = K \union D /\ K \intersect D = {} /\ K \in SUBSET V /\ D \in SUBSET V
    BY <1>6, <1>4
  <2> HIDE DEF K, D
  <2>2. SumOver(all, K \union D) = SumOver(all, K) + SumOver(all, D)
    <3>1. IntegersOn(all, K \union D)
      BY <1>2, <2>1 DEF IntegersOn
    <3> QED
      BY <1>3, <2>1, <3>1, SumUnion
  <2>3. SumOver(all, K) \in Nat /\ SumOver(all, D) \in Nat
    BY <1>3, <2>1
  <2>4. SumOver(all, T) = SumOver(all, K) + SumOver(all, D)
    BY <2>1, <2>2, Zenon
  <2>5. SumOver(all, K) <= SumOver(all, T)
    BY <2>3, <2>4
  <2> QED
    BY <1>5, <2>5 DEF K
<1>7. ASSUME NEW w \in V, v < w PROVE SumOver(all, L) + all[v] <= SumOver(all, {x \in V : x < w})
  <2>1. L \union {v} \subseteq {x \in V : x < w}
    <3>1. v \in Int /\ w \in Int /\ \A x \in V : x \in Int
      BY <1>1
    <3>2. \A x \in V : x < v => x < w
      BY <3>1, <1>7
    <3> QED
      BY <3>2, <1>7 DEF L
  <2> QED
    BY <1>6, <2>1
<1>8. SumOver(all, L) + all[v] <= SumOver(all, V)
  BY <1>4, <1>6
<1>9. SumOver(all, L) \in Nat /\ SumOver(all, V) \in Nat
  BY <1>3, <1>4
<1> QED
  BY <1>4, <1>5, <1>7, <1>8, <1>9, Zenon DEF Under, L

\* A finite set of numbers has a least and a greatest one.
HasEnds(S) == (\E x \in S : \A y \in S : y <= x) /\ (\E x \in S : \A y \in S : x <= y)

LEMMA Ends == ASSUME NEW S \in SUBSET Int, IsFiniteSet(S), S /= {} PROVE HasEnds(S)
<1> DEFINE W == {T \in SUBSET S : T = {} \/ HasEnds(T)}
<1>1. {} \in W
  OBVIOUS
<1>2. ASSUME NEW T \in SUBSET S, T \in W, NEW x \in S, x \notin T PROVE T \union {x} \in W
  <2>1. HasEnds(T \union {x})
    <3>1. CASE T = {}
      BY <3>1 DEF HasEnds
    <3>2. CASE T /= {}
      <4>1. PICK p \in T, q \in T : \A y \in T : y <= p /\ q <= y
        BY <1>2, <3>2 DEF HasEnds
      <4>2. x \in Int /\ p \in Int /\ q \in Int /\ \A y \in T : y \in Int
        OBVIOUS
      <4>3. \E z \in T \union {x} : \A y \in T \union {x} : y <= z
        <5>1. CASE p <= x
          <6>1. \A y \in T \union {x} : y <= x
            BY <4>1, <4>2, <5>1
          <6> QED
            BY <6>1
        <5>2. CASE x <= p
          <6>1. \A y \in T \union {x} : y <= p
            BY <4>1, <4>2, <5>2
          <6> QED
            BY <6>1
        <5> QED
          BY <4>2, <5>1, <5>2
      <4>4. \E z \in T \union {x} : \A y \in T \union {x} : z <= y
        <5>1. CASE x <= q
          <6>1. \A y \in T \union {x} : x <= y
            BY <4>1, <4>2, <5>1
          <6> QED
            BY <6>1
        <5>2. CASE q <= x
          <6>1. \A y \in T \union {x} : q <= y
            BY <4>1, <4>2, <5>2
          <6> QED
            BY <6>1
        <5> QED
          BY <4>2, <5>1, <5>2
      <4> QED
        BY <4>3, <4>4 DEF HasEnds
    <3> QED
      BY <3>1, <3>2
  <2> QED
    BY <2>1
<1> HIDE DEF W
<1>3. S \in W
  <2>1. Grows(W, S)
    BY <1>1, <1>2 DEF Grows
  <2> QED
    BY <2>1, SetInduction
<1> QED
  BY <1>3 DEF W

\* The ranks of all groups are those from 1 on.
LEMMA BlocksPart ==
  ASSUME NEW V, NEW all, Grouped(V, all), NEW B, \A v \in V : B[v] = Block(V, all, v)
  PROVE  SetsApart(B, V) /\ Joined(B, V) = 1 .. SumOver(all, V)
<1> DEFINE n == SumOver(all, V)
           U(v) == Under(V, all, v)
<1>1. IsFiniteSet(V) /\ V \in SUBSET Int /\ \A v \in V : all[v] \in Nat \ {0}
  BY DEF Grouped
<1>2. n \in Nat
  BY <1>1, SumNat
<1>3. \A v \in V : U(v) \in Nat /\ U(v) + all[v] <= n /\ \A w \in V : v < w => U(v) + all[v] <= U(w)
  BY UnderIs
<1>4. \A v \in V : IsFiniteSet(B[v])
  <2> TAKE v \in V
  <2>1. U(v) + 1 \in Int /\ U(v) + all[v] \in Int
    BY <1>1, <1>3
  <2> QED
    BY <2>1, FS_Interval DEF Block
<1>5. ASSUME NEW v \in V, NEW w \in V, v < w PROVE B[v] \intersect B[w] = {}
  <2>1. U(v) \in Nat /\ U(w) \in Nat /\ all[v] \in Nat /\ all[w] \in Nat /\ U(v) + all[v] <= U(w)
    BY <1>1, <1>3, <1>5
  <2>2. B[v] = U(v) + 1 .. U(v) + all[v] /\ B[w] = U(w) + 1 .. U(w) + all[w]
    BY DEF Block
  <2> QED
    BY <2>1, <2>2
<1>6. \A v, w \in V : v /= w => B[v] \intersect B[w] = {}
  <2> TAKE v, w \in V
  <2>1. v < w \/ w < v \/ v = w
    BY <1>1
  <2>2. v < w => B[v] \intersect B[w] = {}
    BY <1>5
  <2>3. w < v => B[w] \intersect B[v] = {}
    BY <1>5
  <2> QED
    BY <2>1, <2>2, <2>3
<1>7. ASSUME NEW v \in V PROVE B[v] \subseteq 1 .. n
  <2>1. B[v] = U(v) + 1 .. U(v) + all[v]
    BY DEF Block
  <2> QED
    BY <1>1, <1>2, <1>3, <2>1
<1>8. ASSUME NEW r \in 1 .. n PROVE \E v \in V : r \in B[v]
  <2> DEFINE D == {v \in V : U(v) < r}
  <2>1. D /= {}
    <3>1. V /= {}
      <4>1. V = {} => n = 0
        BY SumEmpty
      <4> QED
        BY <4>1, <1>2
    <3>2. PICK v \in V : \A w \in V : v <= w
      BY <1>1, <3>1, Ends DEF HasEnds
    <3>3. {w \in V : w < v} = {}
      <4>1. \A w \in V : v \in Int /\ w \in Int
        BY <1>1
      <4>2. \A w \in V : ~(w < v)
        BY <3>2, <4>1
      <4> QED
        BY <4>2
    <3>4. U(v) = 0
      BY <3>3, SumEmpty, Zenon DEF Under
    <3> QED
      BY <3>4
  <2>2. D \in SUBSET V /\ D \in SUBSET Int /\ IsFiniteSet(D)
    <3>1. D \in SUBSET V
      OBVIOUS
    <3> QED
      BY <1>1, <3>1, FS_Subset
  <2>3. PICK v \in D : \A w \in D : w <= v
    <3> HIDE DEF D
    <3> QED
      BY <2>1, <2>2, Ends DEF HasEnds
  <2>4. v \in V /\ U(v) < r
    OBVIOUS
  <2>5. r <= U(v) + all[v]
    <3> DEFINE A == {w \in V : v < w}
    <3>1. CASE A = {}
      <4>1. {w \in V : w <= v} = V
        <5>1. \A w \in V : v \in Int /\ w \in Int /\ ~(v < w)
          BY <1>1, <2>4, <3>1
        <5> HIDE DEF A
        <5>2. \A w \in V : w <= v
          BY <5>1
        <5> QED
          BY <5>2
      <4>2. U(v) + all[v] = SumOver(all, {w \in V : w <= v})
        BY <2>4, UnderIs
      <4>3. U(v) + all[v] = n
        BY <4>1, <4>2, Zenon
      <4> QED
        BY <1>2, <4>3
    <3>2. CASE A /= {}
      <4>1. A \in SUBSET V
        OBVIOUS
      <4>2. A \in SUBSET Int /\ IsFiniteSet(A)
        BY <1>1, <4>1, FS_Subset
      <4>3. PICK w \in A : \A x \in A : w <= x
        <5> HIDE DEF A
        <5> QED
          BY <3>2, <4>2, Ends DEF HasEnds
      <4>4. w \in V /\ v < w
        OBVIOUS
      <4>5. ~(U(w) < r)
        <5>1. w \notin D
          <6> HIDE DEF D
          <6> QED
            BY <1>1, <2>3, <2>4, <4>4
        <5> QED
          BY <5>1, <4>4
      <4>6. {x \in V : x < w} = {x \in V : x <= v}
        <5>1. \A x \in V : x < w <=> x <= v
          <6> TAKE x \in V
          <6>1. x \in Int /\ v \in Int /\ w \in Int
            BY <1>1, <2>4, <4>4
          <6>2. v < x => w <= x
            BY <4>3
          <6> HIDE DEF A, D
          <6> QED
            BY <4>4, <6>1, <6>2
        <5> QED
          BY <5>1
      <4>7. U(w) = U(v) + all[v]
        <5>1. U(v) + all[v] = SumOver(all, {x \in V : x <= v})
          BY <2>4, UnderIs
        <5>2. U(w) = SumOver(all, {x \in V : x < w})
          BY DEF Under
        <5> QED
          BY <4>6, <5>1, <5>2, Zenon
      <4>8. U(w) \in Nat
        BY <1>3, <4>4
      <4> QED
        BY <4>5, <4>7, <4>8
    <3> QED
      BY <3>1, <3>2
  <2>6. B[v] = U(v) + 1 .. U(v) + all[v]
    BY <2>4 DEF Block
  <2>7. U(v) \in Nat /\ all[v] \in Nat
    BY <1>1, <1>3, <2>4
  <2> HIDE DEF D
  <2>8. r \in B[v]
    BY <2>4, <2>5, <2>6, <2>7
  <2> QED
    BY <2>4, <2>8
<1>9. Joined(B, V) = 1 .. n
  <2> HIDE DEF n
  <2> QED
    BY <1>7, <1>8 DEF Joined
<1> QED
  BY <1>4, <1>6, <1>9 DEF SetsApart

\* A set that m carries S to.
Carries(m, S, T) == T = {m[x] : x \in S}

LEMMA SumCarried ==
  ASSUME NEW S, IsFiniteSet(S), NEW f, NEW g, NEW m, IntegersOn(f, S), Moves(m, S, f, g), NEW T, Carries(m, S, T)
  PROVE  SumOver(f, S) = SumOver(g, T)
<1>1. SumOver(f, S) = SumOver(g, {m[x] : x \in S})
  BY SumMoved
<1> QED
  BY <1>1, Zenon DEF Carries

\* Numbers moved by the same distance, or mirrored.
Shifted(T, S, d, e) == T = {d + e * x : x \in S}

\* The sum and the number of elements of such a set.
LEMMA MovedSum ==
  ASSUME NEW S \in SUBSET Int, IsFiniteSet(S), NEW d \in Int, NEW e \in {1, -1},
         NEW T, Shifted(T, S, d, e)
  PROVE  /\ T \in SUBSET Int /\ IsFiniteSet(T) /\ Cardinality(T) = Cardinality(S)
         /\ SetSum(T) = Cardinality(S) * d + e * SetSum(S)
<1> DEFINE m == [x \in S |-> d + e * x]
           ones == [x \in S |-> 1]
<1>1. e \in Int /\ \A x \in S : x \in Int /\ m[x] \in Int
  OBVIOUS
<1>2. \A x, y \in S : m[x] = m[y] => x = y
  <2> TAKE x, y \in S
  <2>1. x \in Int /\ y \in Int /\ m[x] = d + e * x /\ m[y] = d + e * y
    OBVIOUS
  <2>2. CASE e = 1
    <3> HIDE DEF m
    <3> QED
      BY <2>1, <2>2
  <2>3. CASE e = -1
    <3> HIDE DEF m
    <3> QED
      BY <2>1, <2>3
  <2> QED
    BY <2>2, <2>3
<1>3. T = {m[x] : x \in S} /\ T \in SUBSET Int
  BY <1>1 DEF Shifted
<1>4. IsFiniteSet(T) /\ Cardinality(T) = Cardinality(S)
  <2> HIDE DEF m
  <2>1. (\A x \in S : m[x] \in T) /\ \A z \in T : \E x \in S : m[x] = z
    BY <1>3
  <2> QED
    BY <1>2, <2>1, CountMoved
<1>5. Moves(m, S, m, Itself) /\ IntegersOn(m, S)
  <2>1. \A x \in S : Itself[m[x]] = m[x]
    <3> HIDE DEF m
    <3> QED
      BY <1>1 DEF Itself
  <2> HIDE DEF m
  <2> QED
    BY <1>1, <1>2, <2>1 DEF Moves, IntegersOn
<1>6. SumOver(m, S) = SetSum(T)
  <2> HIDE DEF m
  <2>1. Carries(m, S, T)
    BY <1>3 DEF Carries
  <2> QED
    BY <1>5, <2>1, SumCarried DEF SetSum
<1>7. Combines(m, S, d, ones, e, Itself) /\ IntegersOn(ones, S) /\ IntegersOn(Itself, S)
  <2>1. \A x \in S : m[x] = d * ones[x] + e * Itself[x]
    <3> TAKE x \in S
    <3>1. m[x] = d + e * x /\ ones[x] = 1 /\ x \in Int
      OBVIOUS
    <3> HIDE DEF m, ones
    <3>2. Itself[x] = x
      BY <3>1 DEF Itself
    <3>3. d + e * x = d * 1 + e * x
      BY <3>1
    <3> QED
      BY <3>1, <3>2, <3>3, Zenon
  <2>2. (\A x \in S : ones[x] \in Int) /\ \A x \in S : Itself[x] \in Int
    BY DEF Itself
  <2> HIDE DEF m, ones
  <2> QED
    BY <2>1, <2>2 DEF Combines, IntegersOn
<1>8. SumOver(m, S) = d * SumOver(ones, S) + e * SetSum(S)
  <2> HIDE DEF m, ones
  <2> QED
    BY <1>1, <1>7, SumOfBoth DEF SetSum
<1>9. SumOver(ones, S) = Cardinality(S) * 1
  <2>1. \A x \in S : ones[x] = 1
    OBVIOUS
  <2> HIDE DEF ones
  <2> QED
    BY <2>1, SumOfEqual, 1 \in Int, Zenon
<1>10. Cardinality(S) \in Nat /\ SetSum(S) \in Int
  BY FS_CardinalityType, SetSumIs
<1> HIDE DEF m, ones
<1>11. d * (Cardinality(S) * 1) = Cardinality(S) * d
  BY <1>10
<1>12. SetSum(T) = Cardinality(S) * d + e * SetSum(S)
  BY <1>6, <1>8, <1>9, <1>11, Zenon
<1> QED
  BY <1>3, <1>4, <1>12

-----------------------------------------------------------------------------
(* The c lowest and the c highest of all[v] ranks from lo + 1 on. *)
Lowest(lo, c) == {lo + i : i \in 1 .. c}
Highest(lo, a, c) == {lo + a + 1 - i : i \in 1 .. c}

\* Their sums, and that they are c ranks of the group.
LEMMA EndsOfBlock ==
  ASSUME NEW lo \in Nat, NEW a \in Nat, NEW c \in 0 .. a
  PROVE  /\ Lowest(lo, c) \in SUBSET (lo + 1 .. lo + a) /\ Cardinality(Lowest(lo, c)) = c /\ IsFiniteSet(Lowest(lo, c))
         /\ Highest(lo, a, c) \in SUBSET (lo + 1 .. lo + a) /\ Cardinality(Highest(lo, a, c)) = c /\ IsFiniteSet(Highest(lo, a, c))
         /\ SetSum(Lowest(lo, c)) = c * lo + Tri(c)
         /\ SetSum(Highest(lo, a, c)) = c * (lo + a + 1) - Tri(c)
<1> DEFINE S == 1 .. c
<1>1. S \in SUBSET Int /\ IsFiniteSet(S) /\ Cardinality(S) = c /\ SetSum(S) = Tri(c) /\ c \in Nat /\ Tri(c) \in Nat
  <2>1. c \in Nat
    OBVIOUS
  <2> QED
    <3>1. IsFiniteSet(1 .. c) /\ Cardinality(1 .. c) = c
      BY <2>1, FiniteSubsets
    <3>2. SetSum(1 .. c) = Tri(c) /\ Tri(c) \in Nat
      BY <2>1, AllSum, TriIs
    <3> QED
      BY <2>1, <3>1, <3>2
<1>2. Shifted(Lowest(lo, c), S, lo, 1)
  <2>1. \A x \in S : lo + x = lo + 1 * x
    OBVIOUS
  <2> QED
    BY <2>1 DEF Lowest, Shifted
<1>3. Shifted(Highest(lo, a, c), S, lo + a + 1, -1)
  <2>1. \A x \in S : lo + a + 1 - x = (lo + a + 1) + (-1) * x
    OBVIOUS
  <2> QED
    BY <2>1 DEF Highest, Shifted
<1>4. Lowest(lo, c) \in SUBSET (lo + 1 .. lo + a) /\ Highest(lo, a, c) \in SUBSET (lo + 1 .. lo + a)
  BY DEF Lowest, Highest
<1> HIDE DEF S
<1>5. /\ IsFiniteSet(Lowest(lo, c)) /\ Cardinality(Lowest(lo, c)) = Cardinality(S)
      /\ SetSum(Lowest(lo, c)) = Cardinality(S) * lo + 1 * SetSum(S)
  BY <1>1, <1>2, MovedSum
<1>6. /\ IsFiniteSet(Highest(lo, a, c)) /\ Cardinality(Highest(lo, a, c)) = Cardinality(S)
      /\ SetSum(Highest(lo, a, c)) = Cardinality(S) * (lo + a + 1) + (-1) * SetSum(S)
  <2>1. lo + a + 1 \in Int
    OBVIOUS
  <2> QED
    BY <1>1, <1>3, <2>1, MovedSum
<1>7. SetSum(Lowest(lo, c)) = c * lo + Tri(c)
  BY <1>1, <1>5
<1>8. SetSum(Highest(lo, a, c)) = c * (lo + a + 1) - Tri(c)
  <2>1. SetSum(Highest(lo, a, c)) = c * (lo + a + 1) + (-1) * Tri(c)
    BY <1>1, <1>6, Zenon
  <2> QED
    BY <1>1, <2>1
<1> QED
  BY <1>1, <1>4, <1>5, <1>6, <1>7, <1>8, Zenon

\* Any c of them have a sum in between.
LEMMA SumWithinBlock ==
  ASSUME NEW lo \in Nat, NEW a \in Nat, NEW T \in SUBSET (lo + 1 .. lo + a), NEW c, Cardinality(T) = c
  PROVE  /\ c \in 0 .. a /\ IsFiniteSet(T) /\ SetSum(T) \in Int
         /\ SetSum(Lowest(lo, c)) <= SetSum(T) /\ SetSum(T) <= SetSum(Highest(lo, a, c))
         /\ SetSum(Lowest(lo, c)) \in Int /\ SetSum(Highest(lo, a, c)) \in Int
<1> DEFINE S == {(-lo) + 1 * x : x \in T}
<1>1. S \in SUBSET (1 .. a)
  OBVIOUS
<1>2. T \in SUBSET Int /\ IsFiniteSet(T)
  <2>1. IsFiniteSet(lo + 1 .. lo + a)
    BY FS_Interval
  <2> QED
    <3>1. T \subseteq lo + 1 .. lo + a /\ T \in SUBSET Int
      OBVIOUS
    <3> QED
      BY <2>1, <3>1, FS_Subset
<1>3. Cardinality(S) = c /\ SetSum(S) = c * (-lo) + 1 * SetSum(T)
  <2>1. -lo \in Int
    OBVIOUS
  <2> HIDE DEF S
  <2>2. Shifted(S, T, -lo, 1)
    BY DEF S, Shifted
  <2> QED
    BY <1>2, <2>1, <2>2, MovedSum
<1> HIDE DEF S
<1>4. c \in Nat /\ c <= a
  BY <1>1, <1>3, FiniteSubsets
<1>5. S \in Picks(c, (a - c) + c) /\ a - c \in Nat
  <2>1. (a - c) + c = a
    BY <1>4
  <2> QED
    BY <1>1, <1>3, <1>4, <2>1 DEF Picks
<1>6. SetSum(S) >= Tri(c) /\ SetSum(S) <= Middle(c, a - c) - Tri(c)
  BY <1>4, <1>5, LeastSum, GreatestSum
<1>7. c \in 0 .. a
  BY <1>4
<1>8. SetSum(Lowest(lo, c)) = c * lo + Tri(c) /\ SetSum(Highest(lo, a, c)) = c * (lo + a + 1) - Tri(c)
  BY <1>7, EndsOfBlock
<1>9. SetSum(T) \in Int /\ Tri(c) \in Int
  BY <1>2, <1>4, SetSumIs, TriIs
<1> DEFINE h == c * lo
           g == c * (a + 1)
<1>10. c * (-lo) = -h /\ c * (lo + a + 1) = h + g /\ Middle(c, a - c) = g /\ h \in Int /\ g \in Int
  <2>1. a - c + c + 1 = a + 1
    BY <1>4
  <2>2. c * (-lo) = -h /\ c * (lo + a + 1) = h + g /\ h \in Int /\ g \in Int
    BY <1>4
  <2> QED
    BY <2>1, <2>2, Zenon DEF Middle
<1> HIDE DEF h, g
<1>11. SetSum(S) = SetSum(T) - h
  BY <1>3, <1>9, <1>10
<1>12. SetSum(Lowest(lo, c)) = h + Tri(c) /\ SetSum(Highest(lo, a, c)) = (h + g) - Tri(c)
  BY <1>8, <1>10, Zenon DEF h
<1>13. SetSum(T) - h >= Tri(c) /\ SetSum(T) - h <= g - Tri(c)
  BY <1>6, <1>10, <1>11, Zenon
<1> QED
  BY <1>2, <1>7, <1>9, <1>10, <1>12, <1>13

-----------------------------------------------------------------------------
(* Ways to deal the ranks of the groups to a sample. *)
Dealt(V, inS, all, k) == Grouped(V, all) /\ (\A v \in V : inS[v] \in 0 .. all[v]) /\ SumOver(inS, V) = k
\* The dealings of k ranks that give each group inS[v] of its own; and a dealing group by group.
Deals(V, inS, all, k) == {R \in Picks(k, SumOver(all, V)) : \A v \in V : Cardinality(R \intersect Block(V, all, v)) = inS[v]}
InBlocks(P, V, inS, all) == \A v \in V : P[v] \in SUBSET Block(V, all, v) /\ Cardinality(P[v]) = inS[v]

\* The ranks of a group are among all ranks, as many as it has values.
LEMMA BlockIs ==
  ASSUME NEW V, NEW all, Grouped(V, all), NEW v \in V
  PROVE  /\ Under(V, all, v) \in Nat /\ all[v] \in Nat /\ SumOver(all, V) \in Nat
         /\ Block(V, all, v) = Under(V, all, v) + 1 .. Under(V, all, v) + all[v]
         /\ Block(V, all, v) \in SUBSET (1 .. SumOver(all, V)) /\ IsFiniteSet(Block(V, all, v))
<1> DEFINE lo == Under(V, all, v)
           n == SumOver(all, V)
<1>1. lo \in Nat /\ all[v] \in Nat /\ n \in Nat /\ lo + all[v] <= n
  BY UnderIs DEF Grouped
<1>2. Block(V, all, v) = lo + 1 .. lo + all[v]
  BY DEF Block
<1> HIDE DEF lo, n
<1>3. IsFiniteSet(lo + 1 .. lo + all[v]) /\ lo + 1 .. lo + all[v] \subseteq 1 .. n
  <2>1. lo + 1 \in Int /\ lo + all[v] \in Int
    BY <1>1
  <2>2. IsFiniteSet(lo + 1 .. lo + all[v])
    BY <2>1, FS_Interval
  <2> QED
    BY <1>1, <2>2
<1> QED
  BY <1>1, <1>2, <1>3 DEF lo, n

\* What is dealt group by group is a dealing.
LEMMA PartsDealt ==
  ASSUME NEW V, NEW inS, NEW all, NEW k, Dealt(V, inS, all, k), NEW P, InBlocks(P, V, inS, all),
         NEW f, \A v \in V : f[v] = SetSum(P[v])
  PROVE  /\ Joined(P, V) \in Deals(V, inS, all, k) /\ SetSum(Joined(P, V)) = SumOver(f, V) /\ IntegersOn(f, V)
         /\ k \in Nat
<1> DEFINE B == [v \in V |-> Block(V, all, v)]
           R == Joined(P, V)
           n == SumOver(all, V)
           ones == [r \in 1 .. n |-> 1]
<1>1. Grouped(V, all) /\ IsFiniteSet(V) /\ \A v \in V : inS[v] \in Nat /\ P[v] \subseteq B[v] /\ Cardinality(P[v]) = inS[v]
  <2>1. Grouped(V, all) /\ IsFiniteSet(V) /\ \A v \in V : inS[v] \in Nat
    <3>1. \A v \in V : inS[v] \in 0 .. all[v] /\ all[v] \in Nat
      BY DEF Dealt, Grouped
    <3> QED
      BY <3>1 DEF Dealt, Grouped
  <2> QED
    BY <2>1 DEF InBlocks
<1>2. SetsApart(B, V) /\ Joined(B, V) = 1 .. n
  <2>1. \A v \in V : B[v] = Block(V, all, v)
    OBVIOUS
  <2> HIDE DEF B
  <2> QED
    BY <1>1, <2>1, BlocksPart
<1> HIDE DEF B
<1>3. SetsApart(P, V)
  <2>1. \A v \in V : IsFiniteSet(P[v])
    <3> TAKE v \in V
    <3>1. IsFiniteSet(B[v]) /\ P[v] \subseteq B[v]
      BY <1>1, <1>2 DEF SetsApart
    <3> QED
      BY <3>1, FS_Subset
  <2> QED
    BY <1>1, <1>2, <2>1 DEF SetsApart
<1>4. R \subseteq 1 .. n
  BY <1>1, <1>2 DEF Joined
<1>5. \A v \in V : R \intersect B[v] = P[v]
  BY <1>1, <1>2 DEF Joined, SetsApart
<1>6. IsFiniteSet(R) /\ SumOver(Itself, R) = SumOver(f, V) /\ IntegersOn(f, V)
  <2>1. IntegersOn(Itself, R)
    <3>1. \A r \in 1 .. n : r \in Int
      OBVIOUS
    <3> HIDE DEF n, R
    <3> QED
      BY <1>4, <3>1 DEF IntegersOn, Itself
  <2>2. \A v \in V : f[v] = SumOver(Itself, P[v])
    BY DEF SetSum
  <2> QED
    BY <1>1, <1>3, <2>1, <2>2, SumByPart
<1>7. SumOver(ones, R) = SumOver(inS, V)
  <2>1. IntegersOn(ones, R) /\ \A r \in R : ones[r] = 1
    BY <1>4 DEF IntegersOn
  <2>2. \A v \in V : inS[v] = SumOver(ones, P[v])
    <3> TAKE v \in V
    <3>1. IsFiniteSet(P[v]) /\ \A r \in P[v] : ones[r] = 1
      BY <1>3, <2>1 DEF SetsApart, Joined
    <3> HIDE DEF ones
    <3>2. SumOver(ones, P[v]) = Cardinality(P[v]) * 1
      BY <3>1, SumOfEqual
    <3> QED
      BY <1>1, <3>2
  <2> HIDE DEF ones
  <2> QED
    BY <1>1, <1>3, <2>1, <2>2, SumByPart
<1>8. SumOver(ones, R) = Cardinality(R) * 1
  <2>1. \A r \in R : ones[r] = 1
    BY <1>4
  <2> HIDE DEF ones
  <2> QED
    BY <1>6, <2>1, SumOfEqual
<1>9. Cardinality(R) = k /\ k \in Nat
  <2>1. Cardinality(R) \in Nat
    BY <1>6, FS_CardinalityType
  <2>2. SumOver(inS, V) = k
    BY DEF Dealt
  <2> HIDE DEF ones, R
  <2>3. Cardinality(R) * 1 = Cardinality(R)
    BY <2>1
  <2>4. Cardinality(R) = k
    BY <1>7, <1>8, <2>2, <2>3, Zenon
  <2> QED
    BY <2>1, <2>4
<1>10. R \in Deals(V, inS, all, k)
  <2>1. R \in Picks(k, n)
    BY <1>4, <1>9 DEF Picks
  <2>2. \A v \in V : Cardinality(R \intersect Block(V, all, v)) = inS[v]
    BY <1>1, <1>5 DEF B
  <2> QED
    BY <2>1, <2>2 DEF Deals
<1> QED
  BY <1>6, <1>9, <1>10 DEF SetSum

\* The dealings of the least ranks of each group, and of the greatest.
LowParts(V, inS, all) == [v \in V |-> Lowest(Under(V, all, v), inS[v])]
HighParts(V, inS, all) == [v \in V |-> Highest(Under(V, all, v), all[v], inS[v])]
LeastDeal(V, inS, all) == Joined(LowParts(V, inS, all), V)
GreatestDeal(V, inS, all) == Joined(HighParts(V, inS, all), V)
SumsOf(P, V) == [v \in V |-> SetSum(P[v])]

\* They are dealings, and their sums are those of their groups.
LEMMA EndDeals ==
  ASSUME NEW V, NEW inS, NEW all, NEW k, Dealt(V, inS, all, k)
  PROVE  /\ LeastDeal(V, inS, all) \in Deals(V, inS, all, k) /\ GreatestDeal(V, inS, all) \in Deals(V, inS, all, k)
         /\ SetSum(LeastDeal(V, inS, all)) = SumOver(SumsOf(LowParts(V, inS, all), V), V)
         /\ SetSum(GreatestDeal(V, inS, all)) = SumOver(SumsOf(HighParts(V, inS, all), V), V)
         /\ IntegersOn(SumsOf(LowParts(V, inS, all), V), V) /\ IntegersOn(SumsOf(HighParts(V, inS, all), V), V)
         /\ k \in Nat
<1> DEFINE L == LowParts(V, inS, all)
           H == HighParts(V, inS, all)
<1>1. ASSUME NEW v \in V
      PROVE  /\ L[v] \in SUBSET Block(V, all, v) /\ Cardinality(L[v]) = inS[v]
             /\ H[v] \in SUBSET Block(V, all, v) /\ Cardinality(H[v]) = inS[v]
  <2> DEFINE lo == Under(V, all, v)
  <2>1. lo \in Nat /\ all[v] \in Nat /\ inS[v] \in 0 .. all[v] /\ Block(V, all, v) = lo + 1 .. lo + all[v]
    BY BlockIs DEF Dealt
  <2>2. L[v] = Lowest(lo, inS[v]) /\ H[v] = Highest(lo, all[v], inS[v])
    BY DEF LowParts, HighParts
  <2> HIDE DEF L, H, lo
  <2> QED
    BY <2>1, <2>2, EndsOfBlock
<1>2. InBlocks(L, V, inS, all) /\ InBlocks(H, V, inS, all)
  <2> HIDE DEF L, H
  <2> QED
    BY <1>1 DEF InBlocks
<1>3. (\A v \in V : SumsOf(L, V)[v] = SetSum(L[v])) /\ \A v \in V : SumsOf(H, V)[v] = SetSum(H[v])
  BY DEF SumsOf
<1> HIDE DEF L, H
<1>4. /\ Joined(L, V) \in Deals(V, inS, all, k) /\ SetSum(Joined(L, V)) = SumOver(SumsOf(L, V), V)
      /\ IntegersOn(SumsOf(L, V), V) /\ k \in Nat
  BY <1>2, <1>3, PartsDealt
<1>5. /\ Joined(H, V) \in Deals(V, inS, all, k) /\ SetSum(Joined(H, V)) = SumOver(SumsOf(H, V), V)
      /\ IntegersOn(SumsOf(H, V), V)
  BY <1>2, <1>3, PartsDealt
<1> QED
  BY <1>4, <1>5 DEF LeastDeal, GreatestDeal, L, H

\* The rank sum of a dealing is between those of the least and the greatest one.
LEMMA DealsBetween ==
  ASSUME NEW V, NEW inS, NEW all, NEW k, Dealt(V, inS, all, k), NEW R \in Deals(V, inS, all, k)
  PROVE  /\ SetSum(LeastDeal(V, inS, all)) <= SetSum(R) /\ SetSum(R) <= SetSum(GreatestDeal(V, inS, all))
         /\ SetSum(R) \in Int /\ SetSum(LeastDeal(V, inS, all)) \in Int /\ SetSum(GreatestDeal(V, inS, all)) \in Int
<1> DEFINE P == [v \in V |-> R \intersect Block(V, all, v)]
           f == SumsOf(P, V)
           l == SumsOf(LowParts(V, inS, all), V)
           h == SumsOf(HighParts(V, inS, all), V)
           n == SumOver(all, V)
<1>1. InBlocks(P, V, inS, all)
  BY DEF InBlocks, Deals
<1>2. \A v \in V : f[v] = SetSum(P[v])
  BY DEF SumsOf
<1>3. Joined(P, V) = R
  <2> DEFINE B == [v \in V |-> Block(V, all, v)]
  <2>1. \A v \in V : B[v] = Block(V, all, v) /\ P[v] = R \intersect Block(V, all, v)
    OBVIOUS
  <2>2. Grouped(V, all) /\ R \in SUBSET (1 .. n)
    BY DEF Dealt, Deals, Picks
  <2> HIDE DEF B, P, n
  <2>3. Joined(B, V) = 1 .. n
    BY <2>1, <2>2, BlocksPart DEF n
  <2>4. \A r \in R : \E v \in V : r \in Block(V, all, v)
    BY <2>1, <2>2, <2>3 DEF Joined
  <2> QED
    BY <2>1, <2>4 DEF Joined
<1> HIDE DEF P
<1>4. SetSum(R) = SumOver(f, V) /\ IntegersOn(f, V)
  <2> HIDE DEF f
  <2> QED
    BY <1>1, <1>2, <1>3, PartsDealt
<1>5. IntegersOn(l, V) /\ IntegersOn(h, V) /\ SetSum(LeastDeal(V, inS, all)) = SumOver(l, V)
      /\ SetSum(GreatestDeal(V, inS, all)) = SumOver(h, V)
  BY EndDeals
<1>6. ASSUME NEW v \in V PROVE l[v] <= f[v] /\ f[v] <= h[v]
  <2> DEFINE lo == Under(V, all, v)
  <2>1. lo \in Nat /\ all[v] \in Nat /\ Block(V, all, v) = lo + 1 .. lo + all[v]
    BY BlockIs DEF Dealt
  <2>2. P[v] \in SUBSET (lo + 1 .. lo + all[v]) /\ Cardinality(P[v]) = inS[v]
    BY <1>1, <2>1 DEF InBlocks
  <2>3. l[v] = SetSum(Lowest(lo, inS[v])) /\ h[v] = SetSum(Highest(lo, all[v], inS[v])) /\ f[v] = SetSum(P[v])
    BY DEF LowParts, HighParts, SumsOf
  <2> HIDE DEF lo, l, h, f
  <2> QED
    BY <2>1, <2>2, <2>3, SumWithinBlock
<1> HIDE DEF f, l, h
<1>7. IsFiniteSet(V)
  BY DEF Dealt, Grouped
<1>8. SumOver(l, V) <= SumOver(f, V) /\ SumOver(f, V) <= SumOver(h, V)
  BY <1>4, <1>5, <1>6, <1>7, SumOrder
<1>9. SumOver(l, V) \in Int /\ SumOver(f, V) \in Int /\ SumOver(h, V) \in Int
  BY <1>4, <1>5, <1>7, SumInt
<1> QED
  BY <1>4, <1>5, <1>8, <1>9

\* The sums that rank_sum_test works with.
LEMMA ModelRankSums ==
  ASSUME NEW V, NEW inS, NEW all, NEW k, Dealt(V, inS, all, k)
  PROVE  SA!RankSums(V, inS, all) = <<SetSum(LeastDeal(V, inS, all)), SetSum(GreatestDeal(V, inS, all))>>
<1> DEFINE l == SumsOf(LowParts(V, inS, all), V)
           h == SumsOf(HighParts(V, inS, all), V)
<1>1. \A v \in V : SA!Below(V, all, v) = Under(V, all, v)
  BY ModelSums DEF SA!Below, Under
<1>2. ASSUME NEW v \in V
      PROVE  /\ SA!SumSet({SA!Below(V, all, v) + c : c \in 1 .. inS[v]}) = SetSum(Lowest(Under(V, all, v), inS[v]))
             /\ SA!SumSet({SA!Below(V, all, v) + all[v] + 1 - c : c \in 1 .. inS[v]})
                  = SetSum(Highest(Under(V, all, v), all[v], inS[v]))
  <2> DEFINE lo == Under(V, all, v)
  <2>1. lo \in Nat /\ all[v] \in Nat /\ inS[v] \in 0 .. all[v]
    BY BlockIs DEF Dealt
  <2>2. SA!Below(V, all, v) = lo
    BY <1>1
  <2> HIDE DEF lo
  <2>3. /\ Lowest(lo, inS[v]) \in SUBSET (lo + 1 .. lo + all[v]) /\ IsFiniteSet(Lowest(lo, inS[v]))
        /\ Highest(lo, all[v], inS[v]) \in SUBSET (lo + 1 .. lo + all[v]) /\ IsFiniteSet(Highest(lo, all[v], inS[v]))
    BY <2>1, EndsOfBlock
  <2>4. Lowest(lo, inS[v]) \in SUBSET Int /\ Highest(lo, all[v], inS[v]) \in SUBSET Int
    BY <2>1, <2>3
  <2>5. SA!SumSet(Lowest(lo, inS[v])) = SetSum(Lowest(lo, inS[v]))
        /\ SA!SumSet(Highest(lo, all[v], inS[v])) = SetSum(Highest(lo, all[v], inS[v]))
    BY <2>3, <2>4, ModelSetSum
  <2> QED
    BY <2>2, <2>5, Zenon DEF Lowest, Highest, lo
<1>3. [v \in V |-> SA!SumSet({SA!Below(V, all, v) + c : c \in 1 .. inS[v]})] = l
  BY <1>2, Zenon DEF SumsOf, LowParts
<1>4. [v \in V |-> SA!SumSet({SA!Below(V, all, v) + all[v] + 1 - c : c \in 1 .. inS[v]})] = h
  BY <1>2, Zenon DEF SumsOf, HighParts
<1>5. DOMAIN l = V /\ DOMAIN h = V
  BY DEF SumsOf
<1>6. SumOver(l, V) = SetSum(LeastDeal(V, inS, all)) /\ SumOver(h, V) = SetSum(GreatestDeal(V, inS, all))
  BY EndDeals
<1> HIDE DEF l, h
<1>7. SA!SumFunction(l) = SumOver(l, V) /\ SA!SumFunction(h) = SumOver(h, V)
  BY <1>5, ModelSums
<1> QED
  BY <1>3, <1>4, <1>6, <1>7, Zenon DEF SA!RankSums

-----------------------------------------------------------------------------
(* The test with tied ranks. *)

\* The tail for rank sums from l to g.
TailFrom(k, m, l, g) ==
  IF 2 * l <= Middle(k, m) /\ Middle(k, m) <= 2 * g THEN SA!One
  ELSE IF 2 * g < Middle(k, m) THEN TwoSided(k, m, g) ELSE TwoSided(k, m, Middle(k, m) - l)

\* With the expectation in between it is 1, otherwise that of the sum that is nearer.
LEMMA TailValue ==
  ASSUME NEW k \in Nat, NEW m \in Nat \ {0}, NEW l \in Int, NEW g \in Int, Tri(k) <= g, l <= Middle(k, m) - Tri(k)
  PROVE  SA!TailOfRanks(<<l, g>>, k, m) = TailFrom(k, m, l, g)
<1> DEFINE c == Middle(k, m)
           e == Tri(k)
           h == k * m
<1>1. c \in Nat /\ c = 2 * e + h /\ h \in Nat /\ e \in Nat
  BY MiddleIs
<1>2. k * (k + m + 1) = c /\ (k * (k + 1)) \div 2 = e
  <2>1. k + m + 1 = m + k + 1
    OBVIOUS
  <2> QED
    BY <2>1, Zenon DEF Middle, Tri
<1>3. SA!TailOfRanks(<<l, g>>, k, m) =
        IF 2 * l <= c /\ c <= 2 * g THEN SA!One
        ELSE SA!RankSumP(k, m, IF 2 * g < c THEN g - e ELSE h - (l - e))
  <2> DEFINE s == <<l, g>>
  <2>1. s[1] = l /\ s[2] = g
    OBVIOUS
  <2> HIDE DEF s
  <2>2. SA!TailOfRanks(s, k, m) =
          IF 2 * s[1] <= c /\ c <= 2 * s[2] THEN SA!One
          ELSE SA!RankSumP(k, m, IF 2 * s[2] < c THEN s[2] - e ELSE h - (s[1] - e))
    BY <1>2, Zenon DEF SA!TailOfRanks
  <2> QED
    BY <2>1, <2>2, Zenon DEF s
<1> HIDE DEF c, e, h
<1>4. g - e \in Nat /\ h - (l - e) \in Nat /\ e + (g - e) = g /\ e + (h - (l - e)) = c - l
  <2>1. e <= g /\ l <= c - e
    BY DEF c, e
  <2> QED
    BY <1>1, <2>1
<1>5. SA!RankSumP(k, m, g - e) = TwoSided(k, m, g)
  <2>1. SA!RankSumP(k, m, g - e) = TwoSided(k, m, e + (g - e))
    BY <1>4, RankSumPIs DEF e
  <2> QED
    BY <1>4, <2>1, Zenon
<1>6. SA!RankSumP(k, m, h - (l - e)) = TwoSided(k, m, c - l)
  <2>1. SA!RankSumP(k, m, h - (l - e)) = TwoSided(k, m, e + (h - (l - e)))
    BY <1>4, RankSumPIs DEF e
  <2> QED
    BY <1>4, <2>1, Zenon
<1>7. TailFrom(k, m, l, g) = IF 2 * l <= c /\ c <= 2 * g THEN SA!One
                             ELSE IF 2 * g < c THEN TwoSided(k, m, g) ELSE TwoSided(k, m, c - l)
  BY DEF TailFrom, c
<1>8. CASE 2 * g < c
  <2>1. (IF 2 * g < c THEN g - e ELSE h - (l - e)) = g - e
    BY <1>8, Zenon
  <2>2. SA!TailOfRanks(<<l, g>>, k, m) = IF 2 * l <= c /\ c <= 2 * g THEN SA!One ELSE SA!RankSumP(k, m, g - e)
    BY <1>3, <2>1, Zenon
  <2>3. CASE 2 * l <= c /\ c <= 2 * g
    BY <1>7, <2>2, <2>3
  <2>4. CASE ~(2 * l <= c /\ c <= 2 * g)
    BY <1>5, <1>7, <1>8, <2>2, <2>4
  <2> QED
    BY <2>3, <2>4
<1>9. CASE ~(2 * g < c)
  <2>1. (IF 2 * g < c THEN g - e ELSE h - (l - e)) = h - (l - e)
    BY <1>9, Zenon
  <2>2. SA!TailOfRanks(<<l, g>>, k, m) = IF 2 * l <= c /\ c <= 2 * g THEN SA!One ELSE SA!RankSumP(k, m, h - (l - e))
    BY <1>3, <2>1, Zenon
  <2>3. CASE 2 * l <= c /\ c <= 2 * g
    BY <1>7, <2>2, <2>3
  <2>4. CASE ~(2 * l <= c /\ c <= 2 * g)
    BY <1>6, <1>7, <1>9, <2>2, <2>4
  <2> QED
    BY <2>3, <2>4
<1> QED
  BY <1>8, <1>9

\* The other sample of the same size has the mirrored rank sums.
LEMMA TailMirrors ==
  ASSUME NEW k \in Nat, NEW m \in Nat, NEW l \in Int, NEW g \in Int, l <= g
  PROVE  TailFrom(k, m, Middle(k, m) - g, Middle(k, m) - l) = TailFrom(k, m, l, g)
<1> DEFINE c == Middle(k, m)
<1>1. c \in Nat
  BY MiddleIs
<1>2. TailFrom(k, m, c - g, c - l) = IF 2 * (c - g) <= c /\ c <= 2 * (c - l) THEN SA!One
                                     ELSE IF 2 * (c - l) < c THEN TwoSided(k, m, c - l) ELSE TwoSided(k, m, c - (c - g))
  BY DEF TailFrom
<1>3. TailFrom(k, m, l, g) = IF 2 * l <= c /\ c <= 2 * g THEN SA!One
                             ELSE IF 2 * g < c THEN TwoSided(k, m, g) ELSE TwoSided(k, m, c - l)
  BY DEF TailFrom
<1> HIDE DEF c
<1>4. c - (c - g) = g /\ (2 * (c - g) <= c <=> c <= 2 * g) /\ (c <= 2 * (c - l) <=> 2 * l <= c) /\ (2 * (c - l) < c <=> c < 2 * l)
  BY <1>1
<1>5. CASE 2 * l <= c /\ c <= 2 * g
  BY <1>2, <1>3, <1>4, <1>5 DEF c
<1>6. CASE ~(2 * l <= c) 
  <2>1. c < 2 * l /\ ~(2 * g < c)
    BY <1>1, <1>6
  <2> QED
    BY <1>2, <1>3, <1>4, <1>6, <2>1, Zenon DEF c
<1>7. CASE 2 * l <= c /\ ~(c <= 2 * g)
  <2>1. ~(c < 2 * l) /\ 2 * g < c
    BY <1>1, <1>7
  <2> QED
    BY <1>2, <1>3, <1>4, <1>7, <2>1, Zenon DEF c
<1> QED
  BY <1>5, <1>6, <1>7

-----------------------------------------------------------------------------
\* What the exact test should be for these dealings.
LeastFavourable(D, k, m, p) ==
  \/ p = SA!One /\ \E R, S \in D : 2 * SetSum(R) <= Middle(k, m) /\ Middle(k, m) <= 2 * SetSum(S)
  \/ (\A R \in D : SA!Leq(Extreme(k, m, SetSum(R)), p)) /\ \E S \in D : Extreme(k, m, SetSum(S)) = p

\* TailFrom is that, if the dealings have sums from l to g and both of them.
LEMMA TailRight ==
  ASSUME NEW k \in Nat, NEW m \in Nat, NEW D, NEW L \in D, NEW G \in D,
         \A R \in D : SetSum(R) \in Int /\ SetSum(L) <= SetSum(R) /\ SetSum(R) <= SetSum(G)
  PROVE  LeastFavourable(D, k, m, TailFrom(k, m, SetSum(L), SetSum(G)))
<1> DEFINE c == Middle(k, m)
           l == SetSum(L)
           g == SetSum(G)
           p == TailFrom(k, m, l, g)
<1>1. c \in Nat /\ l \in Int /\ g \in Int
  BY MiddleIs
<1>2. p = IF 2 * l <= c /\ c <= 2 * g THEN SA!One ELSE IF 2 * g < c THEN TwoSided(k, m, g) ELSE TwoSided(k, m, c - l)
  BY DEF TailFrom
<1> HIDE DEF c, p
<1>3. CASE 2 * l <= c /\ c <= 2 * g
  BY <1>2, <1>3 DEF LeastFavourable, c, p
<1>4. CASE 2 * g < c
  <2>1. p = TwoSided(k, m, g)
    <3>1. ~(c <= 2 * g)
      BY <1>1, <1>4
    <3> HIDE DEF l, g
    <3> QED
      BY <1>2, <1>4, <3>1
  <2>2. ASSUME NEW R \in D PROVE Extreme(k, m, SetSum(R)) = TwoSided(k, m, SetSum(R)) /\ SA!Leq(TwoSided(k, m, SetSum(R)), p)
    <3> DEFINE r == SetSum(R)
    <3>1. r \in Int /\ r <= g
      OBVIOUS
    <3> HIDE DEF r, g, l
    <3>2. 2 * r <= c
      BY <1>1, <1>4, <3>1
    <3>3. Extreme(k, m, r) = TwoSided(k, m, r)
      BY <3>1, <3>2, ExtremeIs DEF c
    <3>4. SA!Leq(TwoSided(k, m, r), TwoSided(k, m, g))
      BY <1>1, <3>1, TwoSidedGrows
    <3> QED
      BY <2>1, <3>3, <3>4 DEF r
  <2>3. \A R \in D : SA!Leq(Extreme(k, m, SetSum(R)), p)
    BY <2>2
  <2>4. Extreme(k, m, SetSum(G)) = p
    BY <2>1, <2>2
  <2> QED
    BY <2>3, <2>4, Zenon DEF LeastFavourable, p
<1>5. CASE ~(2 * l <= c)
  <2>1. p = TwoSided(k, m, c - l)
    <3>1. l <= g
      OBVIOUS
    <3> HIDE DEF l, g
    <3>2. ~(2 * g < c)
      BY <1>1, <1>5, <3>1
    <3> QED
      BY <1>2, <1>5, <3>2
  <2>2. ASSUME NEW R \in D
        PROVE  Extreme(k, m, SetSum(R)) = TwoSided(k, m, c - SetSum(R)) /\ SA!Leq(TwoSided(k, m, c - SetSum(R)), p)
    <3> DEFINE r == SetSum(R)
    <3>1. r \in Int /\ l <= r
      OBVIOUS
    <3> HIDE DEF r, g, l
    <3>2. 2 * r >= c /\ c - r \in Int /\ c - l \in Int /\ c - r <= c - l
      BY <1>1, <1>5, <3>1
    <3>3. Extreme(k, m, r) = TwoSided(k, m, c - r)
      BY <3>1, <3>2, ExtremeIs DEF c
    <3>4. SA!Leq(TwoSided(k, m, c - r), TwoSided(k, m, c - l))
      BY <3>2, TwoSidedGrows
    <3> QED
      BY <2>1, <3>3, <3>4 DEF r
  <2>3. \A R \in D : SA!Leq(Extreme(k, m, SetSum(R)), p)
    BY <2>2
  <2>4. Extreme(k, m, SetSum(L)) = p
    BY <2>1, <2>2
  <2> QED
    BY <2>3, <2>4, Zenon DEF LeastFavourable, p
<1> QED
  <2>1. (2 * l <= c /\ c <= 2 * g) \/ 2 * g < c \/ ~(2 * l <= c)
    <3> HIDE DEF l, g
    <3> QED
      BY <1>1
  <2> QED
    BY <2>1, <1>3, <1>4, <1>5

\* The p-value for tied ranks, rank_sum_p of TailOfRanks, is that of the dealing that is least in favour of a
\* difference (libpilot.cc 1461-1471): no dealing has a greater one.
THEOREM RankSumTail ==
  ASSUME NEW V, NEW inS, NEW all, NEW k, Dealt(V, inS, all, k), NEW m \in Nat \ {0}, SumOver(all, V) = m + k
  PROVE  LET p == SA!TailOfRanks(SA!RankSums(V, inS, all), k, m)
             l == SetSum(LeastDeal(V, inS, all))
             g == SetSum(GreatestDeal(V, inS, all))
         IN p = TailFrom(k, m, l, g) /\ LeastFavourable(Deals(V, inS, all, k), k, m, p) /\ l \in Int /\ g \in Int /\ l <= g
<1> DEFINE D == Deals(V, inS, all, k)
           L == LeastDeal(V, inS, all)
           G == GreatestDeal(V, inS, all)
<1>1. L \in D /\ G \in D /\ k \in Nat
  BY EndDeals
<1>2. \A R \in D : SetSum(R) \in Int /\ SetSum(L) <= SetSum(R) /\ SetSum(R) <= SetSum(G)
  BY DealsBetween
<1>3. L \in Picks(k, m + k) /\ G \in Picks(k, m + k)
  BY <1>1 DEF Deals
<1>4. SA!RankSums(V, inS, all) = <<SetSum(L), SetSum(G)>>
  BY ModelRankSums
<1> HIDE DEF D, L, G
<1>5. SetSum(G) >= Tri(k) /\ SetSum(L) <= Middle(k, m) - Tri(k)
  BY <1>1, <1>3, LeastSum, GreatestSum
<1>6. SetSum(L) \in Int /\ SetSum(G) \in Int /\ SetSum(L) <= SetSum(G) /\ Tri(k) \in Nat
  BY <1>1, <1>2, TriIs
<1>7. Tri(k) <= SetSum(G)
  BY <1>5, <1>6
<1>8. SA!TailOfRanks(<<SetSum(L), SetSum(G)>>, k, m) = TailFrom(k, m, SetSum(L), SetSum(G))
  BY <1>1, <1>5, <1>6, <1>7, TailValue
<1>9. LeastFavourable(D, k, m, TailFrom(k, m, SetSum(L), SetSum(G)))
  BY <1>1, <1>2, TailRight
<1> QED
  BY <1>4, <1>6, <1>8, <1>9 DEF D, L, G

-----------------------------------------------------------------------------
(* Fisher's test. *)
Lower(S, c) == S \intersect (1 .. c)
Upper(S, c) == S \ (1 .. c)
Split(k, n, c, i) == {S \in Picks(k, n) : Cardinality(Lower(S, c)) = i}
Pieces(S, c) == <<Lower(S, c), {(-c) + 1 * x : x \in Upper(S, c)}>>

\* A choice is one of its lower and one of its upper numbers.
LEMMA LowerIs ==
  ASSUME NEW n \in Nat, NEW c \in 0 .. n, NEW k, NEW S \in Picks(k, n)
  PROVE  /\ Cardinality(Lower(S, c)) \in 0 .. c /\ k - Cardinality(Lower(S, c)) \in 0 .. n - c /\ k \in Nat
         /\ Upper(S, c) \in SUBSET (c + 1 .. n) /\ Cardinality(Upper(S, c)) = k - Cardinality(Lower(S, c))
         /\ IsFiniteSet(S) /\ IsFiniteSet(Upper(S, c))
<1>1. IsFiniteSet(S) /\ Cardinality(S) = k /\ S \in SUBSET (1 .. n) /\ k \in Nat
  <2>1. S \in SUBSET (1 .. n) /\ Cardinality(S) = k
    BY DEF Picks
  <2> QED
    BY <2>1, FiniteSubsets
<1>2. c \in Nat /\ n - c \in Nat
  OBVIOUS
<1>3. IsFiniteSet(Upper(S, c)) /\ Cardinality(Upper(S, c)) = k - Cardinality(Lower(S, c))
  BY <1>1, FS_Difference DEF Lower, Upper
<1>4. Lower(S, c) \in SUBSET (1 .. c)
  BY DEF Lower
<1>5. Cardinality(Lower(S, c)) \in Nat /\ Cardinality(Lower(S, c)) <= c
  BY <1>2, <1>4, FiniteSubsets
<1>6. Upper(S, c) \in SUBSET (c + 1 .. n)
  BY <1>1, <1>2 DEF Upper
<1>7. IsFiniteSet(c + 1 .. n) /\ Cardinality(c + 1 .. n) = n - c
  <2>1. c + 1 \in Int /\ n \in Int
    BY <1>2
  <2>2. IsFiniteSet(c + 1 .. n) /\ Cardinality(c + 1 .. n) = IF c + 1 > n THEN 0 ELSE n - (c + 1) + 1
    BY <2>1, FS_Interval
  <2> QED
    BY <2>2
<1>8. Cardinality(Upper(S, c)) <= n - c /\ Cardinality(Upper(S, c)) \in Nat
  BY <1>3, <1>6, <1>7, FS_Subset, FS_CardinalityType
<1> QED
  BY <1>1, <1>2, <1>3, <1>5, <1>6, <1>8

\* A choice is one among the lower ones and one among the others.
LEMMA SplitCount ==
  ASSUME NEW n \in Nat, NEW c \in 0 .. n, NEW k \in Nat, NEW i \in 0 .. k
  PROVE  Cardinality(Split(k, n, c, i)) = Cardinality(Picks(i, c)) * Cardinality(Picks(k - i, n - c))
<1> DEFINE A == Split(k, n, c, i)
           B == Picks(i, c) \X Picks(k - i, n - c)
           m == [S \in A |-> Pieces(S, c)]
           Up(q) == {c + 1 * x : x \in q}
           Down(q) == {(-c) + 1 * x : x \in q}
<1>1. c \in Nat /\ n - c \in Nat /\ k - i \in Nat /\ c \in Int /\ -c \in Int
  OBVIOUS
<1>2. IsFiniteSet(A)
  <2>1. IsFiniteSet(Picks(k, n))
    BY CountIsNat
  <2>2. A \subseteq Picks(k, n)
    BY DEF Split
  <2> QED
    BY <2>1, <2>2, FS_Subset
<1>3. \A S \in A : m[S] = <<Lower(S, c), Down(Upper(S, c))>>
  BY DEF Pieces
<1>4. ASSUME NEW q \in SUBSET (c + 1 .. n) PROVE Down(q) \in SUBSET (1 .. n - c) /\ Up(Down(q)) = q
  <2>1. Down(q) \in SUBSET (1 .. n - c)
    BY <1>1
  <2>2. \A x \in q : c + 1 * ((-c) + 1 * x) = x
    BY <1>1
  <2> QED
    BY <2>1, <2>2
<1>5. ASSUME NEW q \in SUBSET (1 .. n - c) PROVE Up(q) \in SUBSET (c + 1 .. n) /\ Down(Up(q)) = q
  <2>1. Up(q) \in SUBSET (c + 1 .. n)
    BY <1>1
  <2>2. \A x \in q : (-c) + 1 * (c + 1 * x) = x
    BY <1>1
  <2> QED
    BY <2>1, <2>2
<1>6. \A q : Shifted(Up(q), q, c, 1) /\ Shifted(Down(q), q, -c, 1)
  BY DEF Shifted
<1> HIDE DEF m, Up, Down
<1>7. ASSUME NEW S \in A PROVE m[S] \in B /\ S = m[S][1] \union Up(m[S][2])
  <2>1. S \in Picks(k, n) /\ Cardinality(Lower(S, c)) = i
    BY DEF Split
  <2>2. Upper(S, c) \in SUBSET (c + 1 .. n) /\ Cardinality(Upper(S, c)) = k - i /\ IsFiniteSet(Upper(S, c))
    <3>1. Upper(S, c) \in SUBSET (c + 1 .. n) /\ Cardinality(Upper(S, c)) = k - Cardinality(Lower(S, c))
          /\ IsFiniteSet(Upper(S, c))
      <4> HIDE DEF A, B
      <4> QED
        BY <2>1, LowerIs
    <3> QED
      BY <2>1, <3>1, Zenon
  <2>3. Lower(S, c) \in Picks(i, c)
    BY <2>1 DEF Picks, Lower
  <2>4. Upper(S, c) \in SUBSET Int
    BY <2>2
  <2>5. Cardinality(Down(Upper(S, c))) = k - i
    BY <1>1, <1>6, <2>2, <2>4, MovedSum
  <2>6. Down(Upper(S, c)) \in Picks(k - i, n - c)
    BY <1>4, <2>2, <2>5 DEF Picks
  <2>7. S = Lower(S, c) \union Up(Down(Upper(S, c)))
    BY <1>4, <2>2 DEF Lower, Upper
  <2> QED
    <3>1. m[S] = <<Lower(S, c), Down(Upper(S, c))>>
      BY <1>3
    <3>2. m[S][1] = Lower(S, c) /\ m[S][2] = Down(Upper(S, c))
      BY <3>1
    <3>3. m[S] \in B
      BY <2>3, <2>6, <3>1
    <3> QED
      BY <2>7, <3>2, <3>3, Zenon
<1>8. \A S \in A : m[S] \in B
  BY <1>7
<1>9. \A S, T \in A : m[S] = m[T] => S = T
  BY <1>7
<1>10. ASSUME NEW z \in B PROVE \E S \in A : m[S] = z
  <2> DEFINE p == z[1]
             q == z[2]
             S == p \union Up(q)
  <2>1. p \in SUBSET (1 .. c) /\ q \in SUBSET (1 .. n - c) /\ Cardinality(p) = i /\ Cardinality(q) = k - i /\ z = <<p, q>>
    BY DEF Picks
  <2> HIDE DEF p, q
  <2>2. Up(q) \in SUBSET (c + 1 .. n) /\ Down(Up(q)) = q
    BY <1>5, <2>1
  <2>3. IsFiniteSet(p) /\ IsFiniteSet(q) /\ q \in SUBSET Int
    <3>1. q \in SUBSET Int
      BY <2>1
    <3> QED
      BY <1>1, <2>1, <3>1, FiniteSubsets
  <2>4. IsFiniteSet(Up(q)) /\ Cardinality(Up(q)) = k - i
    BY <1>1, <1>6, <2>1, <2>3, MovedSum
  <2>5. p \intersect Up(q) = {} /\ p \union Up(q) \in SUBSET (1 .. n)
    <3>1. \A x \in 1 .. c : x \notin c + 1 .. n /\ x \in 1 .. n
      BY <1>1
    <3>2. \A x \in c + 1 .. n : x \in 1 .. n
      BY <1>1
    <3>3. p \subseteq 1 .. c /\ Up(q) \subseteq c + 1 .. n
      BY <2>1, <2>2
    <3> QED
      BY <3>1, <3>2, <3>3, Zenon
  <2>6. Cardinality(p \union Up(q)) = Cardinality(p) + Cardinality(Up(q))
    BY <2>3, <2>4, <2>5, CountDisjoint
  <2>7. i + (k - i) = k
    BY <1>1
  <2>8. Cardinality(S) = k
    BY <2>1, <2>4, <2>6, <2>7
  <2>9. Lower(S, c) = p /\ Upper(S, c) = Up(q)
    <3>1. \A x \in 1 .. c : x \notin c + 1 .. n
      BY <1>1
    <3>2. p \subseteq 1 .. c /\ Up(q) \subseteq c + 1 .. n
      BY <2>1, <2>2
    <3> QED
      BY <3>1, <3>2, Zenon DEF Lower, Upper
  <2> HIDE DEF S
  <2>10. S \in A
    BY <2>1, <2>5, <2>8, <2>9 DEF Split, Picks, S
  <2>11. m[S] = z
    BY <1>3, <2>1, <2>2, <2>9, <2>10
  <2> QED
    BY <2>10, <2>11
<1> HIDE DEF A, B
<1>11. Cardinality(B) = Cardinality(A)
  BY <1>2, <1>8, <1>9, <1>10, CountMoved
<1>12. Cardinality(B) = Cardinality(Picks(i, c)) * Cardinality(Picks(k - i, n - c))
  <2>1. IsFiniteSet(Picks(i, c)) /\ IsFiniteSet(Picks(k - i, n - c))
    BY <1>1, CountIsNat
  <2> QED
    BY <2>1, FS_Product DEF B
<1> QED
  BY <1>11, <1>12 DEF A

-----------------------------------------------------------------------------
(* Tables of two classes. *)

\* The greater of two numbers, as the model has it.
LEMMA LargerOfTwo == ASSUME NEW a \in Int, NEW b \in Int PROVE SA!Max({a, b}) = IF a >= b THEN a ELSE b
<1>1. SA!Max({a, b}) = WA!Max({a, b})
  BY DEF SA!Max, WA!Max
<1> QED
  BY <1>1, GreaterOfTwo

\* Selections, and tables, that are as far from the expectation as x.
Further(n, c, k, x, i) == SA!Distance(n, c, k, x) <= SA!Distance(n, c, k, i)
FarSplits(k, n, c, x) == {S \in Picks(k, n) : Further(n, c, k, x, Cardinality(Lower(S, c)))}
Tables(k, n, c, x) == {i \in SA!Max({0, k + c - n}) .. SA!Min({k, c}) : Further(n, c, k, x, i)}
InTable(k, n, c) == [i \in Int |-> SA!Ways(c, i) * SA!Ways(n - c, k - i)]

\* The tables that are counted are all choices of them.
LEMMA TablesCount ==
  ASSUME NEW n \in Nat, NEW k \in Nat, NEW c \in 0 .. n, NEW x
  PROVE  Cardinality(FarSplits(k, n, c, x)) = SumOver(InTable(k, n, c), Tables(k, n, c, x))
         /\ Tables(k, n, c, x) \in SUBSET Int
<1> DEFINE X == FarSplits(k, n, c, x)
           C == Tables(k, n, c, x)
           f == InTable(k, n, c)
           d == [S \in X |-> Cardinality(Lower(S, c))]
<1>1. SA!Max({0, k + c - n}) \in Nat /\ SA!Min({k, c}) \in Nat
      /\ \A i \in Int : i \in SA!Max({0, k + c - n}) .. SA!Min({k, c}) <=> i \in 0 .. k /\ i <= c /\ k - i <= n - c
  <2>1. k \in Int /\ c \in Int /\ c \in Nat /\ n \in Int /\ 0 \in Int /\ k + c - n \in Int
    OBVIOUS
  <2>2. SA!Max({0, k + c - n}) = IF 0 >= k + c - n THEN 0 ELSE k + c - n
    BY <2>1, LargerOfTwo
  <2>3. SA!Min({k, c}) = IF k <= c THEN k ELSE c
    BY <2>1, LesserOfTwo
  <2> QED
    BY <2>1, <2>2, <2>3
<1>2. \A i \in C : i \in 0 .. k /\ i \in Int
  <2> TAKE i \in C
  <2>1. i \in SA!Max({0, k + c - n}) .. SA!Min({k, c})
    BY DEF Tables
  <2>2. i \in Int
    BY <1>1, <2>1
  <2> QED
    BY <1>1, <2>1, <2>2
<1>3. IsFiniteSet(C)
  <2>1. IsFiniteSet(0 .. k)
    BY FS_Interval
  <2>2. C \subseteq 0 .. k
    BY <1>2
  <2> QED
    BY <2>1, <2>2, FS_Subset
<1>4. IsFiniteSet(X)
  <2>1. IsFiniteSet(Picks(k, n))
    BY CountIsNat
  <2>2. X \subseteq Picks(k, n)
    BY DEF FarSplits
  <2> QED
    BY <2>1, <2>2, FS_Subset
<1>5. ASSUME NEW S \in X PROVE d[S] \in C
  <2>1. S \in Picks(k, n) /\ Further(n, c, k, x, Cardinality(Lower(S, c)))
    BY DEF FarSplits
  <2>2. Cardinality(Lower(S, c)) \in 0 .. c /\ k - Cardinality(Lower(S, c)) \in 0 .. n - c
    BY <2>1, LowerIs
  <2> DEFINE i == Cardinality(Lower(S, c))
  <2>3. d[S] = i
    OBVIOUS
  <2> HIDE DEF i, C, d
  <2>4. i \in Int /\ i \in 0 .. k /\ i <= c /\ k - i <= n - c
    BY <2>2 DEF i
  <2>5. i \in SA!Max({0, k + c - n}) .. SA!Min({k, c})
    BY <1>1, <2>4
  <2>6. i \in C
    BY <2>1, <2>5 DEF C, Tables, i
  <2> QED
    BY <2>3, <2>6
<1>6. ASSUME NEW i \in C PROVE f[i] = Cardinality({S \in X : d[S] = i})
  <2>1. i \in 0 .. k /\ i \in Int /\ Further(n, c, k, x, i)
    BY <1>2 DEF Tables
  <2>2. f[i] = Cardinality(Picks(i, c)) * Cardinality(Picks(k - i, n - c))
    BY <2>1, ModelPicks DEF InTable
  <2>3. {S \in X : d[S] = i} = Split(k, n, c, i)
    <3>1. \A S \in X : d[S] = Cardinality(Lower(S, c))
      OBVIOUS
    <3> HIDE DEF d
    <3> QED
      BY <2>1, <3>1 DEF FarSplits, Split
  <2> HIDE DEF X, C, f, d
  <2>4. Cardinality(Split(k, n, c, i)) = f[i]
    BY <2>1, <2>2, SplitCount
  <2> QED
    BY <2>3, <2>4, Zenon
<1> HIDE DEF X, C, f, d
<1>7. Cardinality(X) = SumOver(f, C)
  <2>1. (\A S \in X : d[S] \in C) /\ \A i \in C : f[i] = Cardinality({S \in X : d[S] = i})
    BY <1>5, <1>6
  <2>2. Classed(X, C, d, f)
    BY <2>1 DEF Classed
  <2> QED
    BY <1>3, <1>4, <2>2, CountByClass
<1>8. C \in SUBSET Int
  BY <1>2
<1> QED
  BY <1>7, <1>8 DEF X, C, f

\* There are choices of any size.
LEMMA WaysThere ==
  ASSUME NEW n \in Nat, NEW k \in 0 .. n PROVE SA!Ways(n, k) \in Nat \ {0} /\ SA!Ways(n, k) = Cardinality(Picks(k, n))
<1>1. k \in Nat /\ n - k \in Nat /\ (n - k) + k = n
  OBVIOUS
<1>2. Selections(k, n - k) \in Nat \ {0}
  BY <1>1, ChoicesNat
<1>3. Selections(k, n - k) = Cardinality(Picks(k, n))
  BY <1>1, Zenon DEF Selections
<1> QED
  BY <1>2, <1>3, ModelPicks

\* A share is never more than 1.
LEMMA ShareAtMostOne ==
  ASSUME NEW t \in Nat, NEW w \in Nat \ {0}, t <= w PROVE SA!Least(SA!One, SA!Rat(t, w)) = SA!Rat(t, w)
<1> DEFINE x == WA!Rat(t, w)
<1>1. x \in Fraction /\ Is(x, t, w) /\ Coprime(x[1], x[2])
  <2>1. t \in Int /\ w \in Int /\ w /= 0
    OBVIOUS
  <2> QED
    BY <2>1, RatParts, RatValue
<1> HIDE DEF x
<1>2. SA!Leq(SA!One, x) <=> w <= t
  BY <1>1, OneIs, OrderOf, SameArithmetic
<1>3. CASE w <= t
  <2>1. t = w
    BY <1>3
  <2>2. Is(SA!One, t, w)
    BY <2>1, OneIs DEF Is
  <2>3. Coprime(SA!One[1], SA!One[2])
    <3>1. \E s \in Int, r \in Int : s * 1 + r * 1 = 1
      <4> WITNESS 0 \in Int, 1 \in Int
      <4> QED
        OBVIOUS
    <3> QED
      BY <3>1, OneIs DEF Coprime
  <2>4. x = SA!One
    <3>1. t \in Int /\ w \in Int /\ w /= 0
      OBVIOUS
    <3> QED
      BY <1>1, <2>2, <2>3, <3>1, OneIs, SameNumber
  <2> QED
    BY <2>4, SameRat DEF SA!Least, x
<1>4. CASE ~(w <= t)
  BY <1>2, <1>4, SameRat DEF SA!Least, x
<1> QED
  BY <1>3, <1>4

\* fisher_exact_test is exact: its result is the share of the choices that are as far from the expectation, or further
\* (libpilot.cc 1318-1347).
THEOREM FisherIs ==
  ASSUME NEW n \in Nat, NEW k \in 0 .. n, NEW c \in 0 .. n, NEW x
  PROVE  SA!FisherTest(n, c, k, x) = SA!Rat(Cardinality(FarSplits(k, n, c, x)), Cardinality(Picks(k, n)))
<1> DEFINE T == Tables(k, n, c, x)
           g == [i \in T |-> SA!Ways(c, i) * SA!Ways(n - c, k - i)]
           t == Cardinality(FarSplits(k, n, c, x))
           w == Cardinality(Picks(k, n))
<1>1. SumOver(g, T) = t
  <2>1. t = SumOver(InTable(k, n, c), T) /\ T \in SUBSET Int
    BY TablesCount
  <2>2. \A i \in T : g[i] = InTable(k, n, c)[i]
    BY <2>1 DEF InTable
  <2>3. IsFiniteSet(T)
    <3>1. \E a \in Int, b \in Int : T \subseteq a .. b
      <4>1. k \in Int /\ c \in Int /\ n \in Int /\ k + c - n \in Int
        OBVIOUS
      <4>2. SA!Max({0, k + c - n}) \in Int /\ SA!Min({k, c}) \in Int
        <5>2. SA!Max({0, k + c - n}) \in Int
          <6>1. SA!Max({0, k + c - n}) = IF 0 >= k + c - n THEN 0 ELSE k + c - n
            BY <4>1, 0 \in Int, LargerOfTwo
          <6> QED
            BY <4>1, <6>1
        <5>3. SA!Min({k, c}) \in Int
          <6>1. SA!Min({k, c}) = IF k <= c THEN k ELSE c
            BY <4>1, LesserOfTwo
          <6> QED
            BY <4>1, <6>1
        <5> QED
          BY <5>2, <5>3
      <4>3. T \subseteq SA!Max({0, k + c - n}) .. SA!Min({k, c})
        BY DEF Tables
      <4> QED
        BY <4>2, <4>3
    <3> QED
      BY <3>1, FS_Interval, FS_Subset
  <2>4. IntegersOn(g, T)
    <3>1. \A i \in T : g[i] = Cardinality(Picks(i, c)) * Cardinality(Picks(k - i, n - c))
      BY ModelPicks
    <3>2. \A i : Cardinality(Picks(i, c)) \in Nat /\ Cardinality(Picks(k - i, n - c)) \in Nat
      <4>1. c \in Nat /\ n - c \in Nat
        OBVIOUS
      <4> QED
        BY <4>1, CountIsNat
    <3> HIDE DEF g
    <3> QED
      BY <3>1, <3>2 DEF IntegersOn
  <2> HIDE DEF T, g, t
  <2>5. SumOver(g, T) = SumOver(InTable(k, n, c), T)
    BY <2>2, <2>3, <2>4, SumSame
  <2> QED
    BY <2>1, <2>5
<1>2. SA!SumFunction(g) = SumOver(g, T)
  <2>1. DOMAIN g = T
    OBVIOUS
  <2> HIDE DEF g, T
  <2> QED
    BY <2>1, ModelSums
<1>3. SA!FisherTest(n, c, k, x) = SA!Least(SA!One, SA!Rat(SA!SumFunction(g), SA!Ways(n, k)))
  BY Zenon DEF SA!FisherTest, Tables, Further
<1>4. w \in Nat \ {0} /\ SA!Ways(n, k) = w
  BY WaysThere
<1>5. t \in Nat /\ t <= w
  <2>1. IsFiniteSet(Picks(k, n)) /\ FarSplits(k, n, c, x) \subseteq Picks(k, n)
    BY CountIsNat DEF FarSplits
  <2> QED
    BY <2>1, FS_Subset, FS_CardinalityType
<1> HIDE DEF g, t, w, T
<1>6. SA!Least(SA!One, SA!Rat(t, w)) = SA!Rat(t, w)
  BY <1>4, <1>5, ShareAtMostOne
<1> QED
  BY <1>1, <1>2, <1>3, <1>4, <1>6, Zenon DEF t, w

-----------------------------------------------------------------------------
\* R is a linear order of S; T has one that no other is above.
Ranked(R, S) == /\ \A x, y \in S : <<x, y>> \in R \/ <<y, x>> \in R
                /\ \A x, y, z \in S : <<x, y>> \in R /\ <<y, z>> \in R => <<x, z>> \in R
Topped(R, T) == \E x \in T : \A y \in T : <<y, x>> \in R

\* Some element of a finite set has none above it.
LEMMA TopThere == ASSUME NEW S, IsFiniteSet(S), S /= {}, NEW R, Ranked(R, S) PROVE Topped(R, S)
<1> DEFINE W == {T \in SUBSET S : T = {} \/ Topped(R, T)}
<1>1. {} \in W
  OBVIOUS
<1>2. ASSUME NEW T \in SUBSET S, T \in W, NEW x \in S, x \notin T PROVE T \union {x} \in W
  <2>1. <<x, x>> \in R
    BY DEF Ranked
  <2>2. Topped(R, T \union {x})
    <3>1. CASE T = {}
      BY <2>1, <3>1 DEF Topped
    <3>2. CASE T /= {}
      <4>1. PICK p \in T : \A y \in T : <<y, p>> \in R
        BY <1>2, <3>2 DEF Topped
      <4>2. CASE <<x, p>> \in R
        <5>1. \A y \in T \union {x} : <<y, p>> \in R
          BY <4>1, <4>2
        <5> QED
          BY <5>1 DEF Topped
      <4>3. CASE <<p, x>> \in R
        <5>1. \A y \in T \union {x} : <<y, x>> \in R
          BY <2>1, <4>1, <4>3 DEF Ranked
        <5> QED
          BY <5>1 DEF Topped
      <4> QED
        BY <4>2, <4>3 DEF Ranked
    <3> QED
      BY <3>1, <3>2
  <2> QED
    BY <2>2
<1> HIDE DEF W
<1>3. S \in W
  <2>1. Grows(W, S)
    BY <1>1, <1>2 DEF Grows
  <2> QED
    BY <2>1, SetInduction
<1> QED
  BY <1>3 DEF W

-----------------------------------------------------------------------------
(* The class test. *)
\* The value that makes the classes most equal.
Even(V, f) == SA!Min({v \in V : \A w \in V : f[w] <= f[v]})

\* There is such a value, as a finite set has a greatest one.
LEMMA EvenThere ==
  ASSUME NEW V \in SUBSET Int, IsFiniteSet(V), V /= {}, NEW f, IntegersOn(f, V) PROVE Even(V, f) \in V
<1> DEFINE R == {p \in V \X V : f[p[1]] <= f[p[2]]}
           T == {v \in V : \A w \in V : f[w] <= f[v]}
<1>1. \A x, y \in V : <<x, y>> \in R <=> f[x] <= f[y]
  OBVIOUS
<1>2. \A x \in V : f[x] \in Int
  BY DEF IntegersOn
<1> HIDE DEF R
<1>3. Ranked(R, V)
  <2>1. \A x, y \in V : f[x] <= f[y] \/ f[y] <= f[x]
    BY <1>2
  <2>2. \A x, y, z \in V : f[x] <= f[y] /\ f[y] <= f[z] => f[x] <= f[z]
    BY <1>2
  <2> QED
    BY <1>1, <2>1, <2>2 DEF Ranked
<1>4. T /= {}
  <2>1. PICK x \in V : \A y \in V : <<y, x>> \in R
    BY <1>3, TopThere DEF Topped
  <2>2. x \in T
    BY <1>1, <2>1
  <2> QED
    BY <2>2
<1>5. T \in SUBSET V
  OBVIOUS
<1> HIDE DEF T
<1>6. T \in SUBSET Int /\ IsFiniteSet(T)
  BY <1>5, FS_Subset
<1>7. \E x \in T : \A y \in T : x <= y
  BY <1>4, <1>6, Ends DEF HasEnds
<1>8. SA!Min(T) \in T
  BY <1>7 DEF SA!Min
<1> QED
  BY <1>5, <1>8 DEF Even, T

\* How many readings are not above v, for each v; and the value of ClassTest.
LowOf(V, all) == [v \in V |-> SA!Below(V, all, v) + all[v]]
EvenOf(V, all, n) == Even(V, [v \in V |-> SA!Min({LowOf(V, all)[v], n - LowOf(V, all)[v]})])
AtMost(V, f, v) == SumOver(f, {w \in V : w <= v})

\* Fisher's test of the classes at that value.
LEMMA ClassTestIs ==
  ASSUME NEW V, V /= {}, NEW inS, NEW all, NEW k, Dealt(V, inS, all, k), NEW n, n = SumOver(all, V), k \in 0 .. n
  PROVE  LET v == EvenOf(V, all, n)
         IN /\ v \in V /\ AtMost(V, all, v) \in 0 .. n
            /\ SA!ClassTest(V, inS, all, n, k)
                 = SA!Rat(Cardinality(FarSplits(k, n, AtMost(V, all, v), AtMost(V, inS, v))), Cardinality(Picks(k, n)))
<1> DEFINE low == LowOf(V, all)
           f == [v \in V |-> SA!Min({low[v], n - low[v]})]
           even == Even(V, f)
<1>1. Grouped(V, all) /\ IsFiniteSet(V) /\ V \in SUBSET Int
  BY DEF Dealt, Grouped
<1>2. \A v \in V : low[v] = AtMost(V, all, v) /\ low[v] \in 0 .. n /\ n \in Nat
  <2> TAKE v \in V
  <2>0. low[v] = SA!Below(V, all, v) + all[v]
    BY DEF LowOf
  <2>1. SA!Below(V, all, v) = Under(V, all, v)
    BY ModelSums DEF SA!Below, Under
  <2>2. Under(V, all, v) \in Nat /\ n \in Nat /\ Under(V, all, v) + all[v] = AtMost(V, all, v)
        /\ Under(V, all, v) + all[v] <= n /\ all[v] \in Nat
    BY <1>1, UnderIs DEF AtMost, Grouped
  <2> HIDE DEF low
  <2> QED
    BY <2>0, <2>1, <2>2
<1>3. IntegersOn(f, V)
  <2>1. \A v \in V : low[v] \in Int /\ n - low[v] \in Int
    BY <1>2
  <2> HIDE DEF low
  <2>2. \A v \in V : SA!Min({low[v], n - low[v]}) \in Int
    <3> TAKE v \in V
    <3> DEFINE p == low[v]
               q == n - low[v]
    <3>1. p \in Int /\ q \in Int
      BY <2>1
    <3> HIDE DEF p, q
    <3>2. SA!Min({p, q}) = IF p <= q THEN p ELSE q
      BY <3>1, LesserOfTwo
    <3>3. SA!Min({p, q}) \in Int
      BY <3>1, <3>2
    <3> QED
      BY <3>3 DEF p, q
  <2> QED
    BY <2>2 DEF IntegersOn
<1>4. even \in V
  <2> HIDE DEF f
  <2> QED
    BY <1>1, <1>3, EvenThere
<1>5. even = SA!Min({v \in V : \A w \in V : SA!Min({low[w], n - low[w]}) <= SA!Min({low[v], n - low[v]})})
  <2>1. \A v, w \in V : f[w] <= f[v] <=> SA!Min({low[w], n - low[w]}) <= SA!Min({low[v], n - low[v]})
    <3> HIDE DEF low
    <3> QED
      OBVIOUS
  <2> HIDE DEF f, low
  <2>2. {v \in V : \A w \in V : f[w] <= f[v]}
          = {v \in V : \A w \in V : SA!Min({low[w], n - low[w]}) <= SA!Min({low[v], n - low[v]})}
    BY <2>1
  <2> QED
    BY <2>2, Zenon DEF Even
<1>6. SA!TestAt(V, inS, low, n, k) = SA!FisherTest(n, low[even], k, SA!SumFunctionOnSet(inS, {w \in V : w <= even}))
  <2> HIDE DEF low, even
  <2> QED
    BY <1>5, Zenon DEF SA!TestAt
<1>7. SA!ClassTest(V, inS, all, n, k) = SA!TestAt(V, inS, low, n, k)
  BY DEF SA!ClassTest, LowOf
<1>8. SA!SumFunctionOnSet(inS, {w \in V : w <= even}) = AtMost(V, inS, even)
  BY ModelSums DEF AtMost
<1>12. even = EvenOf(V, all, n)
  BY DEF EvenOf
<1> HIDE DEF low, f, even
<1>9. low[even] = AtMost(V, all, even) /\ low[even] \in 0 .. n /\ n \in Nat
  BY <1>2, <1>4
<1>10. SA!FisherTest(n, low[even], k, AtMost(V, inS, even))
         = SA!Rat(Cardinality(FarSplits(k, n, low[even], AtMost(V, inS, even))), Cardinality(Picks(k, n)))
  BY <1>9, FisherIs
<1>11. SA!ClassTest(V, inS, all, n, k)
         = SA!Rat(Cardinality(FarSplits(k, n, AtMost(V, all, even), AtMost(V, inS, even))), Cardinality(Picks(k, n)))
  BY <1>6, <1>7, <1>8, <1>9, <1>10, Zenon
<1> QED
  BY <1>4, <1>9, <1>11, <1>12

-----------------------------------------------------------------------------
(* The groups of two samples. *)
ValuesOf(xs, ys) == SA!Range(xs) \union SA!Range(ys)

\* The values are finitely many integers.
LEMMA ValuesAre ==
  ASSUME NEW xs \in Seq(Int)
  PROVE  /\ DOMAIN xs = 1 .. Len(xs) /\ Len(xs) \in Nat /\ IsFiniteSet(DOMAIN xs) /\ \A i \in DOMAIN xs : xs[i] \in Int
         /\ IsFiniteSet(SA!Range(xs)) /\ SA!Range(xs) \in SUBSET Int
         /\ \A v : v \in SA!Range(xs) <=> \E i \in DOMAIN xs : xs[i] = v
         /\ \A v : SA!CountIn(xs, v) = Cardinality({i \in DOMAIN xs : xs[i] = v}) /\ SA!CountIn(xs, v) \in Nat
                   /\ (SA!CountIn(xs, v) = 0 <=> v \notin SA!Range(xs))
<1>1. DOMAIN xs = 1 .. Len(xs) /\ Len(xs) \in Nat /\ \A i \in DOMAIN xs : xs[i] \in Int
  OBVIOUS
<1>2. IsFiniteSet(DOMAIN xs)
  BY <1>1, FS_Interval
<1>3. SA!Range(xs) = {xs[i] : i \in DOMAIN xs}
  BY DEF SA!Range
<1>4. \A v : v \in SA!Range(xs) <=> \E i \in DOMAIN xs : xs[i] = v
  BY <1>3
<1>5. SA!Range(xs) \in SUBSET Int
  BY <1>1, <1>3
<1>6. IsFiniteSet(SA!Range(xs))
  <2>1. xs \in Surjection(DOMAIN xs, SA!Range(xs))
    BY <1>1, <1>4 DEF Surjection
  <2> QED
    BY <1>2, <2>1, FS_Surjection
<1>7. ASSUME NEW v
      PROVE  /\ SA!CountIn(xs, v) = Cardinality({i \in DOMAIN xs : xs[i] = v}) /\ SA!CountIn(xs, v) \in Nat
             /\ SA!CountIn(xs, v) = 0 <=> v \notin SA!Range(xs)
  <2> DEFINE X == {i \in DOMAIN xs : xs[i] = v}
  <2>1. SA!CountIn(xs, v) = Cardinality(X)
    BY ModelCount DEF SA!CountIn
  <2>2. X \subseteq DOMAIN xs /\ (X = {} <=> v \notin SA!Range(xs))
    BY <1>4
  <2> HIDE DEF X
  <2>3. IsFiniteSet(X)
    BY <1>2, <2>2, FS_Subset
  <2>4. Cardinality(X) \in Nat /\ (Cardinality(X) = 0 <=> X = {})
    BY <2>3, FS_CardinalityType, FS_EmptySet
  <2> QED
    BY <2>1, <2>2, <2>4 DEF X
<1> QED
  BY <1>1, <1>2, <1>4, <1>5, <1>6, <1>7

\* As many readings as their values have together.
LEMMA CountOfValues ==
  ASSUME NEW xs \in Seq(Int), NEW T, IsFiniteSet(T), NEW f, \A v \in T : f[v] = SA!CountIn(xs, v)
  PROVE  Cardinality({i \in DOMAIN xs : xs[i] \in T}) = SumOver(f, T)
<1> DEFINE X == {i \in DOMAIN xs : xs[i] \in T}
<1>1. IsFiniteSet(X)
  <2>1. X \subseteq DOMAIN xs
    OBVIOUS
  <2> HIDE DEF X
  <2> QED
    BY <2>1, ValuesAre, FS_Subset
<1>2. \A i \in X : xs[i] \in T
  OBVIOUS
<1>3. \A v \in T : f[v] = Cardinality({i \in X : xs[i] = v})
  <2> TAKE v \in T
  <2>1. {i \in X : xs[i] = v} = {i \in DOMAIN xs : xs[i] = v}
    OBVIOUS
  <2>2. f[v] = Cardinality({i \in DOMAIN xs : xs[i] = v})
    BY ValuesAre
  <2> HIDE DEF X
  <2> QED
    BY <2>1, <2>2, Zenon
<1> HIDE DEF X
<1>4. Classed(X, T, xs, f)
  BY <1>2, <1>3 DEF Classed
<1>5. Cardinality(X) = SumOver(f, T)
  BY <1>1, <1>4, CountByClass
<1> QED
  BY <1>5 DEF X

\* The readings of both samples, one after the other.
LEMMA Joining ==
  ASSUME NEW xs \in Seq(Int), NEW ys \in Seq(Int)
  PROVE  /\ xs \o ys \in Seq(Int) /\ Len(xs \o ys) = Len(xs) + Len(ys) /\ SA!Range(xs \o ys) = ValuesOf(xs, ys)
         /\ \A v : SA!CountIn(xs \o ys, v) = SA!CountIn(xs, v) + SA!CountIn(ys, v)
<1> DEFINE zs == xs \o ys
           m == Len(xs)
           n == Len(ys)
<1>1. zs \in Seq(Int) /\ Len(zs) = m + n /\ m \in Nat /\ n \in Nat
  OBVIOUS
<1>2. /\ DOMAIN xs = 1 .. m /\ DOMAIN ys = 1 .. n /\ DOMAIN zs = 1 .. m + n
      /\ (\A i \in 1 .. m : zs[i] = xs[i]) /\ \A i \in 1 .. n : zs[m + i] = ys[i]
  OBVIOUS
<1> HIDE DEF zs, m, n
<1>3. \A i \in 1 .. m + n : i \in 1 .. m \/ (i - m \in 1 .. n /\ i = m + (i - m))
  BY <1>1
<1>4. \A i \in 1 .. n : m + i \in 1 .. m + n /\ m + i \notin 1 .. m
  BY <1>1
<1>5. \A i \in 1 .. m : i \in 1 .. m + n
  BY <1>1
<1>6. \A v : (\E i \in 1 .. m + n : zs[i] = v) <=> (\E i \in 1 .. m : xs[i] = v) \/ (\E i \in 1 .. n : ys[i] = v)
  BY <1>2, <1>3, <1>4, <1>5
<1>7. SA!Range(zs) = ValuesOf(xs, ys)
  <2>1. \A v : v \in SA!Range(zs) <=> v \in SA!Range(xs) \/ v \in SA!Range(ys)
    <3>1. \A v : /\ v \in SA!Range(zs) <=> \E i \in DOMAIN zs : zs[i] = v
                 /\ v \in SA!Range(xs) <=> \E i \in DOMAIN xs : xs[i] = v
                 /\ v \in SA!Range(ys) <=> \E i \in DOMAIN ys : ys[i] = v
      BY <1>1, ValuesAre
    <3> QED
      BY <1>2, <1>6, <3>1, Zenon
  <2> QED
    BY <2>1 DEF ValuesOf
<1>8. ASSUME NEW v PROVE SA!CountIn(zs, v) = SA!CountIn(xs, v) + SA!CountIn(ys, v)
  <2> DEFINE A == {i \in 1 .. m : xs[i] = v}
             B == {i \in 1 .. n : ys[i] = v}
             C == {m + 1 * x : x \in B}
             Z == {i \in 1 .. m + n : zs[i] = v}
  <2>1. /\ Cardinality(Z) = SA!CountIn(zs, v) /\ Cardinality(A) = SA!CountIn(xs, v)
        /\ Cardinality(B) = SA!CountIn(ys, v)
    <3>1. /\ SA!CountIn(zs, v) = Cardinality({i \in DOMAIN zs : zs[i] = v})
          /\ SA!CountIn(xs, v) = Cardinality({i \in DOMAIN xs : xs[i] = v})
          /\ SA!CountIn(ys, v) = Cardinality({i \in DOMAIN ys : ys[i] = v})
      <4>1. \A ts \in Seq(Int) : SA!CountIn(ts, v) = Cardinality({i \in DOMAIN ts : ts[i] = v})
        BY ModelCount DEF SA!CountIn
      <4> QED
        BY <1>1, <4>1, Zenon
    <3> QED
      BY <1>2, <3>1, Zenon
  <2>2. IsFiniteSet(A) /\ IsFiniteSet(B) /\ B \in SUBSET Int
    <3>1. A \in SUBSET (1 .. m) /\ B \in SUBSET (1 .. n) /\ B \in SUBSET Int
      OBVIOUS
    <3> HIDE DEF A, B
    <3> QED
      BY <1>1, <3>1, FiniteSubsets
  <2>3. IsFiniteSet(C) /\ Cardinality(C) = Cardinality(B)
    <3>1. Shifted(C, B, m, 1) /\ m \in Int
      BY <1>1 DEF Shifted
    <3> HIDE DEF B, C
    <3> QED
      BY <2>2, <3>1, MovedSum
  <2>4. Z = A \union C
    <3>1. \A i \in Z : i \in A \/ i \in C
      <4> TAKE i \in Z
      <4>1. CASE i \in 1 .. m
        BY <1>2, <4>1
      <4>2. CASE i - m \in 1 .. n /\ i = m + (i - m)
        <5>1. ys[i - m] = v
          BY <1>2, <4>2
        <5>2. i - m \in B /\ i = m + 1 * (i - m)
          BY <1>1, <4>2, <5>1
        <5> QED
          BY <5>2
      <4> QED
        BY <1>3, <4>1, <4>2
    <3>2. \A i \in A : i \in Z
      BY <1>2, <1>5
    <3>3. \A i \in C : i \in Z
      <4>1. \A x \in B : m + 1 * x = m + x /\ m + x \in Z
        BY <1>1, <1>2, <1>4
      <4> QED
        BY <4>1
    <3> HIDE DEF A, C, Z
    <3> QED
      BY <3>1, <3>2, <3>3
  <2>5. A \intersect C = {}
    <3>1. \A x \in B : m + 1 * x \notin 1 .. m
      BY <1>1
    <3> QED
      BY <3>1
  <2> HIDE DEF A, B, C, Z
  <2>6. Cardinality(A \union C) = Cardinality(A) + Cardinality(C)
    BY <2>2, <2>3, <2>5, CountDisjoint
  <2> QED
    BY <2>1, <2>3, <2>4, <2>6
<1> QED
  BY <1>1, <1>7, <1>8 DEF zs, m, n

\* How many readings of each value a sample has is a way to deal.
LEMMA SampleDealt ==
  ASSUME NEW xs \in Seq(Int), NEW ys \in Seq(Int), NEW s \in {xs, ys}, NEW V, V = ValuesOf(xs, ys)
  PROVE  /\ Dealt(V, SA!CountsOf(s, V), SA!CountsOf(xs \o ys, V), Len(s))
         /\ SumOver(SA!CountsOf(xs \o ys, V), V) = Len(xs) + Len(ys)
         /\ V \in SUBSET Int /\ IsFiniteSet(V) /\ (xs /= <<>> => V /= {})
<1> DEFINE all == SA!CountsOf(xs \o ys, V)
           inS == SA!CountsOf(s, V)
           zs == xs \o ys
<1>1. zs \in Seq(Int) /\ s \in Seq(Int) /\ SA!Range(zs) = V /\ Len(zs) = Len(xs) + Len(ys)
      /\ \A v : SA!CountIn(zs, v) = SA!CountIn(xs, v) + SA!CountIn(ys, v)
  BY Joining
<1> HIDE DEF zs
<1>2. (\A v \in V : all[v] = SA!CountIn(zs, v)) /\ \A v \in V : inS[v] = SA!CountIn(s, v)
  BY DEF SA!CountsOf, zs
<1>3. V \in SUBSET Int /\ IsFiniteSet(V)
  BY <1>1, ValuesAre
<1> HIDE DEF all, inS
<1>4. ASSUME NEW v \in V PROVE all[v] \in Nat \ {0} /\ inS[v] \in 0 .. all[v]
  <2>1. SA!CountIn(zs, v) \in Nat /\ SA!CountIn(zs, v) /= 0
    BY <1>1, ValuesAre
  <2>2. SA!CountIn(xs, v) \in Nat /\ SA!CountIn(ys, v) \in Nat
    BY ValuesAre
  <2>3. SA!CountIn(s, v) = SA!CountIn(xs, v) \/ SA!CountIn(s, v) = SA!CountIn(ys, v)
    OBVIOUS
  <2>4. SA!CountIn(zs, v) = SA!CountIn(xs, v) + SA!CountIn(ys, v)
    BY <1>1
  <2> QED
    BY <1>2, <2>1, <2>2, <2>3, <2>4
<1>5. ASSUME NEW ts \in Seq(Int), SA!Range(ts) \subseteq V, NEW f, \A v \in V : f[v] = SA!CountIn(ts, v)
      PROVE  SumOver(f, V) = Len(ts)
  <2>1. Cardinality({i \in DOMAIN ts : ts[i] \in V}) = SumOver(f, V)
    BY <1>3, <1>5, CountOfValues
  <2>2. DOMAIN ts = 1 .. Len(ts) /\ Len(ts) \in Nat /\ \A i \in DOMAIN ts : ts[i] \in SA!Range(ts)
    BY ValuesAre
  <2>3. {i \in DOMAIN ts : ts[i] \in V} = 1 .. Len(ts)
    BY <1>5, <2>2
  <2> QED
    BY <2>1, <2>2, <2>3, FiniteSubsets
<1>6. SumOver(all, V) = Len(zs)
  BY <1>1, <1>2, <1>5
<1>7. SumOver(inS, V) = Len(s)
  <2>1. SA!Range(s) \subseteq V
    BY DEF ValuesOf
  <2> QED
    BY <1>1, <1>2, <1>5, <2>1
<1>8. xs /= <<>> => V /= {}
  <2>1. xs /= <<>> => 1 \in DOMAIN xs
    OBVIOUS
  <2>2. 1 \in DOMAIN xs => xs[1] \in SA!Range(xs)
    BY ValuesAre
  <2> QED
    BY <2>1, <2>2 DEF ValuesOf
<1>9. Dealt(V, inS, all, Len(s))
  BY <1>3, <1>4, <1>7 DEF Dealt, Grouped
<1> QED
  BY <1>1, <1>3, <1>6, <1>8, <1>9 DEF all, inS, zs

-----------------------------------------------------------------------------
(* The references of Samples, for the samples of now. *)
SampledNow == sampleA \in Seq(Int) /\ sampleB \in Seq(Int) /\ sampleA /= <<>> /\ sampleB /= <<>>
V0 == ValuesOf(sampleA, sampleB)
In0 == SA!CountsOf(SA!Small, V0)
All0 == SA!CountsOf(sampleA \o sampleB, V0)
K0 == Len(SA!Small)
M0 == Len(sampleA) + Len(sampleB) - K0

\* The samples of now have groups as above.
LEMMA NowDealt ==
  ASSUME SampledNow
  PROVE  /\ K0 \in Nat \ {0} /\ M0 \in Nat \ {0} /\ SA!InOrder = M0 + K0 /\ K0 \in 0 .. M0 + K0
         /\ Dealt(V0, In0, All0, K0) /\ SumOver(All0, V0) = M0 + K0 /\ V0 /= {}
         /\ SA!Range(SA!All) = V0 /\ V0 \in SUBSET Int /\ IsFiniteSet(V0) /\ SA!All = sampleA \o sampleB
         /\ SA!All \in Seq(Int) /\ SA!Small \in {sampleA, sampleB} /\ SA!Small \in Seq(Int) /\ SA!Small /= <<>>
<1>1. sampleA \in Seq(Int) /\ sampleB \in Seq(Int) /\ sampleA /= <<>> /\ sampleB /= <<>>
  BY DEF SampledNow
<1>2. Len(sampleA) \in Nat \ {0} /\ Len(sampleB) \in Nat \ {0}
  BY <1>1
<1>3. SA!Small = IF Len(sampleA) <= Len(sampleB) THEN sampleA ELSE sampleB
  BY DEF SA!Small, SA!SmallerOf
<1>4. SA!Small \in {sampleA, sampleB} /\ SA!Small \in Seq(Int) /\ SA!Small /= <<>>
  BY <1>1, <1>3
<1>5. K0 \in Nat \ {0} /\ M0 \in Nat \ {0} /\ Len(sampleA) + Len(sampleB) = M0 + K0 /\ K0 \in 0 .. M0 + K0
  <2>1. K0 = Len(sampleA) \/ K0 = Len(sampleB)
    BY <1>3 DEF K0
  <2> QED
    BY <1>2, <2>1 DEF M0
<1>6. SA!All = sampleA \o sampleB
  BY DEF SA!All
<1>7. SA!All \in Seq(Int) /\ Len(SA!All) = Len(sampleA) + Len(sampleB) /\ SA!Range(SA!All) = V0
  BY <1>1, <1>6, Joining DEF V0
<1>8. SA!InOrder = M0 + K0
  <2>1. SA!InOrder = Cardinality(DOMAIN SA!All)
    BY ModelCount DEF SA!InOrder
  <2>2. DOMAIN SA!All = 1 .. Len(SA!All) /\ Len(SA!All) \in Nat
    BY <1>7
  <2>3. Cardinality(1 .. Len(SA!All)) = Len(SA!All)
    BY <2>2, FiniteSubsets
  <2> QED
    BY <1>5, <1>7, <2>1, <2>2, <2>3, Zenon
<1>9. /\ Dealt(V0, In0, All0, K0) /\ SumOver(All0, V0) = Len(sampleA) + Len(sampleB)
      /\ V0 \in SUBSET Int /\ IsFiniteSet(V0) /\ (sampleA /= <<>> => V0 /= {})
  BY <1>1, <1>4, SampleDealt DEF V0, In0, All0, K0
<1> QED
  BY <1>1, <1>4, <1>5, <1>6, <1>7, <1>8, <1>9

\* RanksOf, Dealings, PValue and PClass of Samples are the ranks, dealings and shares above.
LEMMA NowRanks == ASSUME SampledNow, NEW v \in V0 PROVE SA!RanksOf(v) = Block(V0, All0, v)
<1>1. SA!All \in Seq(Int) /\ IsFiniteSet(V0) /\ V0 \in SUBSET Int /\ SA!Range(SA!All) = V0 /\ SA!All = sampleA \o sampleB
  BY NowDealt
<1> DEFINE T == {w \in V0 : w < v}
<1>2. \A w \in V0 : All0[w] = SA!CountIn(SA!All, w)
  BY <1>1 DEF All0, SA!CountsOf
<1>3. Cardinality({i \in DOMAIN SA!All : SA!All[i] \in T}) = SumOver(All0, T)
  <2>1. T \subseteq V0
    OBVIOUS
  <2> HIDE DEF T
  <2>2. IsFiniteSet(T) /\ \A w \in T : All0[w] = SA!CountIn(SA!All, w)
    BY <1>1, <1>2, <2>1, FS_Subset
  <2> QED
    BY <1>1, <2>2, CountOfValues
<1>4. {i \in DOMAIN SA!All : SA!All[i] \in T} = {i \in DOMAIN SA!All : SA!All[i] < v}
  <2>1. \A i \in DOMAIN SA!All : SA!All[i] \in V0
    BY <1>1, ValuesAre
  <2> QED
    BY <2>1
<1>5. SA!Cardinality({i \in DOMAIN SA!All : SA!All[i] < v}) = Under(V0, All0, v)
  BY <1>3, <1>4, ModelCount, Zenon DEF Under
<1>6. SA!CountIn(SA!All, v) = All0[v]
  BY <1>2
<1> QED
  BY <1>5, <1>6, Zenon DEF SA!RanksOf, Block

LEMMA NowDealings == ASSUME SampledNow PROVE SA!Dealings = Deals(V0, In0, All0, K0)
<1>1. SA!Range(SA!All) = V0 /\ SA!InOrder = M0 + K0 /\ SumOver(All0, V0) = M0 + K0
  BY NowDealt
<1>2. SA!kSubset(Len(SA!Small), 1 .. SA!InOrder) = Picks(K0, SumOver(All0, V0))
  BY <1>1, ModelPicks DEF K0
<1>3. \A v \in V0 : SA!CountIn(SA!Small, v) = In0[v] /\ SA!RanksOf(v) = Block(V0, All0, v)
  BY NowRanks DEF In0, SA!CountsOf
<1>4. \A R : (\A v \in V0 : SA!Cardinality(R \intersect SA!RanksOf(v)) = SA!CountIn(SA!Small, v))
               <=> \A v \in V0 : Cardinality(R \intersect Block(V0, All0, v)) = In0[v]
  BY <1>3, ModelCount
<1>5. SA!Dealings = {R \in SA!kSubset(Len(SA!Small), 1 .. SA!InOrder) :
                       \A v \in V0 : SA!Cardinality(R \intersect SA!RanksOf(v)) = SA!CountIn(SA!Small, v)}
  BY <1>1 DEF SA!Dealings
<1> QED
  BY <1>2, <1>4, <1>5 DEF Deals

LEMMA NowPValue ==
  ASSUME SampledNow, NEW R \in SA!Dealings
  PROVE  /\ SA!PValue(R) = Extreme(K0, M0, SetSum(R)) /\ SA!SumSet(R) = SetSum(R)
<1>1. K0 \in Nat /\ M0 \in Nat /\ SA!InOrder = M0 + K0 /\ SumOver(All0, V0) = M0 + K0 /\ M0 + K0 \in Nat
  BY NowDealt
<1>2. R \in Picks(K0, M0 + K0)
  BY <1>1, NowDealings DEF Deals
<1>3. SA!kSubset(Len(SA!Small), 1 .. SA!InOrder) = Picks(K0, M0 + K0)
  BY <1>1, ModelPicks DEF K0
<1>4. \A S \in Picks(K0, M0 + K0) : SA!SumSet(S) = SetSum(S)
  BY <1>1, PickIs, ModelSetSum
<1>5. /\ {S \in Picks(K0, M0 + K0) : SA!SumSet(S) <= SA!SumSet(R)} = UpTo(K0, M0 + K0, SetSum(R))
      /\ {S \in Picks(K0, M0 + K0) : SA!SumSet(S) >= SA!SumSet(R)} = DownTo(K0, M0 + K0, SetSum(R))
  BY <1>2, <1>4 DEF UpTo, DownTo
<1>6. SA!PValue(R) =
        SA!Least(SA!One, SA!Rat(2 * SA!Min({SA!Cardinality(UpTo(K0, M0 + K0, SetSum(R))),
                                           SA!Cardinality(DownTo(K0, M0 + K0, SetSum(R)))}),
                               SA!Cardinality(Picks(K0, M0 + K0))))
  BY <1>3, <1>5, Zenon DEF SA!PValue
<1>7. SA!PValue(R) = Extreme(K0, M0, SetSum(R))
  BY <1>6, ModelCount DEF Extreme, Low, High, Selections
<1> QED
  BY <1>2, <1>4, <1>7

LEMMA TopOfRange == ASSUME NEW p \in Int, NEW q \in Int, p <= q PROVE SA!Max(p .. q) = q
<1>1. q \in p .. q /\ \A y \in p .. q : q >= y
  OBVIOUS
<1>2. SA!Max(p .. q) \in p .. q /\ \A y \in p .. q : SA!Max(p .. q) >= y
  <2> DEFINE S == p .. q
  <2>1. \E x \in S : \A y \in S : x >= y
    BY <1>1
  <2> HIDE DEF S
  <2>2. SA!Max(S) \in S /\ \A y \in S : SA!Max(S) >= y
    BY <2>1, Zenon DEF SA!Max
  <2> QED
    BY <2>2 DEF S
<1> QED
  BY <1>1, <1>2

LEMMA NowClass ==
  ASSUME SampledNow, NEW v \in V0
  PROVE  /\ SA!Max(SA!RanksOf(v)) = AtMost(V0, All0, v)
         /\ AtMost(V0, All0, v) \in 0 .. M0 + K0 =>
              SA!PClass(SA!Max(SA!RanksOf(v)))
                = SA!Rat(Cardinality(FarSplits(K0, M0 + K0, AtMost(V0, All0, v), AtMost(V0, In0, v))), Cardinality(Picks(K0, M0 + K0)))
<1> DEFINE c == AtMost(V0, All0, v)
           x == AtMost(V0, In0, v)
           n == M0 + K0
           D == {w \in SA!Range(SA!Small) : \A r \in SA!RanksOf(w) : r <= c}
           E == {w \in V0 : w <= v}
           f == [w \in D |-> SA!CountIn(SA!Small, w)]
<1>1. /\ K0 \in Nat \ {0} /\ M0 \in Nat \ {0} /\ SA!InOrder = n /\ Dealt(V0, In0, All0, K0) /\ Grouped(V0, All0)
      /\ V0 \in SUBSET Int /\ IsFiniteSet(V0) /\ SA!Small \in Seq(Int) /\ SA!Small \in {sampleA, sampleB}
  BY NowDealt DEF Dealt
<1>2. \A w \in V0 : /\ Under(V0, All0, w) \in Nat /\ All0[w] \in Nat \ {0}
                    /\ SA!RanksOf(w) = Under(V0, All0, w) + 1 .. Under(V0, All0, w) + All0[w]
                    /\ Under(V0, All0, w) + All0[w] = AtMost(V0, All0, w)
                    /\ \A z \in V0 : w < z => AtMost(V0, All0, w) <= Under(V0, All0, z)
  <2> TAKE w \in V0
  <2>1. SA!RanksOf(w) = Under(V0, All0, w) + 1 .. Under(V0, All0, w) + All0[w]
    BY NowRanks DEF Block
  <2>2. All0[w] \in Nat \ {0}
    BY <1>1 DEF Grouped
  <2>3. Under(V0, All0, w) \in Nat /\ Under(V0, All0, w) + All0[w] = AtMost(V0, All0, w)
        /\ \A z \in V0 : w < z => Under(V0, All0, w) + All0[w] <= Under(V0, All0, z)
    BY <1>1, UnderIs DEF AtMost
  <2> QED
    BY <2>1, <2>2, <2>3
<1>3. SA!Max(SA!RanksOf(v)) = c
  <2> DEFINE p == Under(V0, All0, v) + 1
             q == Under(V0, All0, v) + All0[v]
  <2>1. SA!RanksOf(v) = p .. q /\ q = c
    BY <1>2
  <2>2. p \in Int /\ q \in Int /\ p <= q
    BY <1>2
  <2> HIDE DEF p, q
  <2>3. SA!Max(p .. q) = q
    BY <2>2, TopOfRange
  <2> QED
    BY <2>1, <2>3, Zenon
<1>4. \A w \in V0 : (\A r \in SA!RanksOf(w) : r <= c) <=> w <= v
  <2> TAKE w \in V0
  <2> DEFINE p == Under(V0, All0, w)
             q == All0[w]
  <2>1. p \in Nat /\ q \in Nat \ {0} /\ SA!RanksOf(w) = p + 1 .. p + q /\ p + q = AtMost(V0, All0, w)
        /\ c \in Nat /\ Under(V0, All0, v) \in Nat /\ All0[v] \in Nat /\ c = Under(V0, All0, v) + All0[v]
    BY <1>2
  <2>2. v \in Int /\ w \in Int
    BY <1>1
  <2>3. v < w => c <= p
    BY <1>2
  <2>4. w < v => p + q <= Under(V0, All0, v)
    BY <1>2
  <2>5. w = v => p + q = c
    BY <2>1
  <2> HIDE DEF p, q, c
  <2>6. CASE v < w
    <3>1. p + 1 \in SA!RanksOf(w) /\ ~(p + 1 <= c) /\ ~(w <= v)
      BY <2>1, <2>2, <2>3, <2>6
    <3> QED
      BY <3>1
  <2>7. CASE w <= v
    <3>1. p + q <= c
      BY <2>1, <2>2, <2>4, <2>5, <2>7
    <3>2. \A r \in SA!RanksOf(w) : r <= c
      BY <2>1, <3>1
    <3> QED
      BY <2>7, <3>2
  <2> QED
    BY <2>2, <2>6, <2>7
<1>5. SA!Range(SA!Small) \subseteq V0
  BY <1>1 DEF V0, ValuesOf
<1>6. D = {w \in E : w \in SA!Range(SA!Small)}
  <2> HIDE DEF c
  <2> QED
    BY <1>4, <1>5
<1>7. \A w \in V0 : In0[w] = SA!CountIn(SA!Small, w) /\ In0[w] \in Nat /\ (w \notin SA!Range(SA!Small) => In0[w] = 0)
  <2>1. \A w \in V0 : In0[w] = SA!CountIn(SA!Small, w)
    BY DEF In0, SA!CountsOf
  <2>2. \A w : SA!CountIn(SA!Small, w) \in Nat /\ (w \notin SA!Range(SA!Small) => SA!CountIn(SA!Small, w) = 0)
    BY <1>1, ValuesAre
  <2> QED
    BY <2>1, <2>2
<1>8. SA!SumFunction(f) = x
  <2> DEFINE F == E \ D
  <2>1. E = D \union F /\ D \intersect F = {} /\ D \in SUBSET V0 /\ F \in SUBSET V0
    BY <1>6
  <2>2. \A w \in F : In0[w] = 0
    BY <1>6, <1>7
  <2>3. \A w \in D : f[w] = In0[w]
    BY <1>5, <1>7
  <2>4. DOMAIN f = D
    OBVIOUS
  <2>5. x = SumOver(In0, E)
    BY DEF AtMost
  <2> HIDE DEF D, E, F, f, x
  <2>6. IsFiniteSet(D) /\ IsFiniteSet(F)
    BY <1>1, <2>1, FS_Subset
  <2>7. IntegersOn(In0, D \union F) /\ IntegersOn(In0, D) /\ IntegersOn(In0, F) /\ IntegersOn(f, D)
    BY <1>7, <2>1, <2>3 DEF IntegersOn
  <2>8. SumOver(In0, D \union F) = SumOver(In0, D) + SumOver(In0, F)
    BY <2>1, <2>6, <2>7, SumUnion
  <2>9. SumOver(In0, F) = 0
    <3>1. SumOver(In0, F) = Cardinality(F) * 0
      BY <2>2, <2>6, SumOfEqual
    <3>2. Cardinality(F) \in Nat
      BY <2>6, FS_CardinalityType
    <3> QED
      BY <3>1, <3>2
  <2>10. SumOver(f, D) = SumOver(In0, D)
    BY <2>3, <2>6, <2>7, SumSame
  <2>11. SumOver(In0, D) \in Int
    BY <2>6, <2>7, SumInt
  <2>12. SumOver(In0, E) = SumOver(In0, D)
    BY <2>1, <2>8, <2>9, <2>11
  <2>13. SA!SumFunction(f) = SumOver(f, D)
    BY <2>4, ModelSums
  <2> QED
    BY <2>5, <2>10, <2>12, <2>13
<1>9. ASSUME c \in 0 .. n
      PROVE  SA!PClass(c) = SA!Rat(Cardinality(FarSplits(K0, n, c, x)), Cardinality(Picks(K0, n)))
  <2> DEFINE X == {S \in Picks(K0, n) : SA!Abs(n * SA!Cardinality({r \in S : r <= c}) - K0 * c) >= SA!Abs(n * x - K0 * c)}
  <2>1. SA!kSubset(Len(SA!Small), 1 .. SA!InOrder) = Picks(K0, n)
    BY <1>1, ModelPicks DEF K0
  <2>2. SA!PClass(c) = SA!Rat(SA!Cardinality(X), SA!Cardinality(Picks(K0, n)))
    <3> HIDE DEF c, x, n
    <3> QED
      BY <1>1, <1>8, <2>1, Zenon DEF SA!PClass, K0
  <2>3. X = FarSplits(K0, n, c, x)
    <3>1. n \in Int /\ c \in Nat /\ K0 \in Int
      BY <1>1, <1>9
    <3> HIDE DEF n, c, x
    <3>2. \A S \in Picks(K0, n) : {r \in S : r <= c} = Lower(S, c)
      <4> TAKE S \in Picks(K0, n)
      <4>1. \A r \in S : r \in Int /\ r >= 1
        BY DEF Picks
      <4> QED
        BY <3>1, <4>1 DEF Lower
    <3>3. \A S \in Picks(K0, n) :
            SA!Abs(n * SA!Cardinality({r \in S : r <= c}) - K0 * c) = SA!Distance(n, c, K0, Cardinality(Lower(S, c)))
      BY <3>2, ModelCount DEF SA!Distance
    <3>4. SA!Abs(n * x - K0 * c) = SA!Distance(n, c, K0, x)
      BY DEF SA!Distance
    <3> QED
      BY <3>3, <3>4 DEF FarSplits, Further
  <2> QED
    BY <2>2, <2>3, ModelCount
<1> QED
  BY <1>3, <1>9, Zenon

-----------------------------------------------------------------------------
(* Samples of the same size. *)

LEMMA Halved ==
  ASSUME NEW x \in Int, NEW y \in Int, NEW z \in Int, NEW w \in Int, 2 * x = (2 * y + 2 * z) + 2 * w PROVE x = y + z + w
  OBVIOUS

IsBoth(c, a, b) == c = a + b

LowestLeft(a, b, c, lo) == b * lo + Tri(b) = (c * lo + Tri(c)) - (a * (lo + c + 1) - Tri(a))

\* The least sum of b ranks and the greatest of the other a have a constant sum.
LEMMA TriOfBoth ==
  ASSUME NEW a \in Nat, NEW b \in Nat, NEW lo \in Nat, NEW c, IsBoth(c, a, b) PROVE LowestLeft(a, b, c, lo)
<1> DEFINE p == a * b
           u == a * lo
           v == b * lo
           q == a * a
<1>1. Tri(a) \in Nat /\ Tri(b) \in Nat /\ Tri(c) \in Nat /\ 2 * Tri(a) = a * (a + 1) /\ 2 * Tri(b) = b * (b + 1)
      /\ 2 * Tri(c) = c * (c + 1) /\ c \in Nat
  <2>1. c \in Nat
    BY DEF IsBoth
  <2> QED
    BY <2>1, TriIs
<1>2. p \in Int /\ u \in Int /\ v \in Int /\ q \in Int
  OBVIOUS
<1>3. a * (a + 1) = q + a /\ c * lo = u + v /\ a * (lo + c + 1) = (u + q) + (p + a)
      /\ c * (c + 1) = (a * (a + 1) + b * (b + 1)) + 2 * p
  <2>1. a * (a + 1) = q + a /\ (a + b) * lo = u + v
    OBVIOUS
  <2>2. a * (lo + (a + b) + 1) = (u + q) + (p + a)
    OBVIOUS
  <2>3. (a + b) * ((a + b) + 1) = (a * (a + 1) + b * (b + 1)) + 2 * p
    OBVIOUS
  <2> QED
    BY <2>1, <2>2, <2>3 DEF IsBoth
<1> HIDE DEF p, u, v, q
<1>4. Tri(c) = Tri(a) + Tri(b) + p /\ 2 * Tri(a) = q + a
  <2>1. 2 * Tri(c) = (2 * Tri(a) + 2 * Tri(b)) + 2 * p
    BY <1>1, <1>3, Zenon
  <2>2. 2 * Tri(a) = q + a
    BY <1>1, <1>3, Zenon
  <2>3. Tri(a) \in Nat /\ Tri(b) \in Nat /\ Tri(c) \in Nat
    BY <1>1
  <2>4. Tri(c) = Tri(a) + Tri(b) + p
    BY <1>2, <2>1, <2>3, Halved
  <2> QED
    BY <2>2, <2>4
<1>5. v + Tri(b) = ((u + v) + Tri(c)) - (((u + q) + (p + a)) - Tri(a))
  BY <1>1, <1>2, <1>4
<1> QED
  BY <1>3, <1>5, Zenon DEF v, LowestLeft

\* The ranks of one sample that are the lowest leave the highest to the other.
LEMMA MirroredDeals ==
  ASSUME NEW V, NEW all, NEW inA, NEW inB, NEW k, NEW j, Dealt(V, inA, all, k), Dealt(V, inB, all, j),
         \A v \in V : all[v] = inA[v] + inB[v], NEW n, n = SumOver(all, V)
  PROVE  SetSum(LeastDeal(V, inB, all)) = Tri(n) - SetSum(GreatestDeal(V, inA, all))
<1> DEFINE l == SumsOf(LowParts(V, inB, all), V)
           h == SumsOf(HighParts(V, inA, all), V)
           t == SumsOf(LowParts(V, all, all), V)
<1>1. Grouped(V, all) /\ IsFiniteSet(V)
  BY DEF Dealt, Grouped
<1>2. n \in Nat
  BY <1>1, SumNat DEF Grouped
<1>3. Dealt(V, all, all, n)
  <2>1. \A v \in V : all[v] \in 0 .. all[v]
    BY <1>1 DEF Grouped
  <2> QED
    BY <1>1, <2>1 DEF Dealt
<1>4. LeastDeal(V, all, all) \in Deals(V, all, all, n) /\ SetSum(LeastDeal(V, all, all)) = SumOver(t, V) /\ IntegersOn(t, V)
  BY <1>3, EndDeals
<1>5. SetSum(LeastDeal(V, inB, all)) = SumOver(l, V) /\ SetSum(GreatestDeal(V, inA, all)) = SumOver(h, V) /\ IntegersOn(h, V)
  BY EndDeals
<1>6. SumOver(t, V) = Tri(n)
  <2>1. LeastDeal(V, all, all) \in Picks(n, n)
    BY <1>4 DEF Deals
  <2>2. LeastDeal(V, all, all) = 1 .. n
    BY <1>2, <2>1, FiniteSubsets DEF Picks
  <2>3. SetSum(1 .. n) = Tri(n)
    BY <1>2, AllSum
  <2> QED
    BY <1>4, <2>2, <2>3, Zenon
<1>7. ASSUME NEW v \in V PROVE l[v] = 1 * t[v] + (-1) * h[v]
  <2> DEFINE lo == Under(V, all, v)
             a == inA[v]
             b == inB[v]
             c == all[v]
  <2>1. lo \in Nat /\ c \in Nat /\ a \in 0 .. c /\ b \in 0 .. c /\ c \in 0 .. c /\ c = a + b /\ a \in Nat /\ b \in Nat
    <3>1. lo \in Nat /\ c \in Nat
      BY <1>1, BlockIs
    <3>2. a \in 0 .. c /\ b \in 0 .. c
      BY DEF Dealt
    <3> QED
      BY <3>1, <3>2
  <2>2. l[v] = SetSum(Lowest(lo, b)) /\ t[v] = SetSum(Lowest(lo, c)) /\ h[v] = SetSum(Highest(lo, c, a))
    BY DEF LowParts, HighParts, SumsOf
  <2> HIDE DEF lo, a, b, c, l, t, h
  <2>3. SetSum(Lowest(lo, b)) = b * lo + Tri(b)
    BY <2>1, EndsOfBlock
  <2>4. SetSum(Lowest(lo, c)) = c * lo + Tri(c)
    BY <2>1, EndsOfBlock
  <2>5. SetSum(Highest(lo, c, a)) = a * (lo + c + 1) - Tri(a)
    BY <2>1, EndsOfBlock
  <2>6. LowestLeft(a, b, c, lo)
    <3>1. IsBoth(c, a, b)
      BY <2>1 DEF IsBoth
    <3> QED
      <4>1. a \in Nat /\ b \in Nat /\ lo \in Nat
        BY <2>1
      <4> QED
        BY <3>1, <4>1, TriOfBoth
  <2>7. l[v] = t[v] - h[v]
    BY <2>2, <2>3, <2>4, <2>5, <2>6, Zenon DEF LowestLeft
  <2>8. t[v] \in Int /\ h[v] \in Int
    BY <1>4, <1>5 DEF IntegersOn, t, h
  <2> QED
    BY <2>7, <2>8
<1> HIDE DEF l, h, t
<1>8. Combines(l, V, 1, t, -1, h)
  BY <1>7 DEF Combines
<1>9. SumOver(l, V) = 1 * SumOver(t, V) + (-1) * SumOver(h, V)
  <2>1. 1 \in Int /\ -1 \in Int
    OBVIOUS
  <2> QED
    BY <1>1, <1>4, <1>5, <1>8, <2>1, SumOfBoth
<1>10. SumOver(t, V) \in Int /\ SumOver(h, V) \in Int
  BY <1>1, <1>4, <1>5, SumInt
<1> QED
  BY <1>5, <1>6, <1>9, <1>10

\* The class test does not depend on which sample is the smaller.
LEMMA SameDistance ==
  ASSUME NEW k \in Int, NEW x \in Int, NEW y \in Int, NEW c, c = x + y
  PROVE  SA!Distance(2 * k, c, k, x) = SA!Distance(2 * k, c, k, y)
<1> DEFINE p == k * (x - y)
<1>1. (2 * k) * x - k * (x + y) = p /\ (2 * k) * y - k * (x + y) = -p /\ p \in Int
  OBVIOUS
<1> HIDE DEF p
<1>2. SA!Abs(p) = SA!Abs(-p)
  BY <1>1 DEF SA!Abs
<1>3. SA!Distance(2 * k, x + y, k, x) = SA!Abs(p) /\ SA!Distance(2 * k, x + y, k, y) = SA!Abs(-p)
  BY <1>1, Zenon DEF SA!Distance
<1> QED
  BY <1>2, <1>3, Zenon

\* Of two samples of the same size either one may be the smaller.
LEMMA EitherSmaller ==
  ASSUME NEW V, V /= {}, NEW all, NEW inA, NEW inB, NEW k \in Nat \ {0}, Dealt(V, inA, all, k), Dealt(V, inB, all, k),
         \A v \in V : all[v] = inA[v] + inB[v], SumOver(all, V) = 2 * k, NEW t
  PROVE  SA!RankTestOf(V, inA, all, 2 * k, k, t) = SA!RankTestOf(V, inB, all, 2 * k, k, t)
<1> DEFINE n == 2 * k
           la == SetSum(LeastDeal(V, inA, all))
           lb == SetSum(LeastDeal(V, inB, all))
           ga == SetSum(GreatestDeal(V, inA, all))
           gb == SetSum(GreatestDeal(V, inB, all))
<1>1. Tri(n) = Middle(k, k) /\ Tri(n) \in Nat /\ n - k = k /\ k \in 0 .. n /\ n = k + k /\ n \in Nat
  <2>1. n \in Nat /\ n - k = k /\ k \in 0 .. n /\ n = k + k
    OBVIOUS
  <2>2. Tri(n) \in Nat /\ 2 * Tri(n) = n * (n + 1)
    BY <2>1, TriIs
  <2>3. n * (n + 1) = 2 * Middle(k, k) /\ Middle(k, k) \in Nat
    <3>1. (2 * k) * (2 * k + 1) = 2 * (k * (k + k + 1)) /\ k * (k + k + 1) \in Nat
      OBVIOUS
    <3> QED
      BY <3>1 DEF Middle
  <2> HIDE DEF n
  <2>4. Tri(n) = Middle(k, k)
    BY <2>2, <2>3
  <2> QED
    BY <2>1, <2>2, <2>4
<1> HIDE DEF n
<1>2. lb = Tri(n) - ga /\ la = Tri(n) - gb
  <2>1. \A v \in V : all[v] = inB[v] + inA[v]
    <3>1. \A v \in V : inA[v] \in Int /\ inB[v] \in Int
      BY DEF Dealt, Grouped
    <3> QED
      BY <3>1
  <2>2. n = SumOver(all, V)
    BY DEF n
  <2> QED
    BY <2>1, <2>2, MirroredDeals
<1>3. /\ SA!TailOfRanks(SA!RankSums(V, inA, all), k, k) = TailFrom(k, k, la, ga) /\ la \in Int /\ ga \in Int /\ la <= ga
      /\ SA!TailOfRanks(SA!RankSums(V, inB, all), k, k) = TailFrom(k, k, lb, gb) /\ gb \in Int
  <2>1. SumOver(all, V) = k + k
    BY <1>1 DEF n
  <2> QED
    BY <2>1, RankSumTail
<1>4. TailFrom(k, k, lb, gb) = TailFrom(k, k, la, ga)
  <2>1. lb = Middle(k, k) - ga /\ gb = Middle(k, k) - la
    BY <1>1, <1>2, <1>3
  <2>2. TailFrom(k, k, Middle(k, k) - ga, Middle(k, k) - la) = TailFrom(k, k, la, ga)
    BY <1>3, TailMirrors
  <2> QED
    BY <2>1, <2>2, Zenon
<1>5. SA!ClassTest(V, inA, all, n, k) = SA!ClassTest(V, inB, all, n, k)
  <2> DEFINE v == EvenOf(V, all, n)
             c == AtMost(V, all, v)
             x == AtMost(V, inA, v)
             y == AtMost(V, inB, v)
  <2>1. n = SumOver(all, V)
    BY DEF n
  <2>2. v \in V
        /\ SA!ClassTest(V, inA, all, n, k) = SA!Rat(Cardinality(FarSplits(k, n, c, x)), Cardinality(Picks(k, n)))
    BY <1>1, <2>1, ClassTestIs
  <2>3. SA!ClassTest(V, inB, all, n, k) = SA!Rat(Cardinality(FarSplits(k, n, c, y)), Cardinality(Picks(k, n)))
    BY <1>1, <2>1, ClassTestIs
  <2>4. c = x + y /\ x \in Int /\ y \in Int
    <3> DEFINE T == {w \in V : w <= v}
    <3>1. T \in SUBSET V
      OBVIOUS
    <3> HIDE DEF T
    <3>2. IsFiniteSet(T) /\ IntegersOn(inA, T) /\ IntegersOn(inB, T)
      <4>1. IsFiniteSet(V) /\ \A w \in V : inA[w] \in Int /\ inB[w] \in Int
        BY DEF Dealt, Grouped
      <4> QED
        BY <3>1, <4>1, FS_Subset DEF IntegersOn
    <3>3. Combines(all, T, 1, inA, 1, inB)
      <4>1. \A w \in T : all[w] = 1 * inA[w] + 1 * inB[w]
        BY <3>1, <3>2 DEF IntegersOn
      <4> QED
        BY <4>1 DEF Combines
    <3>4. SumOver(all, T) = 1 * SumOver(inA, T) + 1 * SumOver(inB, T)
      BY <3>2, <3>3, 1 \in Int, SumOfBoth
    <3>5. SumOver(inA, T) \in Int /\ SumOver(inB, T) \in Int
      BY <3>2, SumInt
    <3>6. SumOver(all, T) = SumOver(inA, T) + SumOver(inB, T)
      BY <3>4, <3>5
    <3> QED
      BY <3>5, <3>6, Zenon DEF AtMost, T
  <2> HIDE DEF v, c, x, y
  <2>5. SA!Distance(n, c, k, x) = SA!Distance(n, c, k, y)
    BY <2>4, SameDistance DEF n
  <2>6. FarSplits(k, n, c, x) = FarSplits(k, n, c, y)
    BY <2>5 DEF FarSplits, Further
  <2> QED
    BY <2>2, <2>3, <2>6, Zenon
<1>6. SA!TailOfRanks(SA!RankSums(V, inA, all), k, n - k) = SA!TailOfRanks(SA!RankSums(V, inB, all), k, n - k)
  BY <1>1, <1>3, <1>4, Zenon
<1> HIDE DEF la, lb, ga, gb
<1>7. SA!RankTestOf(V, inA, all, n, k, t) = SA!RankTestOf(V, inB, all, n, k, t)
  BY <1>5, <1>6, Zenon DEF SA!RankTestOf
<1> QED
  BY <1>7 DEF n

-----------------------------------------------------------------------------
(* The test of now. *)

\* The p-value of now.
P0 == SA!RankSumTest(sampleA, sampleB, TieFactor)

LEMMA NowTest ==
  ASSUME SampledNow PROVE P0 = SA!RankTestOf(V0, In0, All0, M0 + K0, K0, TieFactor)
<1>1. SA!SmallerOf(sampleA, sampleB) = SA!Small /\ SA!Small /= <<>>
  BY NowDealt DEF SA!Small
<1>2. SA!Range(sampleA) \union SA!Range(sampleB) = V0
  BY DEF V0, ValuesOf
<1>3. Len(sampleA) + Len(sampleB) = M0 + K0
  <2>1. K0 \in Nat
    BY NowDealt
  <2>2. Len(sampleA) \in Nat /\ Len(sampleB) \in Nat
    BY DEF SampledNow
  <2> QED
    BY <2>1, <2>2 DEF M0
<1> QED
  BY <1>1, <1>2, <1>3, Zenon DEF P0, SA!RankSumTest, In0, All0, K0

\* The samples may be given in any order.
LEMMA NowSymmetric == ASSUME SampledNow PROVE P0 = SA!RankSumTest(sampleB, sampleA, TieFactor)
<1> DEFINE T == SA!SmallerOf(sampleB, sampleA)
           inT == SA!CountsOf(T, V0)
<1>1. /\ sampleA \in Seq(Int) /\ sampleB \in Seq(Int) /\ Len(sampleA) \in Nat \ {0} /\ Len(sampleB) \in Nat \ {0}
      /\ sampleA /= <<>> /\ sampleB /= <<>>
  BY DEF SampledNow
<1>2. T = IF Len(sampleB) <= Len(sampleA) THEN sampleB ELSE sampleA
  BY DEF SA!SmallerOf
<1>3. SA!Small = IF Len(sampleA) <= Len(sampleB) THEN sampleA ELSE sampleB
  BY DEF SA!Small, SA!SmallerOf
<1>4. T /= <<>> /\ Len(T) = K0
  BY <1>1, <1>2, <1>3 DEF K0
<1>5. SA!CountsOf(sampleB \o sampleA, V0) = All0
  <2>1. \A v : SA!CountIn(sampleB \o sampleA, v) = SA!CountIn(sampleA \o sampleB, v)
    <3> TAKE v
    <3>1. /\ SA!CountIn(sampleB \o sampleA, v) = SA!CountIn(sampleB, v) + SA!CountIn(sampleA, v)
          /\ SA!CountIn(sampleA \o sampleB, v) = SA!CountIn(sampleA, v) + SA!CountIn(sampleB, v)
      BY <1>1, Joining
    <3>2. SA!CountIn(sampleA, v) \in Nat /\ SA!CountIn(sampleB, v) \in Nat
      BY <1>1, ValuesAre
    <3> QED
      BY <3>1, <3>2
  <2> QED
    BY <2>1, Zenon DEF SA!CountsOf, All0
<1>6. SA!Range(sampleB) \union SA!Range(sampleA) = V0 /\ Len(sampleB) + Len(sampleA) = M0 + K0
  <2>1. Len(sampleB) + Len(sampleA) = M0 + K0
    <3>1. K0 \in Nat
      BY NowDealt
    <3> QED
      BY <1>1, <3>1 DEF M0
  <2> QED
    BY <2>1 DEF V0, ValuesOf
<1>7. SA!RankSumTest(sampleB, sampleA, TieFactor) = SA!RankTestOf(V0, inT, All0, M0 + K0, K0, TieFactor)
  BY <1>4, <1>5, <1>6, Zenon DEF SA!RankSumTest
<1>8. CASE T = SA!Small
  BY <1>7, <1>8, NowTest DEF In0
<1>9. CASE T /= SA!Small
  <2>1. Len(sampleA) = Len(sampleB) /\ SA!Small = sampleA /\ T = sampleB
    BY <1>1, <1>2, <1>3, <1>9
  <2>2. M0 + K0 = 2 * K0 /\ K0 \in Nat \ {0}
    BY <1>1, <2>1 DEF M0, K0
  <2>3. Dealt(V0, In0, All0, K0) /\ V0 /= {} /\ SumOver(All0, V0) = M0 + K0
    BY NowDealt
  <2>4. Dealt(V0, inT, All0, K0)
    <3>1. Dealt(V0, SA!CountsOf(sampleB, V0), SA!CountsOf(sampleA \o sampleB, V0), Len(sampleB))
      BY <1>1, SampleDealt DEF V0
    <3> QED
      BY <1>4, <2>1, <3>1 DEF All0
  <2>5. \A v \in V0 : All0[v] = In0[v] + inT[v]
    <3> TAKE v \in V0
    <3>1. All0[v] = SA!CountIn(sampleA \o sampleB, v) /\ In0[v] = SA!CountIn(sampleA, v) /\ inT[v] = SA!CountIn(sampleB, v)
      BY <2>1 DEF All0, In0, SA!CountsOf
    <3>2. SA!CountIn(sampleA \o sampleB, v) = SA!CountIn(sampleA, v) + SA!CountIn(sampleB, v)
      BY <1>1, Joining
    <3> QED
      BY <3>1, <3>2
  <2> HIDE DEF inT
  <2>6. SA!RankTestOf(V0, In0, All0, 2 * K0, K0, TieFactor) = SA!RankTestOf(V0, inT, All0, 2 * K0, K0, TieFactor)
    <3>1. SumOver(All0, V0) = 2 * K0
      BY <2>2, <2>3, Zenon
    <3> QED
      BY <2>2, <2>3, <2>4, <2>5, <3>1, EitherSmaller
  <2> QED
    BY <1>7, <2>2, <2>6, NowTest, Zenon
<1> QED
  BY <1>8, <1>9

\* One of the ways of RankTestRight to be right.
LEMMA NowRight ==
  ASSUME SampledNow
  PROVE  \/ Cardinality(V0) = 1 /\ P0 = SA!One
         \/ P0 = SA!One /\ \E R, S \in SA!Dealings : 2 * SetSum(R) <= Middle(K0, M0) /\ Middle(K0, M0) <= 2 * SetSum(S)
         \/ (\A R \in SA!Dealings : SA!Leq(SA!PValue(R), P0)) /\ \E S \in SA!Dealings : SA!PValue(S) = P0
         \/ \E v \in V0 : P0 = SA!PClass(SA!Max(SA!RanksOf(v)))
<1> DEFINE n == M0 + K0
           p == SA!TailOfRanks(SA!RankSums(V0, In0, All0), K0, n - K0)
           q == SA!ClassTest(V0, In0, All0, n, K0)
<1>1. K0 \in Nat \ {0} /\ M0 \in Nat \ {0} /\ Dealt(V0, In0, All0, K0) /\ SumOver(All0, V0) = n /\ V0 /= {} /\ K0 \in 0 .. n
  BY NowDealt
<1>2. (P0 = SA!One /\ Cardinality(V0) = 1) \/ P0 = q \/ P0 = p
  <2>1. P0 = SA!RankTestOf(V0, In0, All0, n, K0, TieFactor)
    BY NowTest
  <2> HIDE DEF n
  <2>2. (P0 = SA!One /\ SA!Cardinality(V0) = 1) \/ P0 = q \/ P0 = p
    BY <2>1 DEF SA!RankTestOf
  <2> QED
    BY <2>2, ModelCount
<1>3. CASE P0 = p
  <2>1. n - K0 = M0
    BY <1>1
  <2>2. LeastFavourable(Deals(V0, In0, All0, K0), K0, M0, p)
    <3>1. p = SA!TailOfRanks(SA!RankSums(V0, In0, All0), K0, M0)
      BY <2>1, Zenon
    <3> HIDE DEF n, p
    <3>2. SumOver(All0, V0) = M0 + K0
      BY <1>1 DEF n
    <3> QED
      BY <1>1, <3>1, <3>2, RankSumTail
  <2> HIDE DEF p, n
  <2>3. LeastFavourable(SA!Dealings, K0, M0, P0)
    BY <1>3, <2>2, NowDealings
  <2>4. \A R \in SA!Dealings : SA!PValue(R) = Extreme(K0, M0, SetSum(R))
    BY NowPValue
  <2> QED
    BY <2>3, <2>4 DEF LeastFavourable
<1>4. CASE P0 = q
  <2> DEFINE v == EvenOf(V0, All0, n)
  <2>1. /\ v \in V0 /\ AtMost(V0, All0, v) \in 0 .. n
        /\ q = SA!Rat(Cardinality(FarSplits(K0, n, AtMost(V0, All0, v), AtMost(V0, In0, v))), Cardinality(Picks(K0, n)))
    <3>1. n = SumOver(All0, V0)
      BY <1>1
    <3> HIDE DEF n
    <3> QED
      BY <1>1, <3>1, ClassTestIs
  <2> HIDE DEF v, q
  <2>2. SA!PClass(SA!Max(SA!RanksOf(v))) = q
    BY <2>1, NowClass
  <2> QED
    BY <1>4, <2>1, <2>2
<1> QED
  BY <1>2, <1>3, <1>4

\* RankTestRight holds of what rank_sum_test says of the samples of now.
LEMMA TestOfNowRight ==
  ASSUME sampleA \in Seq(Int), sampleB \in Seq(Int), outcome.p = SA!RankSumTest(sampleA, sampleB, TieFactor)
  PROVE  SA!RankTestRight
<1> SUFFICES ASSUME sampleA /= <<>>, sampleB /= <<>>
             PROVE  /\ outcome.p = SA!RankSumTest(sampleB, sampleA, TieFactor)
                    /\ \/ SA!Cardinality(SA!Range(SA!All)) = 1 /\ outcome.p = SA!One
                       \/ outcome.p = SA!One /\ \E R, S \in SA!Dealings : 2 * SA!SumSet(R) <= Len(SA!Small) * (SA!InOrder + 1)
                                                                    /\ Len(SA!Small) * (SA!InOrder + 1) <= 2 * SA!SumSet(S)
                       \/ \A R \in SA!Dealings : SA!Leq(SA!PValue(R), outcome.p) /\ \E S \in SA!Dealings : SA!PValue(S) = outcome.p
                       \/ \E v \in SA!Range(SA!All) : outcome.p = SA!PClass(SA!Max(SA!RanksOf(v)))
  BY DEF SA!RankTestRight
<1>1. SampledNow /\ outcome.p = P0
  BY DEF SampledNow, P0
<1>2. outcome.p = SA!RankSumTest(sampleB, sampleA, TieFactor)
  BY <1>1, NowSymmetric
<1>3. SA!Range(SA!All) = V0 /\ Len(SA!Small) * (SA!InOrder + 1) = Middle(K0, M0)
  BY <1>1, NowDealt, Zenon DEF Middle, K0
<1>4. \A R \in SA!Dealings : SA!SumSet(R) = SetSum(R)
  BY <1>1, NowPValue
<1>5. SA!Cardinality(V0) = Cardinality(V0)
  BY ModelCount
<1>6. \/ Cardinality(V0) = 1 /\ P0 = SA!One
      \/ P0 = SA!One /\ \E R, S \in SA!Dealings : 2 * SetSum(R) <= Middle(K0, M0) /\ Middle(K0, M0) <= 2 * SetSum(S)
      \/ (\A R \in SA!Dealings : SA!Leq(SA!PValue(R), P0)) /\ \E S \in SA!Dealings : SA!PValue(S) = P0
      \/ \E v \in V0 : P0 = SA!PClass(SA!Max(SA!RanksOf(v)))
  BY <1>1, NowRight
<1> QED
  BY <1>1, <1>2, <1>3, <1>4, <1>5, <1>6

-----------------------------------------------------------------------------
(* The place that is proposed: the first of the greatest. *)

\* f is greatest at m, and before m at no place.
AtMostThere(f, n, m) == /\ m \in 1 .. n /\ \A j \in 1 .. n : SA!Leq(f[j], f[m])
                        /\ \A i \in 1 .. n : i < m => ~SA!Leq(f[m], f[i])

\* best_split keeps the first of the greatest (libpilot.cc 1277-1316).
LEMMA FirstGreatestIs ==
  ASSUME NEW n \in Nat \ {0}, NEW f, DOMAIN f = 1 .. n, \A i \in 1 .. n : f[i] \in Fraction
  PROVE  AtMostThere(f, n, SA!FirstGreatest(f))
<1> DEFINE S == 1 .. n
           R == {p \in S \X S : SA!Leq(f[p[1]], f[p[2]])}
           G == {i \in S : \A j \in S : SA!Leq(f[j], f[i])}
           m == SA!FirstGreatest(f)
<1>1. IsFiniteSet(S) /\ S /= {} /\ S \in SUBSET Int
  <2>1. 1 \in Int /\ n \in Int /\ 1 \in S /\ S \in SUBSET Int
    OBVIOUS
  <2>2. IsFiniteSet(S)
    BY <2>1, FS_Interval, Zenon
  <2> QED
    BY <2>1, <2>2
<1>2. \A x, y \in S : <<x, y>> \in R <=> SA!Leq(f[x], f[y])
  OBVIOUS
<1>3. m = SA!Min(G)
  BY DEF SA!FirstGreatest
<1> HIDE DEF R, S
<1>4. Ranked(R, S)
  BY <1>2, OrderIsLinear DEF Ranked, S
<1>5. Topped(R, S)
  BY <1>1, <1>4, TopThere
<1>6. \A i : i \in G <=> i \in S /\ \A j \in S : SA!Leq(f[j], f[i])
  OBVIOUS
<1>7. G /= {} /\ G \subseteq S
  BY <1>2, <1>5, <1>6 DEF Topped
<1> HIDE DEF G, m
<1>8. HasEnds(G)
  <2>1. IsFiniteSet(G) /\ G \in SUBSET Int
    BY <1>1, <1>7, FS_Subset
  <2> QED
    BY <1>7, <2>1, Ends
<1>9. m \in G /\ \A i \in G : m <= i
  BY <1>3, <1>8 DEF SA!Min, HasEnds
<1>10. m \in S /\ \A j \in S : SA!Leq(f[j], f[m])
  BY <1>6, <1>9
<1>11. ASSUME NEW i \in S, i < m, SA!Leq(f[m], f[i]) PROVE FALSE
  <2>1. \A j \in S : SA!Leq(f[j], f[i])
    BY <1>10, <1>11, OrderIsLinear DEF S
  <2>2. i \in G
    BY <1>6, <2>1
  <2>3. m <= i /\ m \in Int /\ i \in Int
    BY <1>1, <1>9, <1>10, <2>2
  <2> QED
    BY <1>11, <2>3
<1> QED
  BY <1>10, <1>11 DEF AtMostThere, S, m

\* The split of any readings leaves the least squares, and is the first to do so.
THEOREM BestSplitIs ==
  ASSUME NEW X \in Seq(Int), Len(X) >= 2
  PROVE  LET n == Len(X)
             m == SA!BestSplit(SA!Readings(X), 1)
         IN /\ m \in 1 .. n - 1 /\ \A k \in 1 .. n - 1 : SA!Leq(LeavesAt(X, m), LeavesAt(X, k))
            /\ \A k \in 1 .. n - 1 : k < m => LeavesAt(X, m) /= LeavesAt(X, k)
<1> DEFINE n == Len(X)
           xs == SA!Readings(X)
           m == SA!BestSplit(xs, 1)
           f == [k \in 1 .. n - 1 |-> SA!Taken(SubSeq(xs, 1, k), SubSeq(xs, k + 1, n))]
<1>1. Len(xs) = n /\ n \in Nat /\ n - 1 \in Nat \ {0} /\ ~(n < 2 * 1)
  BY ReadingsAre
<1>2. m = SA!FirstGreatest(f)
  BY <1>1 DEF SA!BestSplit
<1>3. DOMAIN f = 1 .. n - 1 /\ \A k \in 1 .. n - 1 : f[k] = TakenAt(X, k)
  BY SidesAre DEF TakenAt
<1>4. \A k \in 1 .. n - 1 : TakenAt(X, k) \in Fraction /\ LeavesAt(X, k) \in Fraction
  BY OrderOfPlaces
<1> HIDE DEF f, m, xs
<1>5. AtMostThere(f, n - 1, m)
  BY <1>1, <1>2, <1>3, <1>4, FirstGreatestIs
<1>6. /\ m \in 1 .. n - 1 /\ \A k \in 1 .. n - 1 : SA!Leq(TakenAt(X, k), TakenAt(X, m))
      /\ \A k \in 1 .. n - 1 : k < m => ~SA!Leq(TakenAt(X, m), TakenAt(X, k))
  BY <1>3, <1>5 DEF AtMostThere
<1>7. \A k \in 1 .. n - 1 : SA!Leq(LeavesAt(X, m), LeavesAt(X, k))
  BY <1>6, OrderOfPlaces
<1>8. ASSUME NEW k \in 1 .. n - 1, k < m, LeavesAt(X, m) = LeavesAt(X, k) PROVE FALSE
  <2>1. ~SA!Leq(LeavesAt(X, k), LeavesAt(X, m))
    BY <1>6, <1>8, OrderOfPlaces
  <2>2. SA!Leq(LeavesAt(X, m), LeavesAt(X, m))
    BY <1>4, <1>6, OrderIsLinear
  <2> QED
    BY <1>8, <2>1, <2>2
<1> QED
  BY <1>6, <1>7, <1>8 DEF m, xs

-----------------------------------------------------------------------------
(* What is said of the two samples of now. *)

\* InOrder is the number of readings of both samples.
LEMMA NowInOrder == ASSUME sampleA \in Seq(Int), sampleB \in Seq(Int) PROVE SA!All \in Seq(Int) /\ SA!InOrder = Len(SA!All)
<1>1. SA!All \in Seq(Int)
  BY Joining DEF SA!All
<1>2. DOMAIN SA!All = 1 .. Len(SA!All) /\ Len(SA!All) \in Nat
  BY <1>1
<1>3. Cardinality(1 .. Len(SA!All)) = Len(SA!All)
  BY <1>2, FiniteSubsets
<1>4. SA!InOrder = Cardinality(DOMAIN SA!All)
  BY ModelCount DEF SA!InOrder
<1> QED
  BY <1>1, <1>2, <1>3, <1>4, Zenon

\* SplitLeastSquares holds of what best_split says of the samples of now.
LEMMA SplitOfNowLeast ==
  ASSUME sampleA \in Seq(Int), sampleB \in Seq(Int), outcome.split = SA!BestSplit(SA!Readings(sampleA \o sampleB), 1)
  PROVE  SA!SplitLeastSquares
<1> DEFINE X == SA!All
           n == SA!InOrder
           m == outcome.split
<1>1. SUFFICES ASSUME n >= 2
               PROVE  /\ \A k \in 1 .. n - 1 : SA!Leq(SA!SquaresSplit(m), SA!SquaresSplit(k))
                      /\ \A k \in 1 .. m - 1 : SA!SquaresSplit(m) /= SA!SquaresSplit(k)
  BY DEF SA!SplitLeastSquares
<1>2. X \in Seq(Int) /\ n = Len(X) /\ Len(X) \in Nat
  BY NowInOrder
<1>3. m = SA!BestSplit(SA!Readings(X), 1)
  BY DEF SA!All
<1>4. \A k : SA!SquaresSplit(k) = LeavesAt(X, k)
  BY <1>2, Zenon DEF SA!SquaresSplit, LeavesAt
<1> HIDE DEF X, n, m
<1>5. /\ m \in 1 .. Len(X) - 1 /\ \A k \in 1 .. Len(X) - 1 : SA!Leq(LeavesAt(X, m), LeavesAt(X, k))
      /\ \A k \in 1 .. Len(X) - 1 : k < m => LeavesAt(X, m) /= LeavesAt(X, k)
  BY <1>1, <1>2, <1>3, BestSplitIs
<1>6. \A k \in 1 .. m - 1 : k \in 1 .. Len(X) - 1 /\ k < m
  BY <1>2, <1>5
<1> QED
  BY <1>2, <1>4, <1>5, <1>6

\* What is said of two samples, of a changepoint.
ChangeOf(x, y, o) == /\ o.p = SA!RankSumTest(x, y, TieFactor)
                     /\ o.split = SA!BestSplit(SA!Readings(x \o y), 1)

\* The samples are sequences of numbers, and what is said is said of them as they are now.
ChangeSaid == /\ sampleA \in Seq(Int) /\ sampleB \in Seq(Int)
              /\ outcome = SA!Unknown \/ ChangeOf(sampleA, sampleB, outcome)

\* ChangeSaid is an invariant: a reading withdraws what was said, an analysis says it anew.
LEMMA ChangeInit == SA!Init => ChangeSaid
  BY DEF SA!Init, ChangeSaid

LEMMA ChangeStep == ChangeSaid /\ [SA!Next]_(SA!samples) => ChangeSaid'
<1> SUFFICES ASSUME ChangeSaid, [SA!Next]_(SA!samples) PROVE ChangeSaid'
  OBVIOUS
<1>1. CASE SA!Read
  <2>1. PICK r \in Ranges : \E x \in r[1] :
          (sampleA' = Append(sampleA, x) /\ sampleB' = sampleB) \/ (sampleB' = Append(sampleB, x) /\ sampleA' = sampleA)
    BY <1>1 DEF SA!Read
  <2>2. r[1] \subseteq Int
    BY SamplesAssumption
  <2>3. sampleA' \in Seq(Int) /\ sampleB' \in Seq(Int)
    <3>1. sampleA \in Seq(Int) /\ sampleB \in Seq(Int)
      BY DEF ChangeSaid
    <3>2. PICK x \in r[1] : (sampleA' = Append(sampleA, x) /\ sampleB' = sampleB)
                             \/ (sampleB' = Append(sampleB, x) /\ sampleA' = sampleA)
      BY <2>1
    <3>3. x \in Int
      BY <2>2
    <3>4. Append(sampleA, x) \in Seq(Int) /\ Append(sampleB, x) \in Seq(Int)
      BY <3>1, <3>3
    <3> QED
      BY <3>1, <3>2, <3>4
  <2>4. outcome' = SA!Unknown
    BY <1>1 DEF SA!Read
  <2>5. SA!Unknown' = SA!Unknown
    BY DEF SA!Unknown, SA!One, SA!Whole
  <2> QED
    BY <2>3, <2>4, <2>5 DEF ChangeSaid
<1>2. CASE SA!Analyse
  <2>1. sampleA' = sampleA /\ sampleB' = sampleB
    BY <1>2 DEF SA!Analyse
  <2>2. ChangeOf(sampleA, sampleB, outcome')
    BY <1>2 DEF SA!Analyse, ChangeOf
  <2>3. ChangeOf(sampleA', sampleB', outcome')
    BY <2>1, <2>2
  <2> QED
    BY <2>1, <2>3 DEF ChangeSaid, ChangeOf
<1>3. CASE UNCHANGED SA!samples
  BY <1>3 DEF SA!samples, ChangeSaid, ChangeOf
<1> QED
  BY <1>1, <1>2, <1>3 DEF SA!Next

\* The p-value of the rank-sum test is what counting all samples gives, and the place that is proposed is the
\* first that leaves the least squares, for any readings of any number (libpilot.cc 1257-1571).
THEOREM ChangesAreFound == SA!Spec => []ChangesFound
<1>1. ChangeSaid => ChangesFound
  <2> SUFFICES ASSUME ChangeSaid PROVE SA!RankTestRight /\ SA!SplitLeastSquares
    BY DEF ChangesFound
  <2>1. CASE outcome = SA!Unknown
    BY <2>1 DEF SA!RankTestRight, SA!SplitLeastSquares
  <2>2. CASE ChangeOf(sampleA, sampleB, outcome)
    BY <2>2, TestOfNowRight, SplitOfNowLeast DEF ChangeSaid, ChangeOf
  <2> QED
    BY <2>1, <2>2 DEF ChangeSaid
<1> QED
  BY <1>1, ChangeInit, ChangeStep, PTL DEF SA!Spec
=============================================================================
