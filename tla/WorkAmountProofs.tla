-------------------------- MODULE WorkAmountProofs --------------------------
(***************************************************************************)
(* What is proved of the amounts of work, for any ranges of them that are  *)
(* the right way round, any demands of the analyses and any number of      *)
(* rounds.  At the heart is that the average amount, rounded down, cannot  *)
(* fall below both its old value and the new amount.                       *)
(***************************************************************************)
EXTENDS WorkAmount, TLAPS

\* pilot_set_work_amount_limit and pilot_set_init_work_amount as documented.
Ordered == \A r \in Ranges : r[1] <= r[2]

\* The quotient of a division, bounded from below.
LEMMA QuotientAbove ==
  ASSUME NEW s \in Nat, NEW c \in Nat \ {0}, NEW m \in Nat, c * m <= s
  PROVE  s \div c >= m
<1> DEFINE q == s \div c
<1>1. q \in Nat /\ s < c * (q + 1)
  BY SMT
<1> HIDE DEF q
<1>2. SUFFICES ASSUME q < m PROVE FALSE
  BY <1>1 DEF q
<1>3. q + 1 <= m
  BY <1>1, <1>2
<1>4. c * (q + 1) <= c * m
  BY <1>1, <1>3, SMT
<1>5. c * (q + 1) \in Nat /\ c * m \in Nat
  BY <1>1
<1> QED BY <1>1, <1>4, <1>5

LEMMA QuotientBelow ==
  ASSUME NEW s \in Nat, NEW c \in Nat \ {0}
  PROVE  s \div c \in Nat /\ c * (s \div c) <= s
BY SMT

\* The average after one more round is no less than the smaller of the average
\* before it and its amount.
LEMMA AverageKeeps ==
  ASSUME NEW s \in Nat, NEW c \in Nat \ {0}, NEW a \in Nat,
         NEW x \in Nat, x <= s \div c, x <= a
  PROVE  (s + a) \div (c + 1) >= x
<1> DEFINE q == s \div c
<1>1. q \in Nat /\ c * q <= s
  BY QuotientBelow
<1> HIDE DEF q
<1>2. x <= q
  BY DEF q
<1>3. c * x <= c * q /\ c * x \in Nat /\ c * q \in Nat
  BY <1>1, <1>2, SMT
<1>4. (c + 1) * x = c * x + x
  BY SMT
<1>5. (c + 1) * x <= s + a
  BY <1>1, <1>3, <1>4
<1> QED BY <1>5, QuotientAbove

\* While amounts grow, five times their average stays above the last of them:
\* s is the sum of c of them and a, the next, is as large as it may be.
LEMMA AverageGrows ==
  ASSUME NEW s \in Nat, NEW c \in Nat \ {0}, NEW a \in Nat,
         2 * s >= c * (c + 1), s \div c >= 1, a <= 5 * (s \div c), a >= 1
  PROVE  5 * ((s + a) \div (c + 1)) > a
<1> DEFINE q == s \div c
           r == (s + a) \div (c + 1)
<1>1. q \in Nat /\ c * q <= s /\ s < c * (q + 1) /\ r \in Nat
  <2>1. s < c * (s \div c + 1)
    BY SMT
  <2>2. r \in Nat
    BY QuotientBelow
  <2> QED BY <2>1, <2>2, QuotientBelow
<1>2. CASE a <= q
  <2>1. r >= a
    BY <1>1, <1>2, AverageKeeps
  <2> QED BY <1>1, <2>1
<1>3. CASE q < a /\ a < 5 * q
  <2>1. r >= q
    BY <1>1, <1>3, AverageKeeps
  <2> QED BY <1>1, <1>3, <2>1
<1>4. CASE a = 5 * q
  <2> HIDE DEF q, r
  <2>1. c * (c + 1) < 2 * (c * (q + 1))
    BY <1>1
  <2>2. c <= 2 * q
    <3> SUFFICES ASSUME 2 * (q + 1) <= c + 1 PROVE FALSE
      BY <1>1
    <3>1. c * (2 * (q + 1)) <= c * (c + 1)
      BY <1>1, SMT
    <3>2. c * (2 * (q + 1)) = 2 * (c * (q + 1))
      BY <1>1, SMT
    <3> QED BY <1>1, <2>1, <3>1, <3>2
  <2>3. (c + 1) * (q + 1) = c * q + q + c + 1
    BY <1>1, SMT
  <2>4. (c + 1) * (q + 1) <= s + a
    BY <1>1, <1>4, <2>2, <2>3 DEF q
  <2>5. r >= q + 1
    BY <1>1, <2>4, QuotientAbove DEF r
  <2> QED BY <1>1, <1>4, <2>5 DEF r
<1> QED BY <1>1, <1>2, <1>3, <1>4

LEMMA MaxOfSix ==
  ASSUME NEW a \in Int, NEW b \in Int, NEW c \in Int, NEW d \in Int,
         NEW e \in Int, NEW f \in Int
  PROVE  LET M == Max({a, b, c, d, e, f})
         IN  M \in Int /\ a <= M /\ b <= M /\ c <= M /\ d <= M /\ e <= M /\ f <= M
<1> DEFINE S == {a, b, c, d, e, f}
           Bigger(x, y) == IF x >= y THEN x ELSE y
           m == Bigger(a, Bigger(b, Bigger(c, Bigger(d, Bigger(e, f)))))
<1>1. m \in S /\ \A x \in S : m >= x
  OBVIOUS
<1>2. Max(S) \in S /\ \A x \in S : Max(S) >= x
  <2> HIDE DEF S, m
  <2> QED BY <1>1 DEF Max
<1> QED BY <1>2

LEMMA MaxOfTwo ==
  ASSUME NEW a \in Int, NEW b \in Int
  PROVE  Max({a, b}) = IF a >= b THEN a ELSE b
<1> DEFINE S == {a, b}
           m == IF a >= b THEN a ELSE b
<1>1. m \in S /\ \A x \in S : m >= x
  OBVIOUS
<1>2. Max(S) \in S /\ \A x \in S : Max(S) >= x
  <2> HIDE DEF S, m
  <2> QED BY <1>1 DEF Max
<1> QED BY <1>2
-----------------------------------------------------------------------------
\* The least work of a round, when there is work at all.
Least == IF init >= 1 THEN init ELSE 1

Average == sum \div count

Types ==
  /\ init \in Nat /\ limit \in Nat /\ count \in Nat /\ sum \in Nat
  /\ last \in Nat /\ amount \in Nat /\ slices \in Nat /\ asked \in Nat
  /\ adjusted \in Nat \cup {-1} /\ promised \in Nat \cup {-1}
  /\ wps \in WpsModes /\ demand \in Demand
  /\ lowerDone \in BOOLEAN /\ short \in BOOLEAN /\ trap \in BOOLEAN
  /\ phase \in {"ready", "running", "done"}

\* The lower bound is found at most once, from a round that was run.
Bound ==
  /\ init <= limit
  /\ lowerDone <=> adjusted # -1
  /\ adjusted <= limit /\ last <= limit
  /\ count = 0 \/ limit = 0 => adjusted = -1
  /\ count = 0 => sum = 0
  /\ adjusted = -1 \/ adjusted >= Least

\* What the rounds so far say of the average, which the soft limit is five
\* times: it covers the last round, the lower bound and the initial amount.
\* Before the lower bound is found, the rounds grow until they are at the
\* limit, so that their average leaves the next round room to grow.
Averages ==
  count > 0 =>
    /\ Average \in Nat
    /\ limit # 0 => Average >= Least /\ last >= Least
    /\ 5 * Average >= last /\ 5 * Average >= adjusted
    /\ adjusted = -1 /\ last < limit =>
         5 * Average > last /\ last >= count /\ 2 * sum >= count * (count + 1)

\* What is known of the amount that was decided.
Decided ==
  Running =>
    /\ amount <= limit /\ amount >= adjusted
    /\ limit # 0 => amount >= Least
    /\ count > 0 =>
         /\ amount <= 5 * Average
         /\ adjusted = -1 => amount > last \/ amount = limit

Inv == Types /\ Bound /\ Averages /\ Decided

LEMMA InvInit == Ordered /\ Init => Inv
<1> SUFFICES ASSUME Ordered, Init PROVE Inv
  OBVIOUS
<1>1. init \in Nat /\ limit \in Nat /\ init <= limit
  BY WorkAmountAssumption DEF Init, Ordered
<1>2. demand \in Demand
  BY DEF Init, Demand, NoDemand, Satisfied
<1>3. Types
  BY <1>1, <1>2 DEF Init, Types
<1> QED BY <1>1, <1>3 DEF Init, Inv, Bound, Averages, Decided, Running

\* What each plugin may ask for.
LEMMA LowerBoundAsks ==
  ASSUME Inv
  PROVE  /\ LowerBound.need \in Nat /\ LowerBound.need <= limit
         /\ LowerBound.more \in BOOLEAN
         /\ LowerBound.done \in BOOLEAN
         /\ LowerBound.adjusted \in Nat \cup {-1} /\ LowerBound.adjusted <= limit
         /\ LowerBound.done <=> LowerBound.adjusted # -1
         /\ count = 0 \/ limit = 0 => LowerBound.adjusted = -1
         /\ \/ LowerBound.adjusted = adjusted
            \/ /\ count > 0 /\ limit # 0
               /\ LowerBound.adjusted = last /\ LowerBound.need = last
         /\ LowerBound.adjusted = -1 /\ count > 0 /\ limit # 0 =>
              LowerBound.need = Smaller(2 * last, limit)
<1> USE DEF Inv, Types, Bound, Smaller
<1>1. CASE lowerDone \/ limit = 0
  <2>1. LowerBound = [need |-> 0, more |-> FALSE, adjusted |-> adjusted, done |-> lowerDone]
    BY <1>1 DEF LowerBound
  <2> QED BY <1>1, <2>1
<1>2. CASE ~lowerDone /\ limit # 0 /\ count = 0
  <2>1. LowerBound = [need |-> 0, more |-> TRUE, adjusted |-> adjusted, done |-> lowerDone]
    BY <1>2 DEF LowerBound
  <2> QED BY <1>2, <2>1
<1>3. CASE ~lowerDone /\ limit # 0 /\ count # 0 /\ short
  <2>1. LowerBound = [need |-> Smaller(2 * last, limit), more |-> TRUE,
                      adjusted |-> adjusted, done |-> lowerDone]
    BY <1>3 DEF LowerBound
  <2> QED BY <1>3, <2>1
<1>4. CASE ~lowerDone /\ limit # 0 /\ count # 0 /\ ~short
  <2>1. LowerBound = [need |-> last, more |-> FALSE, adjusted |-> last, done |-> TRUE]
    BY <1>4 DEF LowerBound
  <2> QED BY <1>4, <2>1
<1> QED BY <1>1, <1>2, <1>3, <1>4

LEMMA ReadingsAsk ==
  ASSUME Inv
  PROVE  /\ FromReadings.need \in Nat /\ FromUnitReadings.need \in Nat
         /\ ForComparison.need \in Nat
         /\ count > 0 /\ limit # 0 => FromReadings.need = init
<1> USE DEF Inv, Types, Demand, Satisfied
<1>1. FromReadings.need \in Nat /\ (count > 0 /\ limit # 0 => FromReadings.need = init)
  BY DEF FromReadings
<1>2. FromUnitReadings.need \in Nat
  BY WorkAmountAssumption DEF FromUnitReadings, Idle
<1>3. ForComparison.need \in Nat
  BY WorkAmountAssumption DEF ForComparison, Idle
<1> QED BY <1>1, <1>2, <1>3

LEMMA WpsAsks ==
  ASSUME Inv, NEW low \in Nat \cup {-1}, low <= limit, NEW n \in SliceChoices
  PROVE  /\ Wps(low, n).need \in Int /\ Wps(low, n).slices \in Nat
         /\ Wps(low, n).asked \in Nat /\ Wps(low, n).trap \in BOOLEAN
<1> USE DEF Inv, Types
<1>1. CASE wps = "off" \/ limit = 0 \/ low < 0 \/ low = limit
  <2>1. \/ Wps(low, n) = [need |-> 0, more |-> FALSE, slices |-> slices,
                           asked |-> asked, trap |-> FALSE]
        \/ Wps(low, n) = [need |-> init, more |-> TRUE, slices |-> slices,
                           asked |-> asked, trap |-> FALSE]
    BY <1>1 DEF Wps
  <2>2. Wps(low, n).need \in Int
    BY <2>1
  <2>3. Wps(low, n).slices \in Nat /\ Wps(low, n).asked \in Nat
    BY <2>1
  <2>4. Wps(low, n).trap \in BOOLEAN
    <3>1. \E x, m : \E z \in BOOLEAN :
            Wps(low, n) = [need |-> x, more |-> m, slices |-> slices, asked |-> asked, trap |-> z]
      BY <2>1, Zenon
    <3> QED BY <3>1
  <2> QED BY <2>2, <2>3, <2>4
<1>2. CASE ~(wps = "off" \/ limit = 0 \/ low < 0 \/ low = limit)
  <2> DEFINE k == Slices(low, n)
             f == Asked(low, n)
             w == (limit - low) \div k
             at(x) == [need |-> x, more |-> wps = "must", slices |-> k,
                       asked |-> f, trap |-> FALSE]
  <2>1. low \in Nat /\ low < limit /\ Wps(low, n) = NextSlice(low, n)
    BY <1>2 DEF Wps
  <2>2. n \in Nat \ {0}
    BY WorkAmountAssumption DEF FailSafeSlices
  <2>3. k \in Nat \ {0} /\ f \in Nat
    BY <2>1, <2>2 DEF Slices, Asked
  <2>4. w \in Nat
    BY <2>1, <2>3
  <2>5. /\ low + w \in Int /\ low + 1 \in Int /\ low + w \div 2 \in Int
        /\ w # 0 => low + ((last - low) \div w + 1) * w \in Int
    <3> HIDE DEF w
    <3>1. w # 0 => (last - low) \div w \in Int
      BY <2>1, <2>4
    <3>2. w # 0 => ((last - low) \div w + 1) * w \in Int
      BY <2>4, <3>1
    <3> QED BY <2>1, <2>4, <3>2
  <2>6. \/ NextSlice(low, n) = [at(0) EXCEPT !.more = FALSE]
        \/ NextSlice(low, n) = at(low + w)
        \/ NextSlice(low, n) = at(low + 1)
        \/ NextSlice(low, n) = [at(low + w \div 2) EXCEPT !.slices = 2 * k]
        \/ NextSlice(low, n) = [at(0) EXCEPT !.trap = TRUE]
        \/ w # 0 /\ NextSlice(low, n) = at(low + ((last - low) \div w + 1) * w)
    BY DEF NextSlice
  <2>7. \E x \in Int, y \in Nat, z \in BOOLEAN, m \in BOOLEAN :
          NextSlice(low, n) = [need |-> x, more |-> m, slices |-> y, asked |-> f, trap |-> z]
    <3>1. (wps = "must") \in BOOLEAN /\ 2 * k \in Nat /\ 0 \in Int
      BY <2>3
    <3> HIDE DEF k, f, w
    <3> QED BY <2>3, <2>5, <2>6, <3>1
  <2> QED BY <2>1, <2>3, <2>7
<1> QED BY <1>1, <1>2

\* What an answer may be: an amount that Decided allows, and lower bounds that
\* Bound and Averages allow.
LEMMA AnswerSound ==
  ASSUME Inv, NEW a \in Answers
  PROVE  /\ a.amount \in Nat /\ a.more \in BOOLEAN /\ a.slices \in Nat /\ a.asked \in Nat
         /\ a.done \in BOOLEAN /\ a.trap \in BOOLEAN
         /\ a.adjusted \in Nat \cup {-1} /\ a.adjusted <= limit
         /\ a.done <=> a.adjusted # -1
         /\ count = 0 \/ limit = 0 => a.adjusted = -1
         /\ a.adjusted = adjusted \/ (count > 0 /\ limit # 0 /\ a.adjusted = last)
         /\ a.amount <= limit /\ a.amount >= a.adjusted
         /\ limit # 0 => a.amount >= Least
         /\ count > 0 =>
              /\ a.amount <= 5 * Average
              /\ a.adjusted = -1 => a.amount > last \/ a.amount = limit
<1>1. CASE count = 0 /\ (limit = 0 \/ init # 0)
  <2>1. a = [amount |-> IF limit = 0 THEN 0 ELSE init, more |-> TRUE,
             adjusted |-> adjusted, done |-> lowerDone, slices |-> slices,
             asked |-> asked, trap |-> trap]
    BY <1>1 DEF Answers
  <2> QED BY <1>1, <2>1 DEF Inv, Types, Bound, Least
<1>2. CASE ~(count = 0 /\ (limit = 0 \/ init # 0))
  <2> DEFINE w(n) == Wps(LowerBound.adjusted, n)
  <2>1. PICK n \in SliceChoices :
          a = [amount |-> Proposal(LowerBound, w(n)),
               more |-> count = 0 \/ LowerBound.more \/ FromReadings.more
                          \/ FromUnitReadings.more \/ w(n).more \/ ForComparison.more,
               adjusted |-> LowerBound.adjusted, done |-> LowerBound.done,
               slices |-> w(n).slices, asked |-> w(n).asked, trap |-> w(n).trap]
    BY <1>2 DEF Answers
  <2>2. w(n).need \in Int /\ w(n).slices \in Nat /\ w(n).asked \in Nat /\ w(n).trap \in BOOLEAN
    BY LowerBoundAsks, WpsAsks
  <2> DEFINE base == IF count = 0 THEN 1 ELSE IF limit = 0 THEN 0 ELSE Max({adjusted, 0})
             need == Needed(LowerBound, w(n))
             amt == Proposal(LowerBound, w(n))
  <2>3. /\ base \in Nat /\ (count = 0 => base = 1)
        /\ count > 0 /\ limit # 0 => base >= adjusted
    BY MaxOfTwo DEF Inv, Types
  <2>4. /\ need \in Int /\ need >= base /\ need >= LowerBound.need
        /\ need >= FromReadings.need
    <3>1. need = Max({base, LowerBound.need, FromReadings.need,
                      FromUnitReadings.need, w(n).need, ForComparison.need})
      BY DEF Needed
    <3>2. /\ base \in Int /\ LowerBound.need \in Int /\ FromReadings.need \in Int
          /\ FromUnitReadings.need \in Int /\ ForComparison.need \in Int
      BY <2>3, LowerBoundAsks, ReadingsAsk
    <3> HIDE DEF base, need, w
    <3> QED BY <2>2, <3>1, <3>2, MaxOfSix, Zenon
  <2>5. amt = Smaller(Smaller(need, limit), SoftLimit)
    BY DEF Proposal
  <2> HIDE DEF base, need, amt, w
  <2>6. /\ amt \in Nat /\ amt <= limit /\ amt >= LowerBound.adjusted
        /\ limit # 0 => amt >= Least
        /\ count > 0 =>
             /\ amt <= 5 * Average
             /\ LowerBound.adjusted = -1 => amt > last \/ amt = limit
    <3>1. CASE count = 0
      <4>1. limit \in Nat \ {0} /\ init = 0 /\ LowerBound.adjusted = -1
        BY <1>2, <3>1, LowerBoundAsks DEF Inv, Types, Bound
      <4>2. SoftLimit = limit
        BY <3>1 DEF SoftLimit
      <4>3. amt \in Nat /\ amt <= limit /\ amt >= 1
        BY <2>3, <2>4, <2>5, <3>1, <4>1, <4>2 DEF Smaller
      <4> QED BY <3>1, <4>1, <4>3 DEF Least
    <3>2. CASE count # 0
      <4>1. /\ count > 0 /\ Average \in Nat /\ last \in Nat /\ limit \in Nat /\ init \in Nat
            /\ init <= limit /\ last <= limit
            /\ limit # 0 => Average >= Least /\ last >= Least
            /\ 5 * Average >= last /\ 5 * Average >= adjusted
            /\ adjusted = -1 /\ last < limit => 5 * Average > last
        BY <3>2 DEF Inv, Types, Bound, Averages
      <4>2. SoftLimit = Smaller(5 * Average, limit)
        BY <4>1 DEF SoftLimit, AvgLimit, Average
      <4> HIDE DEF Average
      <4>3. amt = Smaller(Smaller(need, limit), Smaller(5 * Average, limit))
        BY <2>5, <4>2
      <4>4. /\ amt <= limit /\ amt <= 5 * Average
            /\ \A x \in Int : x <= need /\ x <= limit /\ x <= 5 * Average => amt >= x
            /\ amt \in Int
        BY <2>4, <4>1, <4>3 DEF Smaller
      <4>5. CASE limit = 0
        <5>1. LowerBound.adjusted = -1 /\ LowerBound.need \in Nat
          BY <4>5, LowerBoundAsks
        <5>2. amt >= 0
          BY <2>4, <4>1, <4>4, <4>5, <5>1
        <5> QED BY <4>1, <4>4, <4>5, <5>1, <5>2
      <4>6. CASE limit # 0
        <5>1. amt >= LowerBound.adjusted
          <6>1. CASE LowerBound.adjusted = adjusted
            <7>1. base >= adjusted /\ adjusted \in Int /\ adjusted <= limit
              BY <2>3, <4>1, <4>6 DEF Inv, Types, Bound
            <7> QED BY <2>3, <2>4, <4>1, <4>4, <6>1, <7>1
          <6>2. CASE LowerBound.adjusted = last /\ LowerBound.need = last
            BY <2>4, <4>1, <4>4, <6>2
          <6> QED BY <6>1, <6>2, LowerBoundAsks
        <5>2. LowerBound.adjusted = -1 => amt > last \/ amt = limit
          <6> SUFFICES ASSUME LowerBound.adjusted = -1
                       PROVE  amt > last \/ amt = limit
            OBVIOUS
          <6>1. LowerBound.need = Smaller(2 * last, limit) /\ adjusted = -1
            BY <4>1, <4>6, LowerBoundAsks
          <6>2. CASE last < limit
            <7>1. last + 1 <= 5 * Average /\ last + 1 <= limit
              BY <4>1, <6>1, <6>2
            <7>2. last + 1 <= Smaller(2 * last, limit)
              BY <4>1, <4>6, <6>2 DEF Smaller, Least
            <7>3. last + 1 <= LowerBound.need /\ LowerBound.need \in Nat
              BY <6>1, <7>2, LowerBoundAsks
            <7>4. last + 1 <= need /\ last + 1 \in Int
              BY <2>4, <4>1, <7>3
            <7> QED BY <4>1, <4>4, <7>1, <7>4
          <6>3. CASE last = limit
            <7>1. Smaller(2 * last, limit) = limit
              BY <4>1, <6>3 DEF Smaller
            <7> QED BY <2>4, <4>1, <4>4, <6>1, <6>3, <7>1
          <6> QED BY <4>1, <6>2, <6>3
        <5>3. amt >= Least
          <6>1. Least \in Nat /\ Least <= limit /\ Least <= 5 * Average
            BY <4>1, <4>6 DEF Least
          <6>2. need >= init
            BY <2>4, <4>1, <4>6, ReadingsAsk
          <6>3. need >= 1
            <7>1. CASE LowerBound.adjusted = -1
              <8>1. LowerBound.need = Smaller(2 * last, limit)
                BY <4>1, <4>6, <7>1, LowerBoundAsks
              <8>2. Smaller(2 * last, limit) >= 1 /\ Smaller(2 * last, limit) \in Int
                BY <4>1, <4>6 DEF Smaller, Least
              <8> QED BY <2>4, <8>1, <8>2
            <7>2. CASE LowerBound.adjusted = adjusted /\ adjusted # -1
              <8>1. base >= adjusted /\ adjusted >= Least /\ adjusted \in Int
                BY <2>3, <4>1, <4>6, <7>2 DEF Inv, Types, Bound
              <8> QED BY <2>3, <2>4, <4>1, <8>1 DEF Least
            <7>3. CASE LowerBound.need = last
              BY <2>4, <4>1, <4>6, <7>3 DEF Least
            <7> QED BY <7>1, <7>2, <7>3, LowerBoundAsks
          <6> QED BY <4>4, <6>1, <6>2, <6>3 DEF Least
        <5> QED BY <4>1, <4>4, <5>1, <5>2, <5>3 DEF Least
      <4> QED BY <4>5, <4>6
    <3> QED BY <3>1, <3>2
  <2>7. \E m, d, t \in BOOLEAN :
          /\ a = [amount |-> amt, more |-> m, adjusted |-> LowerBound.adjusted,
                  done |-> d, slices |-> w(n).slices,
                  asked |-> w(n).asked, trap |-> t]
          /\ d <=> LowerBound.adjusted # -1
    <3>1. (count = 0 \/ LowerBound.more \/ FromReadings.more
              \/ FromUnitReadings.more \/ w(n).more \/ ForComparison.more) \in BOOLEAN
      BY Zenon
    <3> QED BY <2>1, <2>2, <3>1, LowerBoundAsks, Zenon DEF amt
  <2> QED BY <2>2, <2>6, <2>7, LowerBoundAsks
<1> QED BY <1>1, <1>2

\* A call of calc_next_round_work_amount between two rounds.
LEMMA AnswerKeeps ==
  ASSUME Inv, NEW a \in Answers, Leave(a), UNCHANGED <<settings, rounds>>
  PROVE  /\ Bound' /\ Averages'
         /\ slices' \in Nat /\ asked' \in Nat /\ adjusted' \in Nat \cup {-1}
         /\ lowerDone' \in BOOLEAN /\ trap' \in BOOLEAN
<1>1. /\ adjusted' = a.adjusted /\ lowerDone' = a.done
      /\ slices' = a.slices /\ asked' = a.asked /\ trap' = a.trap
      /\ init' = init /\ limit' = limit /\ count' = count /\ sum' = sum /\ last' = last
  BY DEF Leave, settings, rounds
<1>2. Average' = Average /\ Least' = Least
  BY <1>1 DEF Average, Least
<1>3. adjusted' = -1 => adjusted = -1
  <2>1. last \in Nat
    BY DEF Inv, Types
  <2>2. adjusted' = adjusted \/ adjusted' = last
    BY <1>1, AnswerSound
  <2> QED BY <2>1, <2>2
<1>4. adjusted' = -1 \/ adjusted' >= Least
  BY <1>1, AnswerSound DEF Inv, Bound, Averages
<1>5. count > 0 => 5 * Average >= adjusted'
  BY <1>1, AnswerSound DEF Inv, Averages
<1>6. Averages'
  <2> HIDE DEF Average, Least
  <2> QED BY <1>1, <1>2, <1>3, <1>5 DEF Inv, Averages
<1>7. Bound'
  BY <1>1, <1>2, <1>4, AnswerSound DEF Inv, Bound
<1> QED BY <1>1, <1>6, <1>7, AnswerSound

LEMMA FinishKeeps == ASSUME Inv, FinishRound PROVE Averages'
<1>1. /\ count' = count + 1 /\ sum' = sum + amount /\ last' = amount
      /\ init' = init /\ limit' = limit /\ adjusted' = adjusted
      /\ Running
  BY DEF FinishRound, settings, analysis, Running
<1>2. /\ count \in Nat /\ sum \in Nat /\ amount \in Nat /\ limit \in Nat /\ init \in Nat
      /\ last \in Nat /\ adjusted \in Nat \cup {-1}
      /\ amount >= adjusted /\ amount <= limit
      /\ limit # 0 => amount >= Least
      /\ limit = 0 => adjusted = -1
  BY <1>1 DEF Inv, Types, Bound, Decided
<1>3. Least \in Nat /\ Least >= 1 /\ Least' = Least
  BY <1>1, <1>2 DEF Least
<1>4. Average' = (sum + amount) \div (count + 1)
  BY <1>1 DEF Average
<1> HIDE DEF Least
<1>5. Average' \in Nat
  BY <1>2, <1>4, QuotientBelow
<1>6. CASE count = 0
  <2>1. Average' = amount
    BY <1>2, <1>4, <1>6 DEF Inv, Bound
  <2> QED BY <1>1, <1>2, <1>3, <1>6, <2>1 DEF Averages, Inv, Bound
<1>7. CASE count # 0
  <2>1. /\ Average = sum \div count /\ count \in Nat \ {0} /\ Average \in Nat
        /\ limit # 0 => Average >= Least
        /\ 5 * Average >= adjusted
        /\ adjusted = -1 /\ last < limit =>
             last >= count /\ 2 * sum >= count * (count + 1)
        /\ amount <= 5 * Average
        /\ adjusted = -1 => amount > last \/ amount = limit
    BY <1>1, <1>2, <1>7 DEF Inv, Averages, Average, Decided
  <2>2. \A x \in Nat : x <= Average /\ x <= amount => Average' >= x
    BY <1>2, <1>4, <2>1, AverageKeeps
  <2>3. limit # 0 => Average' >= Least
    BY <1>2, <1>3, <2>1, <2>2
  <2>4. Average' >= amount \/ Average' >= Average
    BY <1>2, <2>1, <2>2
  <2>5. 5 * Average' >= amount /\ 5 * Average' >= adjusted
    <3>1. adjusted \in Int /\ adjusted <= amount
      BY <1>2
    <3>2. \A v, w \in Nat : v >= amount \/ (v >= w /\ amount <= 5 * w) =>
            5 * v >= amount /\ 5 * v >= adjusted
      BY <1>2, <3>1
    <3>3. amount <= 5 * Average
      BY <2>1
    <3> QED BY <1>5, <2>1, <2>4, <3>2, <3>3, Zenon
  <2>6. ASSUME adjusted = -1, amount < limit
        PROVE  /\ 5 * Average' > amount /\ amount >= count + 1
               /\ 2 * (sum + amount) >= (count + 1) * (count + 2)
    <3>1. amount > last /\ last < limit /\ limit # 0
      BY <1>2, <2>1, <2>6
    <3>2. last >= count /\ 2 * sum >= count * (count + 1) /\ amount >= count + 1
      BY <1>2, <2>1, <2>6, <3>1
    <3>3. 5 * Average' > amount
      BY <1>2, <1>3, <1>4, <2>1, <3>1, <3>2, AverageGrows
    <3>4. (count + 1) * (count + 2) = count * (count + 1) + 2 * (count + 1)
      BY <1>2
    <3>5. count * (count + 1) \in Nat
      BY <1>2
    <3> QED BY <1>2, <3>2, <3>3, <3>4, <3>5
  <2>7. count' + 1 = count + 2
    BY <1>1, <1>2
  <2> HIDE DEF Average
  <2> QED BY <1>1, <1>2, <1>3, <1>5, <2>3, <2>5, <2>6, <2>7 DEF Averages
<1> QED BY <1>6, <1>7

LEMMA InvStep == Inv /\ [Next]_vars => Inv'
<1> SUFFICES ASSUME Inv, [Next]_vars PROVE Inv'
  OBVIOUS
<1>1. CASE Query
  <2>1. PICK a \in Answers :
          Leave(a) /\ promised' = IF a.more THEN a.amount ELSE -1
    BY <1>1 DEF Query
  <2>2. UNCHANGED <<settings, rounds, phase, amount>> /\ phase = "ready"
    BY <1>1 DEF Query
  <2>3. Bound' /\ Averages' /\ slices' \in Nat /\ asked' \in Nat /\ adjusted' \in Nat \cup {-1}
        /\ lowerDone' \in BOOLEAN /\ trap' \in BOOLEAN
    BY <2>1, <2>2, AnswerKeeps
  <2>4. promised' \in Nat \cup {-1}
    BY <2>1, AnswerSound
  <2>5. Types'
    BY <2>2, <2>3, <2>4 DEF Inv, Types, settings, rounds
  <2>6. Decided'
    BY <2>2 DEF Decided, Running
  <2> QED BY <2>3, <2>5, <2>6 DEF Inv
<1>2. CASE Decide
  <2>1. PICK a \in Answers :
          /\ Leave(a) /\ amount' = a.amount
          /\ phase' = IF a.more THEN "running" ELSE "done"
    BY <1>2 DEF Decide
  <2>2. UNCHANGED <<settings, rounds, promised>>
    BY <1>2 DEF Decide
  <2>3. Bound' /\ Averages' /\ slices' \in Nat /\ asked' \in Nat /\ adjusted' \in Nat \cup {-1}
        /\ lowerDone' \in BOOLEAN /\ trap' \in BOOLEAN
    BY <2>1, <2>2, AnswerKeeps
  <2>4. amount' \in Nat /\ phase' \in {"ready", "running", "done"}
    BY <2>1, AnswerSound
  <2>5. Types'
    BY <2>2, <2>3, <2>4 DEF Inv, Types, settings, rounds
  <2>6. Decided'
    <3>1. /\ limit' = limit /\ count' = count /\ last' = last
          /\ adjusted' = a.adjusted
          /\ Average' = Average /\ Least' = Least
      BY <2>1, <2>2 DEF settings, rounds, Leave, Average, Least
    <3> HIDE DEF Average, Least
    <3> QED BY <2>1, <3>1, AnswerSound DEF Decided
  <2> QED BY <2>3, <2>5, <2>6 DEF Inv
<1>3. CASE FinishRound
  <2>1. Averages'
    BY <1>3, FinishKeeps
  <2>2. /\ count' = count + 1 /\ sum' = sum + amount /\ last' = amount
        /\ short' \in BOOLEAN /\ demand' \in Demand /\ promised' = -1
        /\ phase' = "ready" /\ Running
        /\ UNCHANGED <<init, limit, wps, adjusted, lowerDone, slices, asked, trap, amount>>
    BY <1>3 DEF FinishRound, settings, analysis, Running
  <2>3. Types'
    BY <2>2 DEF Inv, Types
  <2>4. Bound'
    <3>1. count \in Nat /\ amount <= limit /\ Least' = Least
      BY <2>2 DEF Inv, Types, Decided, Least
    <3> HIDE DEF Least
    <3> QED BY <2>2, <3>1 DEF Inv, Bound
  <2>5. Decided'
    BY <2>2 DEF Decided, Running
  <2> QED BY <2>1, <2>3, <2>4, <2>5 DEF Inv
<1>4. CASE UNCHANGED vars
  <2>1. UNCHANGED <<init, limit, wps, adjusted, lowerDone, slices, asked, trap, count, sum,
                    last, short, demand, phase, amount, promised>>
    BY <1>4 DEF vars, settings, analysis, rounds
  <2>2. Average' = Average /\ Least' = Least
    BY <2>1 DEF Average, Least
  <2> HIDE DEF Average, Least
  <2> QED BY <2>1, <2>2 DEF Inv, Types, Bound, Averages, Decided, Running
<1> QED BY <1>1, <1>2, <1>3, <1>4 DEF Next

LEMMA InvAlways == ASSUME Ordered PROVE Spec => []Inv
<1>1. Init => Inv
  BY InvInit
<1> QED BY <1>1, InvStep, PTL DEF Spec

(* The type invariant of the work amounts.                                 *)
THEOREM AmountTyping == ASSUME Ordered PROVE Spec => []TypeOK
<1>1. Inv => TypeOK
  BY DEF Inv, Types, TypeOK
<1> QED BY <1>1, InvAlways, PTL

(* No plugin, soft limit or lower bound makes a round exceed               *)
(* work_amount_limit, provided the first is not set to.                    *)
THEOREM LimitHolds == ASSUME Ordered PROVE Spec => []WithinLimit
<1>1. Inv => WithinLimit
  BY DEF Inv, Decided, WithinLimit
<1> QED BY <1>1, InvAlways, PTL

(* No round does less than the initial amount, or no work at all.          *)
THEOREM RangeHolds == ASSUME Ordered PROVE Spec => []WithinRange
<1>1. Inv => WithinRange
  <2> SUFFICES ASSUME Inv PROVE WithinRange
    OBVIOUS
  <2>1. Max({init, 1}) = Least
    BY MaxOfTwo DEF Inv, Types, Least
  <2> QED BY <2>1 DEF Inv, Decided, WithinRange
<1> QED BY <1>1, InvAlways, PTL

(* The soft limit, though it averages over all the rounds that were too    *)
(* short, never cuts a round below the lower bound once found.             *)
THEOREM MinimumKept == ASSUME Ordered PROVE Spec => []SoftLimitKeepsMinimum
<1>1. Inv => SoftLimitKeepsMinimum
  BY DEF Inv, Decided, SoftLimitKeepsMinimum
<1> QED BY <1>1, InvAlways, PTL

(* The search for the lower bound never gets stuck at an amount below the  *)
(* limit: after every round that was too short comes one with more work.   *)
THEOREM ShortRoundsGrow == ASSUME Ordered PROVE Spec => []ShortRoundGrows
<1>1. Inv => ShortRoundGrows
  <2> SUFFICES ASSUME Inv, Running, count > 0, adjusted = -1, last < limit
               PROVE  amount > last
    BY DEF ShortRoundGrows
  <2>1. amount > last \/ amount = limit
    BY DEF Inv, Decided
  <2> QED BY <2>1
<1> QED BY <1>1, InvAlways, PTL
-----------------------------------------------------------------------------
\* The slices leave each at least one unit of work, or are as many as the duration of
\* a round asked for at first; only in that case is there nothing to divide by.
SlicesKept ==
  /\ slices # 0 => adjusted # -1 /\ (slices <= limit - adjusted \/ slices = asked)
  /\ trap => asked > limit - adjusted

\* The slices are doubled only while each has two units.
LEMMA HalfSlices ==
  ASSUME NEW w \in Nat, NEW k \in Nat \ {0}, k <= w, w \div k # 1
  PROVE  2 * k <= w
<1>1. w \div k >= 1
  BY QuotientAbove
<1>2. w \div k \in Nat /\ k * (w \div k) <= w
  BY QuotientBelow
<1> DEFINE q == w \div k
<1>3. q \in Nat /\ q >= 2 /\ k * q <= w
  BY <1>1, <1>2
<1> HIDE DEF q
<1>4. k * 2 <= k * q
  BY <1>3, SMT
<1>5. k * 2 = 2 * k /\ k * q \in Nat
  BY <1>3
<1> QED BY <1>3, <1>4, <1>5

\* A slice of a unit or more is never lost by more than its units.
LEMMA SliceSize ==
  ASSUME NEW w \in Nat, NEW k \in Nat \ {0}
  PROVE  /\ w \div k \in Nat
         /\ w \div k # 0 => k <= w
         /\ w \div k = 0 => k > w
         /\ w \div k # 0 /\ w \div k # 1 => 2 * k <= w
<1>1. w \div k \in Nat /\ k * (w \div k) <= w
  BY QuotientBelow
<1>2. k <= w => w \div k >= 1
  BY QuotientAbove
<1>3. k > w => w \div k = 0
  <2> DEFINE q == w \div k
  <2>1. q \in Nat /\ k * q <= w
    BY <1>1
  <2> HIDE DEF q
  <2>2. ASSUME k > w, q >= 1 PROVE FALSE
    <3>1. k * q >= k * 1
      BY <2>1, <2>2, SMT
    <3> QED BY <2>1, <2>2, <3>1
  <2>3. k > w => q = 0
    BY <2>1, <2>2
  <2> QED BY <2>3 DEF q
<1> QED BY <1>1, <1>2, <1>3, HalfSlices

LEMMA WpsKeeps ==
  ASSUME Inv, NEW low \in Nat \cup {-1}, low <= limit, NEW n \in SliceChoices,
         slices # 0 => low # -1 /\ (slices <= limit - low \/ slices = asked)
  PROVE  LET w == Wps(low, n)
         IN /\ w.trap => w.asked > limit - low
            /\ w.slices # 0 => low # -1 /\ (w.slices <= limit - low \/ w.slices = w.asked)
<1> USE DEF Inv, Types
<1>1. CASE wps = "off" \/ limit = 0 \/ low < 0 \/ low = limit
  <2>1. \/ Wps(low, n) = [need |-> 0, more |-> FALSE, slices |-> slices,
                          asked |-> asked, trap |-> FALSE]
        \/ Wps(low, n) = [need |-> init, more |-> TRUE, slices |-> slices,
                          asked |-> asked, trap |-> FALSE]
    BY <1>1 DEF Wps
  <2> QED BY <2>1
<1>2. CASE ~(wps = "off" \/ limit = 0 \/ low < 0 \/ low = limit)
  <2> DEFINE k == Slices(low, n)
             f == Asked(low, n)
             w == (limit - low) \div k
             at(x) == [need |-> x, more |-> wps = "must", slices |-> k,
                       asked |-> f, trap |-> FALSE]
  <2>1. low \in Nat /\ limit - low \in Nat \ {0} /\ Wps(low, n) = NextSlice(low, n)
    BY <1>2 DEF Wps
  <2>2. k \in Nat \ {0} /\ f \in Nat /\ (k <= limit - low \/ k = f)
    BY <2>1, WorkAmountAssumption DEF Slices, Asked, FewSlices, FailSafeSlices
  <2>3. /\ last \in Nat /\ limit \in Nat /\ last <= limit
    BY DEF Bound
  <2>4. \/ NextSlice(low, n) = [at(0) EXCEPT !.more = FALSE]
        \/ NextSlice(low, n) = at(low + w)
        \/ NextSlice(low, n) = at(low + 1)
        \/ w # 1 /\ last > limit - w /\ NextSlice(low, n) = [at(low + w \div 2) EXCEPT !.slices = 2 * k]
        \/ w = 0 /\ NextSlice(low, n) = [at(0) EXCEPT !.trap = TRUE]
        \/ NextSlice(low, n) = at(low + ((last - low) \div w + 1) * w)
    BY DEF NextSlice
  <2> HIDE DEF k, f
  <2>5. w \in Nat /\ (w = 0 => k > limit - low) /\ (w # 0 /\ w # 1 => 2 * k <= limit - low)
    BY <2>1, <2>2, SliceSize
  <2> HIDE DEF w
  <2>6. \/ \E x, m : NextSlice(low, n) = [need |-> x, more |-> m, slices |-> k, asked |-> f, trap |-> FALSE]
        \/ w # 1 /\ last > limit - w
           /\ \E x, m : NextSlice(low, n) = [need |-> x, more |-> m, slices |-> 2 * k, asked |-> f, trap |-> FALSE]
        \/ w = 0 /\ \E x, m : NextSlice(low, n) = [need |-> x, more |-> m, slices |-> k, asked |-> f, trap |-> TRUE]
    BY <2>4, Zenon
  <2>7. last > limit - w => w # 0
    BY <2>3, <2>5
  <2>8. \/ ~NextSlice(low, n).trap
        \/ NextSlice(low, n).asked = f /\ f > limit - low
    BY <2>1, <2>2, <2>5, <2>6
  <2>9. \/ NextSlice(low, n).slices <= limit - low
        \/ NextSlice(low, n).slices = NextSlice(low, n).asked
    BY <2>1, <2>2, <2>5, <2>6, <2>7
  <2> QED BY <2>1, <2>8, <2>9
<1> QED BY <1>1, <1>2

LEMMA AnswerKeepsSlices ==
  ASSUME Inv, SlicesKept, NEW a \in Answers
  PROVE  /\ a.trap => trap \/ a.asked > limit - a.adjusted
         /\ a.slices # 0 => a.adjusted # -1 /\ (a.slices <= limit - a.adjusted \/ a.slices = a.asked)
<1>1. CASE count = 0 /\ (limit = 0 \/ init # 0)
  <2>1. a = [amount |-> IF limit = 0 THEN 0 ELSE init, more |-> TRUE,
             adjusted |-> adjusted, done |-> lowerDone, slices |-> slices,
             asked |-> asked, trap |-> trap]
    BY <1>1 DEF Answers
  <2> QED BY <2>1 DEF SlicesKept
<1>2. CASE ~(count = 0 /\ (limit = 0 \/ init # 0))
  <2>1. PICK n \in SliceChoices :
          /\ a.adjusted = LowerBound.adjusted
          /\ a.slices = Wps(LowerBound.adjusted, n).slices
          /\ a.asked = Wps(LowerBound.adjusted, n).asked
          /\ a.trap = Wps(LowerBound.adjusted, n).trap
    BY <1>2 DEF Answers
  <2>2. slices # 0 => LowerBound.adjusted = adjusted
    BY DEF LowerBound, SlicesKept, Inv, Bound
  <2>3. slices # 0 => /\ LowerBound.adjusted # -1
                      /\ slices <= limit - LowerBound.adjusted \/ slices = asked
    BY <2>2 DEF SlicesKept
  <2>4. LowerBound.adjusted \in Nat \cup {-1} /\ LowerBound.adjusted <= limit
    BY LowerBoundAsks
  <2> QED BY <2>1, <2>3, <2>4, WpsKeeps
<1> QED BY <1>1, <1>2

(* Whatever the durations of rounds ask for, the only division by a slice  *)
(* of no size is one of more slices asked for at first than there is work  *)
(* (2200): the doubling of the slices, in any number of rounds, leaves     *)
(* each a unit of work.                                                    *)
THEOREM DoublingIsSafe == ASSUME Ordered PROVE Spec => []TrapOnlyAtFirst
<1>1. Init => SlicesKept
  BY DEF Init, SlicesKept
<1>2. ASSUME Inv, SlicesKept, [Next]_vars PROVE SlicesKept'
  <2>1. ASSUME NEW a \in Answers, Leave(a), UNCHANGED settings, ~trap PROVE SlicesKept'
    <3>1. /\ adjusted' = a.adjusted /\ slices' = a.slices /\ asked' = a.asked
          /\ trap' = a.trap /\ limit' = limit
      BY <2>1 DEF Leave, settings
    <3> QED BY <1>2, <2>1, <3>1, AnswerKeepsSlices DEF SlicesKept
  <2>2. CASE Query
    BY <2>1, <2>2 DEF Query
  <2>3. CASE Decide
    BY <2>1, <2>3 DEF Decide
  <2>4. CASE FinishRound \/ UNCHANGED vars
    BY <1>2, <2>4 DEF FinishRound, vars, settings, analysis, SlicesKept
  <2> QED BY <1>2, <2>2, <2>3, <2>4 DEF Next
<1>3. Inv /\ SlicesKept => TrapOnlyAtFirst
  BY DEF Inv, Types, SlicesKept, TrapOnlyAtFirst
<1> QED BY <1>1, <1>2, <1>3, InvAlways, PTL DEF Spec
-----------------------------------------------------------------------------
\* The work of the next round while WPS analysis is off.
NoWps == [need |-> 0]
Work == IF count = 0 /\ (limit = 0 \/ init # 0)
          THEN IF limit = 0 THEN 0 ELSE init
          ELSE Proposal(LowerBound, NoWps)

LEMMA WorkIsAnswered ==
  ASSUME wps = "off", NEW a \in Answers PROVE a.amount = Work
<1>1. CASE count = 0 /\ (limit = 0 \/ init # 0)
  BY <1>1 DEF Answers, Work
<1>2. CASE ~(count = 0 /\ (limit = 0 \/ init # 0))
  <2>1. PICK n \in SliceChoices : a.amount = Proposal(LowerBound, Wps(LowerBound.adjusted, n))
    BY <1>2 DEF Answers
  <2>2. Wps(LowerBound.adjusted, n).need = 0
    BY DEF Wps
  <2> QED BY <1>2, <2>1, <2>2 DEF Work, Proposal, Needed, NoWps
<1> QED BY <1>1, <1>2

\* A call changes nothing in what the next one says: the lower bound counts the
\* first time as what a plugin asks for, and ever after as what is known.
LEMMA WorkStands ==
  ASSUME Inv, NEW a \in Answers, Leave(a), UNCHANGED <<settings, rounds>>
  PROVE  Work' = Work
<1>1. CASE count = 0 /\ (limit = 0 \/ init # 0)
  BY <1>1 DEF Work, settings, rounds
<1>2. CASE ~(count = 0 /\ (limit = 0 \/ init # 0))
  <2>1. adjusted' = LowerBound.adjusted /\ lowerDone' = LowerBound.done
    BY <1>2 DEF Answers, Leave
  <2>2. /\ UNCHANGED <<init, limit, wps, count, sum, last, short, demand>>
    BY DEF settings, rounds
  <2>3. /\ FromReadings.need' = FromReadings.need
        /\ FromUnitReadings.need' = FromUnitReadings.need
        /\ ForComparison.need' = ForComparison.need
        /\ SoftLimit' = SoftLimit
    BY <2>2 DEF FromReadings, FromUnitReadings, ForComparison, SoftLimit, Idle
  <2> DEFINE base == IF count = 0 THEN 1 ELSE IF limit = 0 THEN 0 ELSE Max({adjusted, 0})
             need0 == {base, LowerBound.need, FromReadings.need, FromUnitReadings.need, 0, ForComparison.need}
  <2>4. need0' = need0
    <3>1. CASE lowerDone \/ limit = 0 \/ count = 0 \/ short
      <4>1. LowerBound' = LowerBound /\ adjusted' = adjusted
        BY <2>1, <2>2, <3>1 DEF LowerBound, Inv, Types
      <4> QED BY <2>2, <2>3, <4>1
    <3>2. CASE ~(lowerDone \/ limit = 0 \/ count = 0 \/ short)
      <4>1. LowerBound = [need |-> last, more |-> FALSE, adjusted |-> last, done |-> TRUE]
        BY <3>2 DEF LowerBound
      <4>2. adjusted = -1 /\ adjusted' = last /\ lowerDone' /\ last \in Nat /\ limit' = limit /\ count' = count
        BY <2>1, <2>2, <3>2, <4>1 DEF Inv, Types, Bound
      <4>3. LowerBound'.need = 0
        BY <4>2 DEF LowerBound
      <4>4. base = 0 /\ base' = last
        BY <3>2, <4>2, MaxOfTwo
      <4> HIDE DEF base
      <4> QED BY <2>3, <4>1, <4>3, <4>4
    <3> QED BY <3>1, <3>2
  <2>5. Work = Smaller(Smaller(Max(need0), limit), SoftLimit)
    BY <1>2 DEF Work, Proposal, Needed, NoWps
  <2>6. Work' = Smaller(Smaller(Max(need0'), limit'), SoftLimit')
    BY <1>2, <2>2 DEF Work, Proposal, Needed, NoWps
  <2> HIDE DEF need0
  <2> QED BY <2>2, <2>3, <2>4, <2>5, <2>6
<1> QED BY <1>1, <1>2

\* A promise is the work of the next round, whether it was begun or not.
Promised == promised # -1 => promised = IF phase = "ready" THEN Work ELSE amount

(* pilot_next_round_work_amount, which writes into the workload it says it *)
(* does not change, foretells what the next round does: provided the WPS   *)
(* analysis, whose slices are doubled by the question, is off.             *)
THEOREM PredictionsHold ==
  ASSUME Ordered, WpsModes \subseteq {"off"} PROVE Spec => []QueryPredicts
<1>1. Init => Promised
  BY DEF Init, Promised
<1>2. ASSUME Inv, Promised, [Next]_vars PROVE Promised'
  <2>1. wps = "off"
    BY <1>2 DEF Inv, Types
  <2>2. CASE Query
    <3>1. PICK a \in Answers : Leave(a) /\ promised' = IF a.more THEN a.amount ELSE -1
      BY <2>2 DEF Query
    <3>2. UNCHANGED <<settings, rounds>> /\ phase' = "ready"
      BY <2>2 DEF Query
    <3>3. a.amount = Work /\ Work' = Work
      BY <1>2, <2>1, <3>1, <3>2, WorkIsAnswered, WorkStands
    <3> QED BY <3>1, <3>2, <3>3 DEF Promised
  <2>3. CASE Decide
    <3>1. PICK a \in Answers : amount' = a.amount
      BY <2>3 DEF Decide
    <3>2. promised' = promised /\ phase = "ready" /\ phase' # "ready"
      BY <2>3 DEF Decide
    <3>3. a.amount = Work
      BY <2>1, <3>1, WorkIsAnswered
    <3> QED BY <1>2, <3>1, <3>2, <3>3 DEF Promised
  <2>4. CASE FinishRound
    BY <2>4 DEF FinishRound, Promised
  <2>5. CASE UNCHANGED vars
    <3>1. UNCHANGED <<init, limit, wps, adjusted, lowerDone, slices, asked, trap, count, sum,
                      last, short, demand, phase, amount, promised>>
      BY <2>5 DEF vars, settings, analysis, rounds
    <3>2. Work' = Work
      BY <3>1 DEF Work, Proposal, Needed, NoWps, LowerBound, FromReadings, FromUnitReadings, ForComparison, SoftLimit, Idle
    <3> QED BY <1>2, <3>1, <3>2 DEF Promised
  <2> QED BY <1>2, <2>2, <2>3, <2>4, <2>5 DEF Next
<1>3. Promised => QueryPredicts
  BY DEF Promised, QueryPredicts, Running
<1> QED BY <1>1, <1>2, <1>3, InvAlways, PTL DEF Spec
=============================================================================
