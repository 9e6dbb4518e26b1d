---------------------------- MODULE ScoringLemmas ----------------------------
(***************************************************************************)
(* Facts about the scoring operators, for all their arguments.              *)
(***************************************************************************)
EXTENDS Scoring, TLAPS

\* Rounding a non-negative quotient.
LEMMA RoundDivBounds ==
    ASSUME NEW lo \in Nat, NEW hi \in Nat, NEW n \in Nat, 10 * lo <= n, n <= 10 * hi
    PROVE  /\ RoundDiv(n, 10) \in Int
           /\ lo <= RoundDiv(n, 10)
           /\ RoundDiv(n, 10) <= hi
  BY DEF RoundDiv

LEMMA ClampRange ==
    ASSUME NEW x \in Int
    PROVE  Clamp01(x) \in 0..One
  <1>1. CASE x < 0
    BY <1>1 DEF Clamp01, One
  <1>2. CASE x > One
    BY <1>2 DEF Clamp01, One
  <1>3. CASE x >= 0 /\ x <= One
    BY <1>3 DEF Clamp01, One
  <1>4. x < 0 \/ x > One \/ (x >= 0 /\ x <= One)
    BY DEF One
  <1>5. QED
    BY <1>1, <1>2, <1>3, <1>4

LEMMA ClampSame ==
    ASSUME NEW x \in Int, 0 <= x, x <= One
    PROVE  Clamp01(x) = x
  BY DEF Clamp01, One

LEMMA SpeedRange == \A t \in Nat : SpeedScore(t) \in 0..One
  <1> SUFFICES ASSUME NEW t \in Nat PROVE SpeedScore(t) \in 0..One
    OBVIOUS
  <1> DEFINE x == RoundDiv((Floor - t) * One, Floor - Grace)
  <1>1. x \in Int
    BY DEF RoundDiv, Floor, Grace, One
  <1> HIDE DEF x
  <1>2. Clamp01(x) \in 0..One
    BY <1>1, ClampRange
  <1>3. One \in 0..One
    BY DEF One
  <1>4. SpeedScore(t) = One \/ SpeedScore(t) = Clamp01(x)
    BY DEF SpeedScore, x
  <1>5. QED
    BY <1>2, <1>3, <1>4

LEMMA RationaleRange == \A v \in {"yes", "partial", "no"} : RationaleScore(v) \in 0..One
  BY DEF RationaleScore, One

LEMMA CorrectnessRange == \A g, a : CorrectnessScore(g, a) \in {0, 5000, One}
  BY DEF CorrectnessScore

\* The composite is the rounded weighted sum of axes that are in range.
LEMMA CompositeValue ==
    ASSUME NEW c \in 0..One, NEW s \in 0..One, NEW r \in 0..One
    PROVE  /\ CompositeScore(c, s, r) = RoundDiv(5 * c + 2 * s + 3 * r, 10)
           /\ 5 * c + 2 * s + 3 * r \in Nat
           /\ 5 * c <= 5 * c + 2 * s + 3 * r
           /\ 5 * c + 3 * r <= 5 * c + 2 * s + 3 * r
           /\ 5 * c + 2 * s + 3 * r <= 5 * c + 50000
  <1>1. /\ c \in Int /\ s \in Int /\ r \in Int
        /\ 0 <= c /\ c <= 10000 /\ 0 <= s /\ s <= 10000 /\ 0 <= r /\ r <= 10000
    BY SMTT(30) DEF One
  <1>2. Clamp01(c) = c /\ Clamp01(s) = s /\ Clamp01(r) = r
    BY <1>1, ClampSame DEF One
  <1>3. CompositeScore(c, s, r) = RoundDiv(5 * c + 2 * s + 3 * r, 10)
    BY <1>2 DEF CompositeScore
  <1>4. /\ 5 * c + 2 * s + 3 * r \in Nat
        /\ 5 * c <= 5 * c + 2 * s + 3 * r
        /\ 5 * c + 3 * r <= 5 * c + 2 * s + 3 * r
        /\ 5 * c + 2 * s + 3 * r <= 5 * c + 50000
    BY <1>1
  <1>5. QED
    BY <1>3, <1>4

\* A better composite never earns a worse rating, whatever bands are stored.
THEOREM RatingIsMonotone ==
    ASSUME NEW b, ValidBands(b), NEW x \in Int, NEW y \in Int, x <= y
    PROVE  ToFsrsRating(x, b) <= ToFsrsRating(y, b)
  <1> DEFINE u == Clamp01(x)
             v == Clamp01(y)
  <1>1. u \in Int /\ v \in Int /\ u <= v
    BY DEF Clamp01, One
  <1>2. b.easy \in Int /\ b.good \in Int /\ b.hard \in Int
    BY DEF ValidBands
  <1> HIDE DEF u, v
  <1>3. CASE v >= b.easy
    BY <1>1, <1>2, <1>3 DEF ToFsrsRating, u, v, Again, Hard, Good, Easy
  <1>4. CASE v < b.easy /\ v >= b.good
    BY <1>1, <1>2, <1>4 DEF ToFsrsRating, u, v, Again, Hard, Good, Easy
  <1>5. CASE v < b.easy /\ v < b.good
    BY <1>1, <1>2, <1>5 DEF ToFsrsRating, u, v, Again, Hard, Good, Easy
  <1>6. QED
    BY <1>1, <1>2, <1>3, <1>4, <1>5

\* A rating is one of the four grades.
LEMMA RatingRange == \A x, b : ToFsrsRating(x, b) \in Again..Easy
  BY DEF ToFsrsRating, Again, Hard, Good, Easy

LEMMA InUnit ==
    ASSUME NEW x \in Int, 0 <= x, x <= 10000
    PROVE  x \in 0..One
  BY SMTT(30) DEF One

\* A composite of scores in range is in range.
LEMMA CompositeRange ==
    ASSUME NEW c \in 0..One, NEW s \in 0..One, NEW r \in 0..One
    PROVE  CompositeScore(c, s, r) \in 0..One
  <1> DEFINE n == 5 * c + 2 * s + 3 * r
  <1>1. CompositeScore(c, s, r) = RoundDiv(n, 10) /\ n \in Nat
    BY CompositeValue
  <1>2. n <= 10 * 10000
    <2>1. /\ c \in Int /\ s \in Int /\ r \in Int
          /\ c <= 10000 /\ s <= 10000 /\ r <= 10000
      BY DEF One
    <2>2. QED
      BY <2>1
  <1> HIDE DEF n
  <1>3. RoundDiv(n, 10) \in Int /\ 0 <= RoundDiv(n, 10) /\ RoundDiv(n, 10) <= 10000
    BY <1>1, <1>2, RoundDivBounds
  <1>4. RoundDiv(n, 10) \in 0..One
    BY <1>3, InUnit
  <1>5. QED
    BY <1>1, <1>4

=============================================================================
