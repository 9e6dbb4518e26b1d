---------------------------- MODULE ScoringProofs ----------------------------
(***************************************************************************)
(* The scoring of a drill answer for every set of guesses, every time and   *)
(* every rationale, and its bands for every override a learner may store.   *)
(***************************************************************************)
EXTENDS MCScoring, ScoringLemmas

\* What the reachable answers are.
TypeOK == seconds \in Nat /\ verdict \in Verdicts /\ bands \in Bands

LEMMA Typed == Spec => []TypeOK
  <1> USE DEF TypeOK
  <1>1. Init => TypeOK
    BY DEF Init, Verdicts, Bands
  <1>2. TypeOK /\ [Next]_vars => TypeOK'
    BY DEF Next, NameAnother, TakeLonger, ArgueOtherwise, KeepBands, vars
  <1>3. QED
    BY <1>1, <1>2, PTL DEF Spec

\* A wrong guess never rates above Hard under the default bands.
THEOREM WrongTopsOutAtHard == Spec => []WrongAtMostHard
  <1>1. TypeOK => WrongAtMostHard
    <2> SUFFICES ASSUME TypeOK, bands = DefaultBands, Wrong PROVE Rating <= Hard
      BY DEF WrongAtMostHard
    <2>1. bands = DefaultBands
      OBVIOUS
    <2> DEFINE s == SpeedScore(seconds)
               r == RationaleScore(verdict)
    <2>2. s \in 0..One /\ r \in 0..One
      BY SpeedRange, RationaleRange DEF TypeOK, Verdicts
    <2>3. Composite = CompositeScore(0, s, r)
      BY DEF Composite, GradeAttempt, Wrong
    <2> HIDE DEF s, r
    <2>4. 0 \in 0..One
      BY DEF One
    <2>5. /\ Composite = RoundDiv(5 * 0 + 2 * s + 3 * r, 10)
          /\ 5 * 0 + 2 * s + 3 * r \in Nat
          /\ 5 * 0 + 2 * s + 3 * r <= 5 * 0 + 50000
      BY <2>2, <2>3, <2>4, CompositeValue
    <2> DEFINE n == 5 * 0 + 2 * s + 3 * r
    <2> HIDE DEF n
    <2>6. Composite \in Int /\ 0 <= Composite /\ Composite <= 5000
      <3>1. n \in Nat /\ 10 * 0 <= n /\ n <= 10 * 5000
        BY <2>5 DEF n
      <3>2. Composite = RoundDiv(n, 10)
        BY <2>5 DEF n
      <3>3. QED
        BY <3>1, <3>2, RoundDivBounds
    <2>7. Clamp01(Composite) = Composite
      BY <2>6, ClampSame DEF One
    <2>8. QED
      BY <2>1, <2>6, <2>7
      DEF Rating, ToFsrsRating, DefaultBands, Again, Hard, Good, Easy
  <1>2. QED
    BY Typed, <1>1, PTL

\* What a correct guess is rated, whatever its speed and its rationale.
LEMMA CorrectRatings == TypeOK => CorrectNeverLapses /\ ReasonedIsEasy
  <1> SUFFICES ASSUME TypeOK, bands = DefaultBands, Correct
               PROVE  Rating >= Hard /\ (verdict = "yes" => Rating = Easy)
    BY DEF CorrectNeverLapses, ReasonedIsEasy
  <1>1. bands = DefaultBands
    OBVIOUS
  <1> DEFINE s == SpeedScore(seconds)
             r == RationaleScore(verdict)
  <1>2. s \in 0..One /\ r \in 0..One
    BY SpeedRange, RationaleRange DEF TypeOK, Verdicts
  <1>3. Composite = CompositeScore(One, s, r)
    BY DEF Composite, GradeAttempt, Correct, CorrectnessScore
  <1>4. verdict = "yes" => r = One
    BY DEF RationaleScore
  <1> HIDE DEF s, r
  <1>5. One \in 0..One
    BY DEF One
  <1>6. /\ Composite = RoundDiv(5 * One + 2 * s + 3 * r, 10)
        /\ 5 * One + 2 * s + 3 * r \in Nat
        /\ 5 * One <= 5 * One + 2 * s + 3 * r
        /\ 5 * One + 3 * r <= 5 * One + 2 * s + 3 * r
        /\ 5 * One + 2 * s + 3 * r <= 5 * One + 50000
    BY <1>2, <1>3, <1>5, CompositeValue
  <1> DEFINE n == 5 * One + 2 * s + 3 * r
  <1> HIDE DEF n
  <1>7. Composite \in Int /\ 5000 <= Composite /\ Composite <= One
    <2>1. n \in Nat /\ 10 * 5000 <= n /\ n <= 10 * One
      BY <1>6 DEF n, One
    <2>2. Composite = RoundDiv(n, 10) /\ One \in Nat
      BY <1>6 DEF n, One
    <2>3. QED
      BY <2>1, <2>2, RoundDivBounds
  <1>8. verdict = "yes" => 8000 <= Composite
    <2> SUFFICES ASSUME verdict = "yes" PROVE 8000 <= Composite
      OBVIOUS
    <2>1. n \in Nat /\ 10 * 8000 <= n /\ n <= 10 * One
      BY <1>4, <1>6 DEF n, One
    <2>2. Composite = RoundDiv(n, 10) /\ One \in Nat
      BY <1>6 DEF n, One
    <2>3. QED
      BY <2>1, <2>2, RoundDivBounds
  <1>9. Clamp01(Composite) = Composite
    BY <1>7, ClampSame
  <1>10. Rating >= Hard
    BY <1>1, <1>7, <1>9 DEF Rating, ToFsrsRating, DefaultBands, Again, Hard, Good, Easy
  <1>11. verdict = "yes" => Rating = Easy
    BY <1>1, <1>7, <1>8, <1>9 DEF Rating, ToFsrsRating, DefaultBands, Easy
  <1>12. QED
    BY <1>10, <1>11

\* A correct guess is rated Hard at least: it never lapses the card.
THEOREM CorrectIsRewarded == Spec => []CorrectNeverLapses
  BY Typed, CorrectRatings, PTL

\* With a rationale that cites a tell it is Easy: 0.5 and 0.3 together reach the
\* inclusive bound of the band.
THEOREM ReasonedAnswersAreEasy == Spec => []ReasonedIsEasy
  BY Typed, CorrectRatings, PTL

\* Whatever was named, argued and however long it took, the axes and the
\* composite stay between 0 and 1, and every band a learner keeps is in order.
THEOREM ScoresStayInRange == Spec => []ScoresInRange
  <1>1. TypeOK => ScoresInRange
    <2> SUFFICES ASSUME TypeOK PROVE ScoresInRange
      OBVIOUS
    <2> DEFINE c == CorrectnessScore(guessed, accepted)
               s == SpeedScore(seconds)
               r == RationaleScore(verdict)
    <2>1. s \in 0..One /\ r \in 0..One
      BY SpeedRange, RationaleRange DEF TypeOK, Verdicts
    <2>2. c \in 0..One
      <3>1. c \in {0, 5000, One}
        BY CorrectnessRange
      <3>2. QED
        BY <3>1 DEF One
    <2>3. Composite = CompositeScore(c, s, r)
      BY DEF Composite, GradeAttempt
    <2> HIDE DEF c, r
    <2>4. Composite \in 0..One
      BY <2>1, <2>2, <2>3, CompositeRange
    <2>5. ValidBands(bands)
      <3>1. CASE bands = DefaultBands
        BY <3>1 DEF DefaultBands, ValidBands, One
      <3>2. CASE bands = [easy |-> 6000, good |-> 4000, hard |-> 2000]
        BY <3>2 DEF ValidBands, One
      <3>3. CASE bands = [easy |-> One, good |-> 1, hard |-> 0]
        BY <3>3 DEF ValidBands, One
      <3>4. QED
        BY <3>1, <3>2, <3>3 DEF TypeOK, Bands
    <2>6. QED
      BY <2>1, <2>4, <2>5 DEF ScoresInRange
  <1>2. QED
    BY Typed, <1>1, PTL

\* Naming one more pattern never costs credit, for every taxonomy.
THEOREM ExtraGuessesAreFree == Spec => ExtraGuessNeverCosts
  <1>1. [Next]_vars => [guessed \subseteq guessed' =>
          CorrectnessScore(guessed, accepted) <= CorrectnessScore(guessed', accepted)]_vars
    <2> SUFFICES ASSUME guessed \subseteq guessed'
                 PROVE  CorrectnessScore(guessed, accepted) <= CorrectnessScore(guessed', accepted)
      OBVIOUS
    <2>1. CASE guessed' \cap accepted # {}
      BY <2>1 DEF CorrectnessScore, One
    <2>2. CASE guessed' \cap accepted = {}
      BY <2>2 DEF CorrectnessScore, One
    <2>3. QED
      BY <2>1, <2>2
  <1>2. QED
    BY <1>1, PTL DEF Spec, ExtraGuessNeverCosts

=============================================================================
