------------------------------- MODULE Scoring -------------------------------
(***************************************************************************)
(* How a drill answer and a gradation become an FSRS rating.  Scores are    *)
(* integers in units of 1e-4, the precision round4 keeps; the code computes *)
(* them in floating point and rounds to the same unit.                      *)
(***************************************************************************)
EXTENDS Integers, FiniteSets

CONSTANT CloseFamilies      \* pairs of slugs curated as near neighbours

One == 10000

\* FSRS grades in their order.
Again == 1
Hard == 2
Good == 3
Easy == 4

DefaultBands == [easy |-> 8000, good |-> 5500, hard |-> 3000]

\* What a learner may store instead: PUT /settings/scoring validates the order.
ValidBands(b) == /\ b.hard \in 0..One /\ b.good \in 0..One /\ b.easy \in 0..One
                 /\ b.hard < b.good /\ b.good < b.easy

Clamp01(x) == IF x < 0 THEN 0 ELSE IF x > One THEN One ELSE x

\* Math.round of n / d.
RoundDiv(n, d) == (2 * n + d) \div (2 * d)

-----------------------------------------------------------------------------
(* The three axes. *)

AreCloseFamily(a, b) ==
    a # b /\ (<<a, b>> \in CloseFamilies \/ <<b, a>> \in CloseFamilies)

\* Mutant: the best match is the last one compared, not the best of all.
CorrectnessScoreWorstNeighbour(guessed, accepted) ==
    IF \E g \in guessed, a \in accepted : AreCloseFamily(g, a) THEN 5000
    ELSE IF guessed \cap accepted # {} THEN One ELSE 0

\* Mutant: a match is averaged over the guesses instead of the best one winning.
CorrectnessScoreAveraged(guessed, accepted) ==
    IF guessed \cap accepted # {} THEN One \div Cardinality(guessed)
    ELSE IF \E g \in guessed, a \in accepted : AreCloseFamily(g, a) THEN 5000 ELSE 0

\* The best match of any guess with any accepted pattern.
CorrectnessScore(guessed, accepted) ==
    IF guessed \cap accepted # {} THEN One
    ELSE IF \E g \in guessed, a \in accepted : AreCloseFamily(g, a) THEN 5000 ELSE 0

Grace == 45
Floor == 300

\* Mutant: the decay is not clamped at the floor.
SpeedScoreUnclamped(t) ==
    IF t <= Grace THEN One ELSE RoundDiv((Floor - t) * One, Floor - Grace)

\* Full credit within the grace window, then linear to zero at the floor.
SpeedScore(t) ==
    IF t <= Grace THEN One
    ELSE Clamp01(RoundDiv((Floor - t) * One, Floor - Grace))

RationaleScore(verdict) ==
    CASE verdict = "yes" -> One
      [] verdict = "partial" -> 5000
      [] verdict = "no" -> 0

-----------------------------------------------------------------------------
(* The composite and the rating. *)

\* Mutant: the weights of correctness and rationale are swapped.
CompositeScoreSwapped(c, s, r) ==
    RoundDiv(3 * Clamp01(c) + 2 * Clamp01(s) + 5 * Clamp01(r), 10)

\* Weights 0.5, 0.2 and 0.3, whose sum is 1.
CompositeScore(c, s, r) ==
    RoundDiv(5 * Clamp01(c) + 2 * Clamp01(s) + 3 * Clamp01(r), 10)

GradeAttempt(guessed, accepted, t, verdict) ==
    CompositeScore(CorrectnessScore(guessed, accepted), SpeedScore(t), RationaleScore(verdict))

\* Mutant: the lower bound of a band is exclusive.
ToFsrsRatingExclusive(composite, bands) ==
    LET score == Clamp01(composite)
    IN IF score > bands.easy THEN Easy
       ELSE IF score > bands.good THEN Good
       ELSE IF score > bands.hard THEN Hard ELSE Again

\* Bands are inclusive at their lower bound and walked highest first.
ToFsrsRating(composite, bands) ==
    LET score == Clamp01(composite)
    IN IF score >= bands.easy THEN Easy
       ELSE IF score >= bands.good THEN Good
       ELSE IF score >= bands.hard THEN Hard ELSE Again

-----------------------------------------------------------------------------
(* The five tiers of the submission flow. *)

Tiers == {"try-again", "needs-work", "not-bad", "good-job", "excellent"}

GradationScore(tier) ==
    CASE tier = "try-again" -> 0
      [] tier = "needs-work" -> 2000
      [] tier = "not-bad" -> 4500
      [] tier = "good-job" -> 7000
      [] tier = "excellent" -> 9500

=============================================================================
