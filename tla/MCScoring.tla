------------------------------ MODULE MCScoring ------------------------------
(***************************************************************************)
(* Answers to one drill, changed one input at a time: the learner names     *)
(* another pattern, takes longer, argues otherwise, or keeps other bands.   *)
(***************************************************************************)
EXTENDS Scoring

CONSTANTS
    Patterns,       \* slugs a learner may name
    MaxGuesses,     \* bound: guesses in one answer (5 in the request schema)
    MaxSeconds      \* bound: beyond the floor nothing changes

VARIABLES guessed, accepted, seconds, verdict, bands
vars == <<guessed, accepted, seconds, verdict, bands>>

\* Five slugs of the taxonomy and their curated neighbours.
SampleFamilies == {<<"sliding-window", "two-pointers">>,
                   <<"sliding-window", "monotonic-stack">>,
                   <<"greedy", "heap">>}

\* The defaults, a lenient learner's bands, and bands that touch the limits.
Bands == {DefaultBands, [easy |-> 6000, good |-> 4000, hard |-> 2000],
          [easy |-> One, good |-> 1, hard |-> 0]}

Verdicts == {"yes", "partial", "no"}

Init == /\ guessed \in {{p} : p \in Patterns}
        /\ accepted \in {S \in SUBSET Patterns : Cardinality(S) \in 1..2}
        /\ seconds = 0
        /\ verdict = "no"
        /\ bands = DefaultBands

NameAnother == /\ Cardinality(guessed) < MaxGuesses
               /\ \E p \in Patterns \ guessed : guessed' = guessed \cup {p}
               /\ UNCHANGED <<accepted, seconds, verdict, bands>>

TakeLonger == /\ seconds < MaxSeconds
              /\ seconds' = seconds + 15
              /\ UNCHANGED <<guessed, accepted, verdict, bands>>

ArgueOtherwise == /\ verdict' \in Verdicts
                  /\ UNCHANGED <<guessed, accepted, seconds, bands>>

KeepBands == /\ bands' \in Bands
             /\ UNCHANGED <<guessed, accepted, seconds, verdict>>

Next == NameAnother \/ TakeLonger \/ ArgueOtherwise \/ KeepBands

Spec == Init /\ [][Next]_vars

Composite == GradeAttempt(guessed, accepted, seconds, verdict)
Rating == ToFsrsRating(Composite, bands)
Correct == guessed \cap accepted # {}
Wrong == CorrectnessScore(guessed, accepted) = 0

\* Every axis and the composite stay between 0 and 1, at any time taken.
ScoresInRange == /\ SpeedScore(seconds) \in 0..One
                 /\ Composite \in 0..One
                 /\ ValidBands(bands)

\* A wrong guess tops out at Hard under the default bands, however fast and
\* well argued it was.
WrongAtMostHard == bands = DefaultBands /\ Wrong => Rating <= Hard

\* A correct answer never lapses the card, however slow and unexplained.
CorrectNeverLapses == bands = DefaultBands /\ Correct => Rating >= Hard

\* A correct and well argued answer is Easy at any speed: the two axes together
\* reach the inclusive bound of the band.
ReasonedIsEasy == bands = DefaultBands /\ Correct /\ verdict = "yes" => Rating = Easy

\* Extra wrong guesses alongside a correct one do not reduce the credit.
ExtraGuessNeverCosts ==
    [][guessed \subseteq guessed' =>
          CorrectnessScore(guessed, accepted) <= CorrectnessScore(guessed', accepted)]_vars

\* "A correct guess with no real reasoning lands there too", at Hard.
UnreasonedIsHard == bands = DefaultBands /\ Correct /\ verdict = "no" => Rating = Hard

=============================================================================
