------------------------------- MODULE MCDrill -------------------------------
(* Instances of the drill for model checking. *)
EXTENDS Drill, TLC

CONSTANTS a, b, c, d1, d2, r1, r2

\* Two decks; a has its tell, b gains one, c is a personal note.
MCDeckOf == (a :> d1 @@ b :> d2 @@ c :> d2)

\* A slow guess at a neighbouring pattern: Again, Hard or Good, as it is argued,
\* and Hard or Good under the other bands.  Commits have every rating.
MCAnswers == {[correctness |-> 5000, speed |-> 0]}

MCOverrides == {[easy |-> 6000, good |-> 4000, hard |-> 2000]}

\* The interactions of interest, two or three kinds at a time.
MCMixes == {{"next", "drill"}, {"drill", "commit", "settings"}, {"badge", "drill"}}

Slots == Permutations(Requests)

=============================================================================
