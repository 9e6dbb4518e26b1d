------------------------ MODULE SubmissionLifecycle ------------------------
(***************************************************************************)
(* What a learner is promised about an attempt: it is graded or given up   *)
(* exactly once, then committed at most once; the final gradation never    *)
(* changes afterwards; and each commit counts one review of the problem.    *)
(* The promise is assembled from the status enum, from the conflict answers *)
(* of the commit route and from the comments of the worker.                 *)
(***************************************************************************)
EXTENDS Naturals

CONSTANTS Submissions, Problems, ProblemOf, Gradations, None

VARIABLES
    phase,      \* absent, open, graded, failed or committed
    verdict,    \* what the model answered, None until it did
    final,      \* what the learner committed, None until then
    reps        \* reviews of each problem

lifecycleVars == <<phase, verdict, final, reps>>

Init ==
    /\ phase = [s \in Submissions |-> "absent"]
    /\ verdict = [s \in Submissions |-> None]
    /\ final = [s \in Submissions |-> None]
    /\ reps = [p \in Problems |-> 0]

Move(s, from, to) ==
    /\ phase[s] \in from
    /\ phase' = [phase EXCEPT ![s] = to]

Submit(s) == Move(s, {"absent"}, "open") /\ UNCHANGED <<verdict, final, reps>>

Grade(s) ==
    /\ Move(s, {"open"}, "graded")
    /\ \E g \in Gradations : verdict' = [verdict EXCEPT ![s] = g]
    /\ UNCHANGED <<final, reps>>

GiveUp(s) == Move(s, {"open"}, "failed") /\ UNCHANGED <<verdict, final, reps>>

Commit(s) ==
    /\ Move(s, {"graded", "failed"}, "committed")
    /\ \E g \in Gradations : final' = [final EXCEPT ![s] = g]
    /\ reps' = [reps EXCEPT ![ProblemOf[s]] = @ + 1]
    /\ UNCHANGED verdict

Next == \E s \in Submissions : Submit(s) \/ Grade(s) \/ GiveUp(s) \/ Commit(s)

Spec == /\ Init
        /\ [][Next]_lifecycleVars
        /\ \A s \in Submissions : WF_lifecycleVars(Grade(s) \/ GiveUp(s))

=============================================================================
