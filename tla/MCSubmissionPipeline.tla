------------------------ MODULE MCSubmissionPipeline ------------------------
(* Instances of the submission pipeline for TLC. *)
EXTENDS SubmissionPipeline, TLC

CONSTANTS s1, s2, p1, w1, w2, q1, q2, solid, weak

\* One attempt at a problem that came from a link.
OneSubmission == {s1}
OneProblemOf == [s \in {s1} |-> p1]

\* Two attempts at the same problem: the second may find its statement resolved.
TwoSubmissions == {s1, s2}
TwoProblemOf == [s \in {s1, s2} |-> p1]

AllFaults == {"api-crash", "worker-crash", "lock-lapse", "db-error",
              "enqueue-timeout", "enqueue-error"}
RedeliveredFaults == {"worker-crash", "enqueue-timeout", "enqueue-error"}
LeasedFaults == AllFaults \ {"lock-lapse"}
RefusedFaults == {"enqueue-error"}
TimeoutFaults == {"enqueue-timeout"}

\* Slots, requests, gradations and attempts at one problem are interchangeable.
Symmetry ==
    Permutations({w1, w2}) \cup Permutations({q1, q2}) \cup Permutations({s1, s2})
        \cup Permutations({solid, weak})
=============================================================================
