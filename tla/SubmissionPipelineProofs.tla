---------------------- MODULE SubmissionPipelineProofs ----------------------
(***************************************************************************)
(* The safety of the submission pipeline for every set of submissions,     *)
(* slots and requests, every number of attempts and every kind and number   *)
(* of faults: CommitHasGradation, DoneIsGraded, FinalIsReviewed and          *)
(* FailsOnlyWhenGivenUp from one inductive invariant, and, with a second one, *)
(* RegradedOnlyWhenRedelivered.                                             *)
(***************************************************************************)
EXTENDS SubmissionPipeline, TLAPS

\* A busy slot works on a submission, on its last attempt knows it, and marks
\* the row as failed on no other.
SlotInv ==
    \A w \in Slots : pc[w] # "idle" =>
        /\ sub[w] \in Submissions
        /\ pc[w] = "marking" => last[w]
        /\ last[w] => made[sub[w]] + 1 >= MaxAttempts

\* Only a slot that processes the submission holds the lock of its active job.
LockInv ==
    \A s \in Submissions : lock[s] # None =>
        /\ job[s] = "active"
        /\ pc[lock[s]] # "idle"
        /\ sub[lock[s]] = s

\* A job that will run again has an attempt left.
AttemptInv ==
    \A s \in Submissions : job[s] \notin {"completed", "failed"} => made[s] < MaxAttempts

\* There is no job before the submission is created.
FreshInv == \A s \in Submissions : api[s] = "idle" => job[s] = "none"

\* A verdict about to be stored is a gradation, and once stored it stays.
VerdictInv ==
    \A w \in Slots :
        /\ pc[w] = "storing" => verdict[w] # None
        /\ pc[w] = "finishing" => aiGrade[sub[w]] # None

\* What a client can see as graded is graded.
GradedInv ==
    \A s \in Submissions :
        status[s] = "awaiting-review" \/ evalStage[s] = "done" => aiGrade[s] # None

\* A commit in flight has its submission and its gradation.
RequestInv ==
    /\ \A q \in Requests : rpc[q] \in {"readCard", "write"} =>
          rsub[q] \in Submissions /\ chosen[q] # None
    /\ \A q \in Requests : rpc[q] # "bad"

Inv == /\ TypeOK /\ SlotInv /\ LockInv /\ AttemptInv /\ FreshInv
       /\ VerdictInv /\ GradedInv /\ RequestInv /\ FinalIsReviewed

\* Every step keeps every variable in its type.
LEMMA TypeStep == ASSUME Inv, [Next]_vars PROVE TypeOK'
  <1> USE PipelineAssumption DEF Inv, TypeOK, vars, rowVars, stageVars, jobVars, slotVars, reqVars,
        Status, StageStatus, JobState, ApiState, SlotState, RequestState,
        SlotInv, AttemptInv, LockInv, RequestInv
  <1>1. ASSUME NEW s \in Submissions, CreateSubmission(s)
        PROVE  TypeOK'
    BY <1>1 DEF CreateSubmission, EnqueueAfterCommit
  <1>2. ASSUME NEW s \in Submissions, Flush(s)
        PROVE  TypeOK'
    BY <1>2 DEF Flush
  <1>3. ASSUME NEW s \in Submissions, EnqueueAcked(s)
        PROVE  TypeOK'
    BY <1>3 DEF EnqueueAcked
  <1>4. ASSUME NEW s \in Submissions, EnqueueTimeout(s)
        PROVE  TypeOK'
    BY <1>4 DEF EnqueueTimeout, Fault
  <1>5. ASSUME NEW s \in Submissions, EnqueueRejected(s)
        PROVE  TypeOK'
    BY <1>5 DEF EnqueueRejected, Fault
  <1>6. ASSUME NEW s \in Submissions, MarkUnqueued(s)
        PROVE  TypeOK'
    BY <1>6 DEF MarkUnqueued
  <1>7. ASSUME NEW s \in Submissions, MarkUnqueuedFails(s)
        PROVE  TypeOK'
    BY <1>7 DEF MarkUnqueuedFails, Fault
  <1>8. ASSUME ApiCrash
        PROVE  TypeOK'
    BY <1>8 DEF ApiCrash, Fault
  <1>9. ASSUME NEW w \in Slots, NEW s \in Submissions, Take(w, s)
        PROVE  TypeOK'
    BY <1>9 DEF Take, IsFinalAttempt
  <1>10. ASSUME NEW s \in Submissions, Promote(s)
        PROVE  TypeOK'
    BY <1>10 DEF Promote
  <1>11. ASSUME NEW s \in Submissions, LockLapse(s)
        PROVE  TypeOK'
    BY <1>11 DEF LockLapse, Fault
  <1>12. ASSUME NEW s \in Submissions, Stalled(s)
        PROVE  TypeOK'
    BY <1>12 DEF Stalled
  <1>13. ASSUME NEW w \in Slots, Complete(w)
        PROVE  TypeOK'
    BY <1>13 DEF Complete, Release
  <1>14. ASSUME NEW w \in Slots, Rethrow(w)
        PROVE  TypeOK'
    <2>1. sub[w] \in Submissions /\ job \in [Submissions -> JobState]
            /\ made \in [Submissions -> 0..MaxAttempts]
            /\ lock \in [Submissions -> Slots \cup {None}]
      BY <1>14 DEF Rethrow
    <2>2. /\ job' \in [Submissions -> JobState]
          /\ made' \in [Submissions -> 0..MaxAttempts]
          /\ lock' \in [Submissions -> Slots \cup {None}]
      <3>1. CASE lock[sub[w]] # w
        BY <1>14, <2>1, <3>1 DEF Rethrow
      <3>2. CASE lock[sub[w]] = w
        <4>1. made[sub[w]] \in 0..MaxAttempts /\ made[sub[w]] < MaxAttempts
          BY <2>1, <3>2
        <4>2. QED
          BY <1>14, <2>1, <3>2, <4>1, SMTT(30) DEF Rethrow, MayRetry
      <3>3. QED
        BY <3>1, <3>2
    <2>3. /\ pc' \in [Slots -> SlotState]
          /\ sub' \in [Slots -> Submissions \cup {None}]
          /\ last' \in [Slots -> BOOLEAN]
          /\ verdict' \in [Slots -> Gradations \cup {None}]
      BY <1>14 DEF Rethrow, Release
    <2>4. QED
      BY <1>14, <2>2, <2>3 DEF Rethrow
  <1>15. ASSUME WorkerCrash
        PROVE  TypeOK'
    BY <1>15 DEF WorkerCrash, Fault
  <1>16. ASSUME NEW w \in Slots, Load(w)
        PROVE  TypeOK'
    BY <1>16 DEF Load, Goto, Untouched, AfterLoad
  <1>17. ASSUME NEW w \in Slots, SetResolving(w)
        PROVE  TypeOK'
    BY <1>17 DEF SetResolving, Goto, Untouched
  <1>18. ASSUME NEW w \in Slots, StartResolve(w)
        PROVE  TypeOK'
    BY <1>18 DEF StartResolve, Goto, Untouched
  <1>19. ASSUME NEW w \in Slots, Resolve(w)
        PROVE  TypeOK'
    <2>1. statement' \in [Problems -> BOOLEAN]
      <3>1. statement \in [Problems -> BOOLEAN] OBVIOUS
      <3>2. CASE UNCHANGED statement
        BY <3>1, <3>2
      <3>3. CASE statement' = [statement EXCEPT ![ProblemOf[sub[w]]] = TRUE]
        BY <3>1, <3>3
      <3>4. QED
        BY <1>19, <3>2, <3>3 DEF Resolve
    <2>2. pc' \in [Slots -> SlotState]
      BY <1>19, SMTT(30) DEF Resolve, Goto
    <2>3. QED
      BY <1>19, <2>1, <2>2 DEF Resolve, Untouched
  <1>20. ASSUME NEW w \in Slots, FinishResolve(w)
        PROVE  TypeOK'
    BY <1>20 DEF FinishResolve, Goto, Untouched
  <1>21. ASSUME NEW w \in Slots, SetEvaluating(w)
        PROVE  TypeOK'
    BY <1>21 DEF SetEvaluating, Goto, Untouched
  <1>22. ASSUME NEW w \in Slots, StartEvaluate(w)
        PROVE  TypeOK'
    BY <1>22 DEF StartEvaluate, Goto, Untouched
  <1>23. ASSUME NEW w \in Slots, Judge(w)
        PROVE  TypeOK'
    BY <1>23 DEF Judge, Goto, Untouched
  <1>24. ASSUME NEW w \in Slots, StoreVerdict(w)
        PROVE  TypeOK'
    BY <1>24 DEF StoreVerdict, Goto, Untouched
  <1>25. ASSUME NEW w \in Slots, FinishEvaluate(w)
        PROVE  TypeOK'
    BY <1>25 DEF FinishEvaluate, Goto, Untouched
  <1>26. ASSUME NEW w \in Slots, FailAttempt(w)
        PROVE  TypeOK'
    BY <1>26 DEF FailAttempt, Goto, Untouched
  <1>27. ASSUME NEW w \in Slots, MarkFailed(w)
        PROVE  TypeOK'
    BY <1>27 DEF MarkFailed, Goto, Untouched
  <1>28. ASSUME NEW w \in Slots, DbError(w)
        PROVE  TypeOK'
    BY <1>28 DEF DbError, Goto, Untouched, AfterDbError, Fault
  <1>29. ASSUME NEW q \in Requests, NEW s \in Submissions,
                NEW g \in Gradations \cup {None}, CommitRead(q, s, g)
        PROVE  TypeOK'
    BY <1>29 DEF CommitRead, FinalGradation, Overridden, Refuses
  <1>30. ASSUME NEW q \in Requests, NEW s \in Submissions,
                NEW g \in Gradations \cup {None}, CommitRefused(q, s, g)
        PROVE  TypeOK'
    BY <1>30 DEF CommitRefused, FinalGradation, Refuses
  <1>31. ASSUME NEW q \in Requests, ReadCard(q)
        PROVE  TypeOK'
    BY <1>31 DEF ReadCard
  <1>32. ASSUME NEW q \in Requests, WriteCommit(q)
        PROVE  TypeOK'
    BY <1>32 DEF WriteCommit, NextCard
  <1>33. CASE UNCHANGED vars
    BY <1>33
  <1>34. QED
    BY <1>1, <1>2, <1>3, <1>4, <1>5, <1>6, <1>7, <1>8, <1>9, <1>10, <1>11, <1>12, <1>13, <1>14, <1>15, <1>16, <1>17, <1>18, <1>19, <1>20, <1>21, <1>22, <1>23, <1>24, <1>25, <1>26, <1>27, <1>28, <1>29, <1>30, <1>31, <1>32, <1>33
    DEF Next, ApiStep, QueueStep, SubmissionFault, WorkerStep, CommitStep

\* Every step keeps what slots, locks and jobs say of each other.
LEMMA QueueStepInv == ASSUME Inv, [Next]_vars PROVE (SlotInv /\ LockInv /\ AttemptInv /\ FreshInv)'
  <1> USE PipelineAssumption DEF Inv, TypeOK, vars, rowVars, stageVars, jobVars, slotVars, reqVars,
        SlotInv, LockInv, AttemptInv, FreshInv
  <1>1. ASSUME NEW s \in Submissions, CreateSubmission(s)
        PROVE  (SlotInv /\ LockInv /\ AttemptInv /\ FreshInv)'
    <2>1. SlotInv'
      BY <1>1 DEF CreateSubmission, EnqueueAfterCommit
    <2>2. LockInv'
      BY <1>1 DEF CreateSubmission, EnqueueAfterCommit
    <2>3. AttemptInv'
      BY <1>1 DEF CreateSubmission, EnqueueAfterCommit
    <2>4. FreshInv'
      BY <1>1 DEF CreateSubmission, EnqueueAfterCommit
    <2>5. QED
      BY <2>1, <2>2, <2>3, <2>4
  <1>2. ASSUME NEW s \in Submissions, Flush(s)
        PROVE  (SlotInv /\ LockInv /\ AttemptInv /\ FreshInv)'
    BY <1>2 DEF Flush
  <1>3. ASSUME NEW s \in Submissions, EnqueueAcked(s)
        PROVE  (SlotInv /\ LockInv /\ AttemptInv /\ FreshInv)'
    BY <1>3 DEF EnqueueAcked
  <1>4. ASSUME NEW s \in Submissions, EnqueueTimeout(s)
        PROVE  (SlotInv /\ LockInv /\ AttemptInv /\ FreshInv)'
    BY <1>4 DEF EnqueueTimeout, Fault
  <1>5. ASSUME NEW s \in Submissions, EnqueueRejected(s)
        PROVE  (SlotInv /\ LockInv /\ AttemptInv /\ FreshInv)'
    BY <1>5 DEF EnqueueRejected, Fault
  <1>6. ASSUME NEW s \in Submissions, MarkUnqueued(s)
        PROVE  (SlotInv /\ LockInv /\ AttemptInv /\ FreshInv)'
    BY <1>6 DEF MarkUnqueued
  <1>7. ASSUME NEW s \in Submissions, MarkUnqueuedFails(s)
        PROVE  (SlotInv /\ LockInv /\ AttemptInv /\ FreshInv)'
    BY <1>7 DEF MarkUnqueuedFails, Fault
  <1>8. ASSUME ApiCrash
        PROVE  (SlotInv /\ LockInv /\ AttemptInv /\ FreshInv)'
    BY <1>8 DEF ApiCrash, Fault
  <1>9. ASSUME NEW w \in Slots, NEW s \in Submissions, Take(w, s)
        PROVE  (SlotInv /\ LockInv /\ AttemptInv /\ FreshInv)'
    <2>1. SlotInv'
      <3>1. last'[w] => made'[s] + 1 >= MaxAttempts
        <4>1. last'[w] = IsFinalAttempt(made[s])
          BY <1>9, ZenonT(30) DEF Take
        <4>2. QED
          BY <1>9, <4>1 DEF Take, IsFinalAttempt
      <3>2. sub' = [sub EXCEPT ![w] = s] /\ pc' = [pc EXCEPT ![w] = "load"]
              /\ made' = made /\ \A v \in Slots \ {w} : last'[v] = last[v]
        BY <1>9 DEF Take
      <3>3. QED
        BY <3>1, <3>2
    <2>2. LockInv'
      BY <1>9 DEF Take, IsFinalAttempt
    <2>3. AttemptInv'
      BY <1>9 DEF Take, IsFinalAttempt
    <2>4. FreshInv'
      BY <1>9 DEF Take, IsFinalAttempt
    <2>5. QED
      BY <2>1, <2>2, <2>3, <2>4
  <1>10. ASSUME NEW s \in Submissions, Promote(s)
        PROVE  (SlotInv /\ LockInv /\ AttemptInv /\ FreshInv)'
    BY <1>10 DEF Promote
  <1>11. ASSUME NEW s \in Submissions, LockLapse(s)
        PROVE  (SlotInv /\ LockInv /\ AttemptInv /\ FreshInv)'
    BY <1>11 DEF LockLapse, Fault
  <1>12. ASSUME NEW s \in Submissions, Stalled(s)
        PROVE  (SlotInv /\ LockInv /\ AttemptInv /\ FreshInv)'
    BY <1>12 DEF Stalled
  <1>13. ASSUME NEW w \in Slots, Complete(w)
        PROVE  (SlotInv /\ LockInv /\ AttemptInv /\ FreshInv)'
    BY <1>13, SMTT(30) DEF Complete, Release
  <1>14. ASSUME NEW w \in Slots, Rethrow(w)
        PROVE  (SlotInv /\ LockInv /\ AttemptInv /\ FreshInv)'
    <2>1. SlotInv'
      BY <1>14 DEF Rethrow, Release, MayRetry
    <2>2. LockInv'
      BY <1>14 DEF Rethrow, Release, MayRetry
    <2>3. AttemptInv'
      BY <1>14 DEF Rethrow, Release, MayRetry
    <2>4. FreshInv'
      BY <1>14 DEF Rethrow, Release, MayRetry
    <2>5. QED
      BY <2>1, <2>2, <2>3, <2>4
  <1>15. ASSUME WorkerCrash
        PROVE  (SlotInv /\ LockInv /\ AttemptInv /\ FreshInv)'
    BY <1>15 DEF WorkerCrash, Fault
  <1>16. ASSUME NEW w \in Slots, Load(w)
        PROVE  (SlotInv /\ LockInv /\ AttemptInv /\ FreshInv)'
    BY <1>16 DEF Load, Goto, Untouched, AfterLoad
  <1>17. ASSUME NEW w \in Slots, SetResolving(w)
        PROVE  (SlotInv /\ LockInv /\ AttemptInv /\ FreshInv)'
    BY <1>17 DEF SetResolving, Goto, Untouched
  <1>18. ASSUME NEW w \in Slots, StartResolve(w)
        PROVE  (SlotInv /\ LockInv /\ AttemptInv /\ FreshInv)'
    BY <1>18 DEF StartResolve, Goto, Untouched
  <1>19. ASSUME NEW w \in Slots, Resolve(w)
        PROVE  (SlotInv /\ LockInv /\ AttemptInv /\ FreshInv)'
    BY <1>19 DEF Resolve, Goto, Untouched
  <1>20. ASSUME NEW w \in Slots, FinishResolve(w)
        PROVE  (SlotInv /\ LockInv /\ AttemptInv /\ FreshInv)'
    BY <1>20 DEF FinishResolve, Goto, Untouched
  <1>21. ASSUME NEW w \in Slots, SetEvaluating(w)
        PROVE  (SlotInv /\ LockInv /\ AttemptInv /\ FreshInv)'
    BY <1>21 DEF SetEvaluating, Goto, Untouched
  <1>22. ASSUME NEW w \in Slots, StartEvaluate(w)
        PROVE  (SlotInv /\ LockInv /\ AttemptInv /\ FreshInv)'
    BY <1>22 DEF StartEvaluate, Goto, Untouched
  <1>23. ASSUME NEW w \in Slots, Judge(w)
        PROVE  (SlotInv /\ LockInv /\ AttemptInv /\ FreshInv)'
    BY <1>23 DEF Judge, Goto, Untouched
  <1>24. ASSUME NEW w \in Slots, StoreVerdict(w)
        PROVE  (SlotInv /\ LockInv /\ AttemptInv /\ FreshInv)'
    BY <1>24 DEF StoreVerdict, Goto, Untouched
  <1>25. ASSUME NEW w \in Slots, FinishEvaluate(w)
        PROVE  (SlotInv /\ LockInv /\ AttemptInv /\ FreshInv)'
    BY <1>25 DEF FinishEvaluate, Goto, Untouched
  <1>26. ASSUME NEW w \in Slots, FailAttempt(w)
        PROVE  (SlotInv /\ LockInv /\ AttemptInv /\ FreshInv)'
    BY <1>26 DEF FailAttempt, Goto, Untouched
  <1>27. ASSUME NEW w \in Slots, MarkFailed(w)
        PROVE  (SlotInv /\ LockInv /\ AttemptInv /\ FreshInv)'
    BY <1>27 DEF MarkFailed, Goto, Untouched
  <1>28. ASSUME NEW w \in Slots, DbError(w)
        PROVE  (SlotInv /\ LockInv /\ AttemptInv /\ FreshInv)'
    BY <1>28 DEF DbError, Goto, Untouched, AfterDbError, Fault
  <1>29. ASSUME NEW q \in Requests, NEW s \in Submissions,
                NEW g \in Gradations \cup {None}, CommitRead(q, s, g)
        PROVE  (SlotInv /\ LockInv /\ AttemptInv /\ FreshInv)'
    BY <1>29 DEF CommitRead, FinalGradation, Overridden, Refuses
  <1>30. ASSUME NEW q \in Requests, NEW s \in Submissions,
                NEW g \in Gradations \cup {None}, CommitRefused(q, s, g)
        PROVE  (SlotInv /\ LockInv /\ AttemptInv /\ FreshInv)'
    BY <1>30 DEF CommitRefused, FinalGradation, Refuses
  <1>31. ASSUME NEW q \in Requests, ReadCard(q)
        PROVE  (SlotInv /\ LockInv /\ AttemptInv /\ FreshInv)'
    BY <1>31 DEF ReadCard
  <1>32. ASSUME NEW q \in Requests, WriteCommit(q)
        PROVE  (SlotInv /\ LockInv /\ AttemptInv /\ FreshInv)'
    BY <1>32 DEF WriteCommit, NextCard
  <1>33. CASE UNCHANGED vars
    BY <1>33
  <1>34. QED
    BY <1>1, <1>2, <1>3, <1>4, <1>5, <1>6, <1>7, <1>8, <1>9, <1>10, <1>11, <1>12, <1>13, <1>14, <1>15, <1>16, <1>17, <1>18, <1>19, <1>20, <1>21, <1>22, <1>23, <1>24, <1>25, <1>26, <1>27, <1>28, <1>29, <1>30, <1>31, <1>32, <1>33
    DEF Next, ApiStep, QueueStep, SubmissionFault, WorkerStep, CommitStep

\* Every step keeps what rows, verdicts and commits say of each other.
LEMMA GradeStepInv == ASSUME Inv, [Next]_vars PROVE (VerdictInv /\ GradedInv /\ RequestInv /\ FinalIsReviewed)'
  <1> USE PipelineAssumption DEF Inv, TypeOK, vars, rowVars, stageVars, jobVars, slotVars, reqVars,
        SlotInv, VerdictInv, GradedInv, RequestInv, FinalIsReviewed
  <1>1. ASSUME NEW s \in Submissions, CreateSubmission(s)
        PROVE  (VerdictInv /\ GradedInv /\ RequestInv /\ FinalIsReviewed)'
    BY <1>1 DEF CreateSubmission, EnqueueAfterCommit
  <1>2. ASSUME NEW s \in Submissions, Flush(s)
        PROVE  (VerdictInv /\ GradedInv /\ RequestInv /\ FinalIsReviewed)'
    BY <1>2 DEF Flush
  <1>3. ASSUME NEW s \in Submissions, EnqueueAcked(s)
        PROVE  (VerdictInv /\ GradedInv /\ RequestInv /\ FinalIsReviewed)'
    BY <1>3 DEF EnqueueAcked
  <1>4. ASSUME NEW s \in Submissions, EnqueueTimeout(s)
        PROVE  (VerdictInv /\ GradedInv /\ RequestInv /\ FinalIsReviewed)'
    BY <1>4 DEF EnqueueTimeout, Fault
  <1>5. ASSUME NEW s \in Submissions, EnqueueRejected(s)
        PROVE  (VerdictInv /\ GradedInv /\ RequestInv /\ FinalIsReviewed)'
    BY <1>5 DEF EnqueueRejected, Fault
  <1>6. ASSUME NEW s \in Submissions, MarkUnqueued(s)
        PROVE  (VerdictInv /\ GradedInv /\ RequestInv /\ FinalIsReviewed)'
    BY <1>6 DEF MarkUnqueued
  <1>7. ASSUME NEW s \in Submissions, MarkUnqueuedFails(s)
        PROVE  (VerdictInv /\ GradedInv /\ RequestInv /\ FinalIsReviewed)'
    BY <1>7 DEF MarkUnqueuedFails, Fault
  <1>8. ASSUME ApiCrash
        PROVE  (VerdictInv /\ GradedInv /\ RequestInv /\ FinalIsReviewed)'
    BY <1>8 DEF ApiCrash, Fault
  <1>9. ASSUME NEW w \in Slots, NEW s \in Submissions, Take(w, s)
        PROVE  (VerdictInv /\ GradedInv /\ RequestInv /\ FinalIsReviewed)'
    BY <1>9 DEF Take, IsFinalAttempt
  <1>10. ASSUME NEW s \in Submissions, Promote(s)
        PROVE  (VerdictInv /\ GradedInv /\ RequestInv /\ FinalIsReviewed)'
    BY <1>10 DEF Promote
  <1>11. ASSUME NEW s \in Submissions, LockLapse(s)
        PROVE  (VerdictInv /\ GradedInv /\ RequestInv /\ FinalIsReviewed)'
    BY <1>11 DEF LockLapse, Fault
  <1>12. ASSUME NEW s \in Submissions, Stalled(s)
        PROVE  (VerdictInv /\ GradedInv /\ RequestInv /\ FinalIsReviewed)'
    BY <1>12 DEF Stalled
  <1>13. ASSUME NEW w \in Slots, Complete(w)
        PROVE  (VerdictInv /\ GradedInv /\ RequestInv /\ FinalIsReviewed)'
    BY <1>13 DEF Complete, Release
  <1>14. ASSUME NEW w \in Slots, Rethrow(w)
        PROVE  (VerdictInv /\ GradedInv /\ RequestInv /\ FinalIsReviewed)'
    BY <1>14 DEF Rethrow, Release, MayRetry
  <1>15. ASSUME WorkerCrash
        PROVE  (VerdictInv /\ GradedInv /\ RequestInv /\ FinalIsReviewed)'
    BY <1>15 DEF WorkerCrash, Fault
  <1>16. ASSUME NEW w \in Slots, Load(w)
        PROVE  (VerdictInv /\ GradedInv /\ RequestInv /\ FinalIsReviewed)'
    BY <1>16 DEF Load, Goto, Untouched, AfterLoad
  <1>17. ASSUME NEW w \in Slots, SetResolving(w)
        PROVE  (VerdictInv /\ GradedInv /\ RequestInv /\ FinalIsReviewed)'
    BY <1>17 DEF SetResolving, Goto, Untouched
  <1>18. ASSUME NEW w \in Slots, StartResolve(w)
        PROVE  (VerdictInv /\ GradedInv /\ RequestInv /\ FinalIsReviewed)'
    BY <1>18 DEF StartResolve, Goto, Untouched
  <1>19. ASSUME NEW w \in Slots, Resolve(w)
        PROVE  (VerdictInv /\ GradedInv /\ RequestInv /\ FinalIsReviewed)'
    BY <1>19 DEF Resolve, Goto, Untouched
  <1>20. ASSUME NEW w \in Slots, FinishResolve(w)
        PROVE  (VerdictInv /\ GradedInv /\ RequestInv /\ FinalIsReviewed)'
    BY <1>20 DEF FinishResolve, Goto, Untouched
  <1>21. ASSUME NEW w \in Slots, SetEvaluating(w)
        PROVE  (VerdictInv /\ GradedInv /\ RequestInv /\ FinalIsReviewed)'
    BY <1>21 DEF SetEvaluating, Goto, Untouched
  <1>22. ASSUME NEW w \in Slots, StartEvaluate(w)
        PROVE  (VerdictInv /\ GradedInv /\ RequestInv /\ FinalIsReviewed)'
    BY <1>22 DEF StartEvaluate, Goto, Untouched
  <1>23. ASSUME NEW w \in Slots, Judge(w)
        PROVE  (VerdictInv /\ GradedInv /\ RequestInv /\ FinalIsReviewed)'
    BY <1>23 DEF Judge, Goto, Untouched
  <1>24. ASSUME NEW w \in Slots, StoreVerdict(w)
        PROVE  (VerdictInv /\ GradedInv /\ RequestInv /\ FinalIsReviewed)'
    BY <1>24 DEF StoreVerdict, Goto, Untouched
  <1>25. ASSUME NEW w \in Slots, FinishEvaluate(w)
        PROVE  (VerdictInv /\ GradedInv /\ RequestInv /\ FinalIsReviewed)'
    BY <1>25 DEF FinishEvaluate, Goto, Untouched
  <1>26. ASSUME NEW w \in Slots, FailAttempt(w)
        PROVE  (VerdictInv /\ GradedInv /\ RequestInv /\ FinalIsReviewed)'
    BY <1>26 DEF FailAttempt, Goto, Untouched
  <1>27. ASSUME NEW w \in Slots, MarkFailed(w)
        PROVE  (VerdictInv /\ GradedInv /\ RequestInv /\ FinalIsReviewed)'
    BY <1>27 DEF MarkFailed, Goto, Untouched
  <1>28. ASSUME NEW w \in Slots, DbError(w)
        PROVE  (VerdictInv /\ GradedInv /\ RequestInv /\ FinalIsReviewed)'
    BY <1>28 DEF DbError, Goto, Untouched, AfterDbError, Fault
  <1>29. ASSUME NEW q \in Requests, NEW s \in Submissions,
                NEW g \in Gradations \cup {None}, CommitRead(q, s, g)
        PROVE  (VerdictInv /\ GradedInv /\ RequestInv /\ FinalIsReviewed)'
    BY <1>29 DEF CommitRead, FinalGradation, Overridden, Refuses
  <1>30. ASSUME NEW q \in Requests, NEW s \in Submissions,
                NEW g \in Gradations \cup {None}, CommitRefused(q, s, g)
        PROVE  (VerdictInv /\ GradedInv /\ RequestInv /\ FinalIsReviewed)'
    BY <1>30 DEF CommitRefused, FinalGradation, Refuses
  <1>31. ASSUME NEW q \in Requests, ReadCard(q)
        PROVE  (VerdictInv /\ GradedInv /\ RequestInv /\ FinalIsReviewed)'
    BY <1>31 DEF ReadCard
  <1>32. ASSUME NEW q \in Requests, WriteCommit(q)
        PROVE  (VerdictInv /\ GradedInv /\ RequestInv /\ FinalIsReviewed)'
    BY <1>32 DEF WriteCommit, NextCard
  <1>33. CASE UNCHANGED vars
    BY <1>33
  <1>34. QED
    BY <1>1, <1>2, <1>3, <1>4, <1>5, <1>6, <1>7, <1>8, <1>9, <1>10, <1>11, <1>12, <1>13, <1>14, <1>15, <1>16, <1>17, <1>18, <1>19, <1>20, <1>21, <1>22, <1>23, <1>24, <1>25, <1>26, <1>27, <1>28, <1>29, <1>30, <1>31, <1>32, <1>33
    DEF Next, ApiStep, QueueStep, SubmissionFault, WorkerStep, CommitStep

\* The body of FailsOnlyWhenGivenUp.
FailedRightly ==
    \A s \in Submissions :
        status[s] # "failed" /\ status'[s] = "failed" =>
            api[s] = "marking" \/ made[s] + 1 >= MaxAttempts

\* No step but the API's and the last attempt's shows a submission as failed.
LEMMA FailStep == ASSUME Inv, [Next]_vars PROVE FailedRightly
  <1> USE DEF Inv, TypeOK, vars, rowVars, stageVars, jobVars, slotVars, reqVars, SlotInv, FailedRightly
  <1>1. ASSUME NEW s \in Submissions, CreateSubmission(s)
        PROVE  FailedRightly
    BY <1>1 DEF CreateSubmission, EnqueueAfterCommit
  <1>2. ASSUME NEW s \in Submissions, Flush(s)
        PROVE  FailedRightly
    BY <1>2 DEF Flush
  <1>3. ASSUME NEW s \in Submissions, EnqueueAcked(s)
        PROVE  FailedRightly
    BY <1>3 DEF EnqueueAcked
  <1>4. ASSUME NEW s \in Submissions, EnqueueTimeout(s)
        PROVE  FailedRightly
    BY <1>4 DEF EnqueueTimeout, Fault
  <1>5. ASSUME NEW s \in Submissions, EnqueueRejected(s)
        PROVE  FailedRightly
    BY <1>5 DEF EnqueueRejected, Fault
  <1>6. ASSUME NEW s \in Submissions, MarkUnqueued(s)
        PROVE  FailedRightly
    BY <1>6 DEF MarkUnqueued
  <1>7. ASSUME NEW s \in Submissions, MarkUnqueuedFails(s)
        PROVE  FailedRightly
    BY <1>7 DEF MarkUnqueuedFails, Fault
  <1>8. ASSUME ApiCrash
        PROVE  FailedRightly
    BY <1>8 DEF ApiCrash, Fault
  <1>9. ASSUME NEW w \in Slots, NEW s \in Submissions, Take(w, s)
        PROVE  FailedRightly
    BY <1>9 DEF Take, IsFinalAttempt
  <1>10. ASSUME NEW s \in Submissions, Promote(s)
        PROVE  FailedRightly
    BY <1>10 DEF Promote
  <1>11. ASSUME NEW s \in Submissions, LockLapse(s)
        PROVE  FailedRightly
    BY <1>11 DEF LockLapse, Fault
  <1>12. ASSUME NEW s \in Submissions, Stalled(s)
        PROVE  FailedRightly
    BY <1>12 DEF Stalled
  <1>13. ASSUME NEW w \in Slots, Complete(w)
        PROVE  FailedRightly
    BY <1>13 DEF Complete, Release
  <1>14. ASSUME NEW w \in Slots, Rethrow(w)
        PROVE  FailedRightly
    BY <1>14 DEF Rethrow, Release, MayRetry
  <1>15. ASSUME WorkerCrash
        PROVE  FailedRightly
    BY <1>15 DEF WorkerCrash, Fault
  <1>16. ASSUME NEW w \in Slots, Load(w)
        PROVE  FailedRightly
    BY <1>16 DEF Load, Goto, Untouched, AfterLoad
  <1>17. ASSUME NEW w \in Slots, SetResolving(w)
        PROVE  FailedRightly
    BY <1>17 DEF SetResolving, Goto, Untouched
  <1>18. ASSUME NEW w \in Slots, StartResolve(w)
        PROVE  FailedRightly
    BY <1>18 DEF StartResolve, Goto, Untouched
  <1>19. ASSUME NEW w \in Slots, Resolve(w)
        PROVE  FailedRightly
    BY <1>19 DEF Resolve, Goto, Untouched
  <1>20. ASSUME NEW w \in Slots, FinishResolve(w)
        PROVE  FailedRightly
    BY <1>20 DEF FinishResolve, Goto, Untouched
  <1>21. ASSUME NEW w \in Slots, SetEvaluating(w)
        PROVE  FailedRightly
    BY <1>21 DEF SetEvaluating, Goto, Untouched
  <1>22. ASSUME NEW w \in Slots, StartEvaluate(w)
        PROVE  FailedRightly
    BY <1>22 DEF StartEvaluate, Goto, Untouched
  <1>23. ASSUME NEW w \in Slots, Judge(w)
        PROVE  FailedRightly
    BY <1>23 DEF Judge, Goto, Untouched
  <1>24. ASSUME NEW w \in Slots, StoreVerdict(w)
        PROVE  FailedRightly
    BY <1>24 DEF StoreVerdict, Goto, Untouched
  <1>25. ASSUME NEW w \in Slots, FinishEvaluate(w)
        PROVE  FailedRightly
    BY <1>25 DEF FinishEvaluate, Goto, Untouched
  <1>26. ASSUME NEW w \in Slots, FailAttempt(w)
        PROVE  FailedRightly
    BY <1>26 DEF FailAttempt, Goto, Untouched
  <1>27. ASSUME NEW w \in Slots, MarkFailed(w)
        PROVE  FailedRightly
    BY <1>27 DEF MarkFailed, Goto, Untouched
  <1>28. ASSUME NEW w \in Slots, DbError(w)
        PROVE  FailedRightly
    BY <1>28 DEF DbError, Goto, Untouched, AfterDbError, Fault
  <1>29. ASSUME NEW q \in Requests, NEW s \in Submissions,
                NEW g \in Gradations \cup {None}, CommitRead(q, s, g)
        PROVE  FailedRightly
    BY <1>29 DEF CommitRead, FinalGradation, Overridden, Refuses
  <1>30. ASSUME NEW q \in Requests, NEW s \in Submissions,
                NEW g \in Gradations \cup {None}, CommitRefused(q, s, g)
        PROVE  FailedRightly
    BY <1>30 DEF CommitRefused, FinalGradation, Refuses
  <1>31. ASSUME NEW q \in Requests, ReadCard(q)
        PROVE  FailedRightly
    BY <1>31 DEF ReadCard
  <1>32. ASSUME NEW q \in Requests, WriteCommit(q)
        PROVE  FailedRightly
    BY <1>32 DEF WriteCommit, NextCard
  <1>33. CASE UNCHANGED vars
    BY <1>33
  <1>34. QED
    BY <1>1, <1>2, <1>3, <1>4, <1>5, <1>6, <1>7, <1>8, <1>9, <1>10, <1>11, <1>12, <1>13, <1>14, <1>15, <1>16, <1>17, <1>18, <1>19, <1>20, <1>21, <1>22, <1>23, <1>24, <1>25, <1>26, <1>27, <1>28, <1>29, <1>30, <1>31, <1>32, <1>33
    DEF Next, ApiStep, QueueStep, SubmissionFault, WorkerStep, CommitStep

-----------------------------------------------------------------------------
(* A gradation is replaced only by a call that was delivered again. *)

\* A job that never stalled is worked on by one call at most, and is active then.
OneCallInv ==
    \A s \in Submissions : stalls[s] = 0 =>
        /\ \A v, w \in Slots :
              pc[v] # "idle" /\ pc[w] # "idle" /\ sub[v] = s /\ sub[w] = s => v = w
        /\ \A w \in Slots : pc[w] # "idle" /\ sub[w] = s => job[s] = "active"

\* Before the first fault every call holds its lock, so nothing stalls.
FaultlessInv ==
    faults = 0 => /\ \A s \in Submissions : stalls[s] = 0
                  /\ \A w \in Slots : pc[w] # "idle" => lock[sub[w]] = w
                  /\ \A s \in Submissions : job[s] = "active" => lock[s] # None

\* There was no fault yet, or no attempt of the job was made before this one.
FirstDelivery(s) == faults = 0 \/ (made[s] = 0 /\ stalls[s] = 0)

\* A submission graded in its first delivery is past the model, for that call
\* and, until BullMQ delivers the job again, for good.
GradedOnceInv ==
    \A s \in Submissions : aiGrade[s] # None /\ FirstDelivery(s) =>
        /\ job[s] \in {"active", "completed"}
        /\ \A w \in Slots : pc[w] # "idle" /\ sub[w] = s =>
              \/ pc[w] \in {"finishing", "ack"}
              \/ faults > 0 /\ pc[w] \in {"caught", "marking", "rethrow"}

AgainInv == OneCallInv /\ FaultlessInv /\ GradedOnceInv

\* Every step keeps the deliveries apart.
LEMMA AgainStep == ASSUME Inv, AgainInv, [Next]_vars PROVE AgainInv'
  <1> USE PipelineAssumption DEF Inv, TypeOK, vars, rowVars, stageVars, jobVars, slotVars, reqVars, SlotInv, LockInv,
        FreshInv, AgainInv, OneCallInv, FaultlessInv, GradedOnceInv, FirstDelivery
  <1>1. ASSUME NEW s \in Submissions, CreateSubmission(s)
        PROVE  AgainInv'
    BY <1>1 DEF CreateSubmission, EnqueueAfterCommit
  <1>2. ASSUME NEW s \in Submissions, Flush(s)
        PROVE  AgainInv'
    BY <1>2 DEF Flush
  <1>3. ASSUME NEW s \in Submissions, EnqueueAcked(s)
        PROVE  AgainInv'
    BY <1>3 DEF EnqueueAcked
  <1>4. ASSUME NEW s \in Submissions, EnqueueTimeout(s)
        PROVE  AgainInv'
    BY <1>4 DEF EnqueueTimeout, Fault
  <1>5. ASSUME NEW s \in Submissions, EnqueueRejected(s)
        PROVE  AgainInv'
    BY <1>5 DEF EnqueueRejected, Fault
  <1>6. ASSUME NEW s \in Submissions, MarkUnqueued(s)
        PROVE  AgainInv'
    BY <1>6 DEF MarkUnqueued
  <1>7. ASSUME NEW s \in Submissions, MarkUnqueuedFails(s)
        PROVE  AgainInv'
    BY <1>7 DEF MarkUnqueuedFails, Fault
  <1>8. ASSUME ApiCrash
        PROVE  AgainInv'
    BY <1>8 DEF ApiCrash, Fault
  <1>9. ASSUME NEW w \in Slots, NEW s \in Submissions, Take(w, s)
        PROVE  AgainInv'
    BY <1>9 DEF Take, IsFinalAttempt
  <1>10. ASSUME NEW s \in Submissions, Promote(s)
        PROVE  AgainInv'
    BY <1>10 DEF Promote
  <1>11. ASSUME NEW s \in Submissions, LockLapse(s)
        PROVE  AgainInv'
    BY <1>11 DEF LockLapse, Fault
  <1>12. ASSUME NEW s \in Submissions, Stalled(s)
        PROVE  AgainInv'
    BY <1>12 DEF Stalled
  <1>13. ASSUME NEW w \in Slots, Complete(w)
        PROVE  AgainInv'
    <2>1. /\ pc[w] = "ack" /\ sub[w] \in Submissions
          /\ pc' = [pc EXCEPT ![w] = "idle"]
          /\ \A v \in Slots \ {w} : sub'[v] = sub[v]
          /\ UNCHANGED <<made, stalls, aiGrade, faults>>
      BY <1>13 DEF Complete, Release
    <2>2. CASE lock[sub[w]] = w
      <3>1. /\ job' = [job EXCEPT ![sub[w]] = "completed"]
            /\ lock' = [lock EXCEPT ![sub[w]] = None]
        BY <1>13, <2>2 DEF Complete
      <3>2. OneCallInv'
        BY <2>1, <3>1
      <3>3. FaultlessInv'
        BY <2>1, <3>1
      <3>4. GradedOnceInv'
        BY <2>1, <3>1
      <3>5. QED
        BY <3>2, <3>3, <3>4
    <2>3. CASE lock[sub[w]] # w
      <3>1. UNCHANGED <<job, lock>>
        BY <1>13, <2>3 DEF Complete
      <3>2. OneCallInv'
        BY <2>1, <3>1
      <3>3. FaultlessInv'
        BY <2>1, <2>3, <3>1
      <3>4. GradedOnceInv'
        BY <2>1, <3>1
      <3>5. QED
        BY <3>2, <3>3, <3>4
    <2>4. QED
      BY <2>2, <2>3
  <1>14. ASSUME NEW w \in Slots, Rethrow(w)
        PROVE  AgainInv'
    <2>1. /\ pc[w] = "rethrow" /\ sub[w] \in Submissions
          /\ pc' = [pc EXCEPT ![w] = "idle"]
          /\ \A v \in Slots \ {w} : sub'[v] = sub[v]
          /\ UNCHANGED <<stalls, aiGrade, faults>>
      BY <1>14 DEF Rethrow, Release
    <2>2. CASE lock[sub[w]] = w
      <3>1. /\ made' = [made EXCEPT ![sub[w]] = @ + 1]
            /\ lock' = [lock EXCEPT ![sub[w]] = None]
            /\ \A t \in Submissions \ {sub[w]} : job'[t] = job[t]
            /\ job'[sub[w]] \in {"delayed", "failed"}
        BY <1>14, <2>2 DEF Rethrow
      <3>2. OneCallInv'
        BY <2>1, <3>1
      <3>3. FaultlessInv'
        BY <2>1, <3>1
      <3>4. GradedOnceInv'
        <4> SUFFICES ASSUME NEW s \in Submissions, aiGrade[s] # None, FirstDelivery(s)'
                     PROVE  /\ job'[s] \in {"active", "completed"}
                            /\ \A v \in Slots : pc'[v] # "idle" /\ sub'[v] = s =>
                                  \/ pc'[v] \in {"finishing", "ack"}
                                  \/ faults' > 0 /\ pc'[v] \in {"caught", "marking", "rethrow"}
          BY <2>1
        <4>1. s # sub[w]
          <5> SUFFICES ASSUME s = sub[w] PROVE FALSE
            OBVIOUS
          <5>1. made[s] \in Nat /\ made'[s] = made[s] + 1
            BY <3>1
          <5>2. made'[s] # 0
            BY <5>1
          <5>3. faults = 0
            BY <2>1, <5>2
          <5>4. pc[w] \in {"finishing", "ack"} \/ faults > 0
            BY <2>1, <5>3, ZenonT(30)
          <5>5. QED
            BY <2>1, <5>3, <5>4
        <4>2. made'[s] = made[s] /\ FirstDelivery(s)
          BY <2>1, <3>1, <4>1
        <4>3. QED
          BY <2>1, <3>1, <4>1, <4>2
      <3>5. QED
        BY <3>2, <3>3, <3>4
    <2>3. CASE lock[sub[w]] # w
      <3>1. UNCHANGED <<job, lock, made>>
        BY <1>14, <2>3 DEF Rethrow
      <3>2. OneCallInv'
        BY <2>1, <3>1
      <3>3. FaultlessInv'
        BY <2>1, <2>3, <3>1
      <3>4. GradedOnceInv'
        BY <2>1, <3>1
      <3>5. QED
        BY <3>2, <3>3, <3>4
    <2>4. QED
      BY <2>2, <2>3
  <1>15. ASSUME WorkerCrash
        PROVE  AgainInv'
    BY <1>15 DEF WorkerCrash, Fault
  <1>16. ASSUME NEW w \in Slots, Load(w)
        PROVE  AgainInv'
    BY <1>16 DEF Load, Goto, Untouched, AfterLoad
  <1>17. ASSUME NEW w \in Slots, SetResolving(w)
        PROVE  AgainInv'
    BY <1>17 DEF SetResolving, Goto, Untouched
  <1>18. ASSUME NEW w \in Slots, StartResolve(w)
        PROVE  AgainInv'
    BY <1>18 DEF StartResolve, Goto, Untouched
  <1>19. ASSUME NEW w \in Slots, Resolve(w)
        PROVE  AgainInv'
    BY <1>19 DEF Resolve, Goto, Untouched
  <1>20. ASSUME NEW w \in Slots, FinishResolve(w)
        PROVE  AgainInv'
    BY <1>20 DEF FinishResolve, Goto, Untouched
  <1>21. ASSUME NEW w \in Slots, SetEvaluating(w)
        PROVE  AgainInv'
    BY <1>21 DEF SetEvaluating, Goto, Untouched
  <1>22. ASSUME NEW w \in Slots, StartEvaluate(w)
        PROVE  AgainInv'
    BY <1>22 DEF StartEvaluate, Goto, Untouched
  <1>23. ASSUME NEW w \in Slots, Judge(w)
        PROVE  AgainInv'
    BY <1>23 DEF Judge, Goto, Untouched
  <1>24. ASSUME NEW w \in Slots, StoreVerdict(w)
        PROVE  AgainInv'
    BY <1>24 DEF StoreVerdict, Goto, Untouched
  <1>25. ASSUME NEW w \in Slots, FinishEvaluate(w)
        PROVE  AgainInv'
    BY <1>25 DEF FinishEvaluate, Goto, Untouched
  <1>26. ASSUME NEW w \in Slots, FailAttempt(w)
        PROVE  AgainInv'
    BY <1>26 DEF FailAttempt, Goto, Untouched
  <1>27. ASSUME NEW w \in Slots, MarkFailed(w)
        PROVE  AgainInv'
    BY <1>27 DEF MarkFailed, Goto, Untouched
  <1>28. ASSUME NEW w \in Slots, DbError(w)
        PROVE  AgainInv'
    BY <1>28 DEF DbError, Goto, Untouched, AfterDbError, Fault
  <1>29. ASSUME NEW q \in Requests, NEW s \in Submissions,
                NEW g \in Gradations \cup {None}, CommitRead(q, s, g)
        PROVE  AgainInv'
    BY <1>29 DEF CommitRead, FinalGradation, Overridden, Refuses
  <1>30. ASSUME NEW q \in Requests, NEW s \in Submissions,
                NEW g \in Gradations \cup {None}, CommitRefused(q, s, g)
        PROVE  AgainInv'
    BY <1>30 DEF CommitRefused, FinalGradation, Refuses
  <1>31. ASSUME NEW q \in Requests, ReadCard(q)
        PROVE  AgainInv'
    BY <1>31 DEF ReadCard
  <1>32. ASSUME NEW q \in Requests, WriteCommit(q)
        PROVE  AgainInv'
    BY <1>32 DEF WriteCommit, NextCard
  <1>33. CASE UNCHANGED vars
    BY <1>33
  <1>34. QED
    BY <1>1, <1>2, <1>3, <1>4, <1>5, <1>6, <1>7, <1>8, <1>9, <1>10, <1>11, <1>12, <1>13, <1>14, <1>15, <1>16, <1>17, <1>18, <1>19, <1>20, <1>21, <1>22, <1>23, <1>24, <1>25, <1>26, <1>27, <1>28, <1>29, <1>30, <1>31, <1>32, <1>33
    DEF Next, ApiStep, QueueStep, SubmissionFault, WorkerStep, CommitStep

\* The body of RegradedOnlyWhenRedelivered.
RegradedRightly ==
    \A s \in Submissions :
        aiGrade[s] # None /\ aiGrade'[s] # aiGrade[s] => faults > 0 /\ made[s] + stalls[s] > 0

\* Only StoreVerdict writes the gradation.
LEMMA OnlyVerdictsGrade ==
    ASSUME Inv, [Next]_vars, aiGrade' # aiGrade
    PROVE  \E w \in Slots : StoreVerdict(w)
  BY DEF Next, vars, rowVars, stageVars, jobVars, slotVars, reqVars,
         ApiStep, QueueStep, SubmissionFault, WorkerStep, CommitStep, Untouched,
         CreateSubmission, Flush, EnqueueAcked, EnqueueTimeout, EnqueueRejected, MarkUnqueued,
         MarkUnqueuedFails, ApiCrash, Take, Promote, LockLapse, Stalled, Complete, Rethrow,
         WorkerCrash, Load, SetResolving, StartResolve, Resolve, FinishResolve, SetEvaluating,
         StartEvaluate, Judge, FinishEvaluate, FailAttempt, MarkFailed, DbError, CommitRead,
         CommitRefused, ReadCard, WriteCommit

LEMMA RegradeStep == ASSUME Inv, AgainInv, [Next]_vars PROVE RegradedRightly
  <1> SUFFICES ASSUME NEW s \in Submissions, aiGrade[s] # None, aiGrade'[s] # aiGrade[s]
               PROVE  faults > 0 /\ made[s] + stalls[s] > 0
    BY DEF RegradedRightly
  <1>1. PICK w \in Slots : StoreVerdict(w)
    BY OnlyVerdictsGrade
  <1>2. pc[w] = "storing" /\ sub[w] = s
    BY <1>1 DEF StoreVerdict, Inv, TypeOK
  <1>3. ~FirstDelivery(s)
    BY <1>2 DEF AgainInv, GradedOnceInv
  <1>4. made[s] \in Nat /\ stalls[s] \in Nat /\ faults \in Nat
    BY PipelineAssumption DEF Inv, TypeOK
  <1>5. QED
    BY <1>3, <1>4 DEF FirstDelivery

LEMMA InitInv == Init => Inv
  BY PipelineAssumption
  DEF Init, Inv, TypeOK, Status, StageStatus, JobState, ApiState, SlotState, RequestState,
      SlotInv, LockInv, AttemptInv, FreshInv, VerdictInv, GradedInv, RequestInv,
      FinalIsReviewed

\* The inductive invariant holds in every reachable state.
THEOREM Invariance == Spec => []Inv
  <1>1. Inv /\ [Next]_vars => Inv'
    BY TypeStep, QueueStepInv, GradeStepInv DEF Inv
  <1>2. QED
    BY InitInv, <1>1, PTL DEF Spec

\* Every variable of the API, the queue, the worker and the commits keeps its
\* type, the attempts made included: never more than the job options allow.
THEOREM TypeCorrect == Spec => []TypeOK
  <1>1. Inv => TypeOK
    BY DEF Inv
  <1>2. QED
    BY Invariance, <1>1, PTL

\* The commit route never answers "No gradation available", with any number of
\* workers, retries, crashes and lost locks.
THEOREM CommitsHaveGradations == Spec => []CommitHasGradation
  <1>1. Inv => CommitHasGradation
    BY DEF Inv, RequestInv, CommitHasGradation
  <1>2. QED
    BY Invariance, <1>1, PTL

\* An evaluation shown as done has its gradation.
THEOREM DoneStagesAreGraded == Spec => []DoneIsGraded
  <1>1. Inv => DoneIsGraded
    BY DEF Inv, GradedInv, DoneIsGraded
  <1>2. QED
    BY Invariance, <1>1, PTL

\* Every final gradation was counted on the review card of its problem.
THEOREM FinalGradesAreReviewed == Spec => []FinalIsReviewed
  <1>1. Inv => FinalIsReviewed
    BY DEF Inv
  <1>2. QED
    BY Invariance, <1>1, PTL

\* A submission is given up only by the API that could not queue it or by the
\* last attempt of its job, even when several processor calls overlap on it.
THEOREM FailuresAreFinalAttempts == Spec => FailsOnlyWhenGivenUp
  <1>1. Inv /\ [Next]_vars => [FailedRightly]_vars
    BY FailStep
  <1>2. Spec => [][FailedRightly]_vars
    BY Invariance, <1>1, PTL DEF Spec
  <1>3. QED
    BY <1>2 DEF FailsOnlyWhenGivenUp, FailedRightly

\* Whatever fails, a gradation is replaced by another one only after a fault, by
\* a retry or by the redelivery of a job that stalled.
THEOREM RegradesAreRedeliveries == Spec => RegradedOnlyWhenRedelivered
  <1>1. Init => AgainInv
    BY DEF Init, AgainInv, OneCallInv, FaultlessInv, GradedOnceInv
  <1>2. Inv /\ AgainInv /\ [Next]_vars => AgainInv' /\ [RegradedRightly]_vars
    BY AgainStep, RegradeStep
  <1>3. Spec => [][RegradedRightly]_vars
    BY Invariance, <1>1, <1>2, PTL DEF Spec
  <1>4. QED
    BY <1>3 DEF RegradedOnlyWhenRedelivered, RegradedRightly

=============================================================================
