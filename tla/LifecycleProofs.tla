---------------------------- MODULE LifecycleProofs ----------------------------
(***************************************************************************)
(* What the pipeline promises under conditions on faults and clients, each  *)
(* as weak as the promise allows, for every set of submissions, slots and   *)
(* requests.  While locks are renewed, the source comes first; when commits *)
(* come one at a time, no review is lost; when the worker, its locks and    *)
(* its database hold and clients wait for the verdict, the pipeline takes   *)
(* every step the lifecycle allows and no other, though the API may die and *)
(* be refused by Redis; and when lost work is redelivered, only a worker    *)
(* that dies more often than that leaves a submission with nobody to move   *)
(* it.                                                                      *)
(***************************************************************************)
EXTENDS SubmissionPipelineProofs, FiniteSetTheorems

-----------------------------------------------------------------------------
(* The source comes first, whatever else fails, while locks are renewed. *)

\* A worker that lives renews the locks of the jobs it processes.
Leased == "lock-lapse" \notin Faults

\* A busy slot holds the lock of its submission, so it is alone on it.
LeaseInv == \A w \in Slots : pc[w] # "idle" => lock[sub[w]] = w

\* The row is not shown as evaluated while its source is being resolved, and
\* the resolve stage has ended before the evaluation starts.
SourceInv ==
    \A w \in Slots :
        /\ pc[w] \in {"startResolve", "resolve", "resolved", "unresolved"} =>
              status[sub[w]] \notin {"evaluating", "awaiting-review"}
        /\ pc[w] \in {"evaluating", "startEval", "judging", "storing"} =>
              resolveStage[sub[w]] \in {"absent", "done", "failed"}

SourceOK == LeaseInv /\ SourceInv /\ ResolvedBeforeGraded

LEMMA LeasedSteps == ASSUME Leased, NEW s \in Submissions PROVE ~LockLapse(s)
  BY DEF Leased, LockLapse, Fault

LEMMA SourceStep == ASSUME Leased, Inv, SourceOK, [Next]_vars PROVE SourceOK'
  <1> USE PipelineAssumption DEF Inv, TypeOK, vars, rowVars, stageVars, jobVars, slotVars, reqVars,
        SlotInv, LockInv, FreshInv, RequestInv, SourceOK, LeaseInv, SourceInv, ResolvedBeforeGraded
  <1>1. ASSUME NEW s \in Submissions, CreateSubmission(s)
        PROVE  SourceOK'
    BY <1>1 DEF CreateSubmission, EnqueueAfterCommit
  <1>2. ASSUME NEW s \in Submissions, Flush(s)
        PROVE  SourceOK'
    BY <1>2 DEF Flush
  <1>3. ASSUME NEW s \in Submissions, EnqueueAcked(s)
        PROVE  SourceOK'
    BY <1>3 DEF EnqueueAcked
  <1>4. ASSUME NEW s \in Submissions, EnqueueTimeout(s)
        PROVE  SourceOK'
    BY <1>4 DEF EnqueueTimeout, Fault
  <1>5. ASSUME NEW s \in Submissions, EnqueueRejected(s)
        PROVE  SourceOK'
    BY <1>5 DEF EnqueueRejected, Fault
  <1>6. ASSUME NEW s \in Submissions, MarkUnqueued(s)
        PROVE  SourceOK'
    BY <1>6 DEF MarkUnqueued
  <1>7. ASSUME NEW s \in Submissions, MarkUnqueuedFails(s)
        PROVE  SourceOK'
    BY <1>7 DEF MarkUnqueuedFails, Fault
  <1>8. ASSUME NEW w \in Slots, NEW s \in Submissions, Take(w, s)
        PROVE  SourceOK'
    BY <1>8 DEF Take, IsFinalAttempt
  <1>9. ASSUME NEW s \in Submissions, Promote(s)
        PROVE  SourceOK'
    BY <1>9 DEF Promote
  <1>10. ASSUME NEW s \in Submissions, Stalled(s)
        PROVE  SourceOK'
    BY <1>10 DEF Stalled
  <1>11. ASSUME NEW w \in Slots, Complete(w)
        PROVE  SourceOK'
    BY <1>11 DEF Complete, Release
  <1>12. ASSUME NEW w \in Slots, Rethrow(w)
        PROVE  SourceOK'
    BY <1>12 DEF Rethrow, Release
  <1>13. ASSUME NEW w \in Slots, Load(w)
        PROVE  SourceOK'
    BY <1>13 DEF Load, Goto, Untouched, AfterLoad
  <1>14. ASSUME NEW w \in Slots, SetResolving(w)
        PROVE  SourceOK'
    BY <1>14 DEF SetResolving, Goto, Untouched
  <1>15. ASSUME NEW w \in Slots, StartResolve(w)
        PROVE  SourceOK'
    BY <1>15 DEF StartResolve, Goto, Untouched
  <1>16. ASSUME NEW w \in Slots, Resolve(w)
        PROVE  SourceOK'
    BY <1>16 DEF Resolve, Goto, Untouched
  <1>17. ASSUME NEW w \in Slots, FinishResolve(w)
        PROVE  SourceOK'
    BY <1>17 DEF FinishResolve, Goto, Untouched
  <1>18. ASSUME NEW w \in Slots, SetEvaluating(w)
        PROVE  SourceOK'
    BY <1>18 DEF SetEvaluating, Goto, Untouched
  <1>19. ASSUME NEW w \in Slots, StartEvaluate(w)
        PROVE  SourceOK'
    BY <1>19 DEF StartEvaluate, Goto, Untouched
  <1>20. ASSUME NEW w \in Slots, Judge(w)
        PROVE  SourceOK'
    BY <1>20 DEF Judge, Goto, Untouched
  <1>21. ASSUME NEW w \in Slots, StoreVerdict(w)
        PROVE  SourceOK'
    BY <1>21 DEF StoreVerdict, Goto, Untouched
  <1>22. ASSUME NEW w \in Slots, FinishEvaluate(w)
        PROVE  SourceOK'
    BY <1>22 DEF FinishEvaluate, Goto, Untouched
  <1>23. ASSUME NEW w \in Slots, FailAttempt(w)
        PROVE  SourceOK'
    BY <1>23 DEF FailAttempt, Goto, Untouched
  <1>24. ASSUME NEW w \in Slots, MarkFailed(w)
        PROVE  SourceOK'
    BY <1>24 DEF MarkFailed, Goto, Untouched
  <1>25. ASSUME NEW w \in Slots, DbError(w)
        PROVE  SourceOK'
    BY <1>25 DEF DbError, AfterDbError, Fault, Goto, Untouched
  <1>26. ASSUME NEW q \in Requests, NEW s \in Submissions,
                NEW g \in Gradations \cup {None}, CommitRead(q, s, g)
        PROVE  SourceOK'
    BY <1>26 DEF CommitRead
  <1>27. ASSUME NEW q \in Requests, NEW s \in Submissions,
                NEW g \in Gradations \cup {None}, CommitRefused(q, s, g)
        PROVE  SourceOK'
    BY <1>27 DEF CommitRefused
  <1>28. ASSUME NEW q \in Requests, ReadCard(q)
        PROVE  SourceOK'
    BY <1>28 DEF ReadCard
  <1>29. ASSUME NEW q \in Requests, WriteCommit(q)
        PROVE  SourceOK'
    BY <1>29 DEF WriteCommit
  <1>30. CASE ApiCrash
    BY <1>30 DEF ApiCrash, Fault
  <1>31. CASE WorkerCrash
    BY <1>31 DEF WorkerCrash, Fault
  <1>32. CASE UNCHANGED vars
    BY <1>32
  <1>33. QED
    BY <1>1, <1>2, <1>3, <1>4, <1>5, <1>6, <1>7, <1>8, <1>9, <1>10, <1>11, <1>12, <1>13,
       <1>14, <1>15, <1>16, <1>17, <1>18, <1>19, <1>20, <1>21, <1>22, <1>23, <1>24,
       <1>25, <1>26, <1>27, <1>28, <1>29, <1>30, <1>31, <1>32, LeasedSteps
    DEF Next, ApiStep, QueueStep, WorkerStep, CommitStep, SubmissionFault

LEMMA SourceInvariance == ASSUME Leased PROVE Spec => []SourceOK
  <1>1. Init => SourceOK
    BY DEF Init, SourceOK, LeaseInv, SourceInv, ResolvedBeforeGraded
  <1>2. Inv /\ SourceOK /\ [Next]_vars => SourceOK'
    BY SourceStep
  <1>3. QED
    BY Invariance, <1>1, <1>2, PTL DEF Spec

\* Nothing is shown as evaluated before its source was resolved or given up,
\* on any attempt, whatever crashes, errors and commits come in between, as
\* long as no lock of a running call lapses.
THEOREM SourcesComeFirst == ASSUME Leased PROVE Spec => []ResolvedBeforeGraded
  <1>1. SourceOK => ResolvedBeforeGraded
    BY DEF SourceOK
  <1>2. QED
    BY SourceInvariance, <1>1, PTL

\* A call that is about to return has the row settled, and one that gives up
\* has too, unless the database failed it.
CallEndInv ==
    /\ \A w \in Slots : pc[w] # "idle" => (last[w] <=> made[sub[w]] + 1 >= MaxAttempts)
    /\ \A w \in Slots : pc[w] \in {"finishing", "ack"} => ~InFlight(sub[w])
    /\ \A w \in Slots : pc[w] = "rethrow" /\ last[w] => ~InFlight(sub[w]) \/ faults > 0

\* A job that is over leaves no row in flight, unless it was failed by a fault;
\* no row in flight is without a job, unless its handler knows or was hit.
JobEndInv ==
    \A s \in Submissions :
        /\ status[s] = "absent" => job[s] = "none"
        /\ job[s] = "completed" => ~InFlight(s)
        /\ job[s] = "failed" /\ InFlight(s) =>
              faults > 0 /\ (made[s] = MaxAttempts \/ stalls[s] > MaxStalls)
        /\ job[s] = "none" /\ InFlight(s) =>
              api[s] = "marking" \/ (api[s] \in {"crashed", "refused"} /\ faults > 0)
        /\ api[s] = "enqueueing" => job[s] # "none"
        /\ api[s] = "accepted" => job[s] # "buffered"
        /\ job[s] = "active" /\ lock[s] = None => faults > 0
        /\ api[s] \in {"marking", "refused", "crashed"} => faults > 0

EndInv == CallEndInv /\ JobEndInv

LEMMA TakeTellsLast ==
    ASSUME TypeOK, NEW w \in Slots, NEW s \in Submissions, Take(w, s)
    PROVE  last'[w] <=> made'[s] + 1 >= MaxAttempts
  <1>1. last'[w] = IsFinalAttempt(made[s])
    <2>1. last \in [Slots -> BOOLEAN] /\ last' = [last EXCEPT ![w] = IsFinalAttempt(made[s])]
      BY DEF TypeOK, Take
    <2>2. QED
      BY <2>1, Zenon
  <1>2. made' = made
    BY DEF Take
  <1>3. QED
    BY <1>1, <1>2 DEF IsFinalAttempt

LEMMA EndStep == ASSUME Leased, Inv, LeaseInv, EndInv, [Next]_vars PROVE EndInv'
  <1> USE PipelineAssumption DEF Inv, TypeOK, vars, rowVars, stageVars, jobVars, slotVars, reqVars,
        SlotInv, LockInv, AttemptInv, FreshInv, RequestInv, LeaseInv, EndInv, CallEndInv, JobEndInv,
        InFlight, JobState, SlotState, ApiState
  <1>1. ASSUME NEW s \in Submissions, CreateSubmission(s)
        PROVE  EndInv'
    BY <1>1 DEF CreateSubmission, EnqueueAfterCommit
  <1>2. ASSUME NEW s \in Submissions, Flush(s)
        PROVE  EndInv'
    BY <1>2 DEF Flush
  <1>3. ASSUME NEW s \in Submissions, EnqueueAcked(s)
        PROVE  EndInv'
    BY <1>3 DEF EnqueueAcked
  <1>4. ASSUME NEW s \in Submissions, EnqueueTimeout(s)
        PROVE  EndInv'
    BY <1>4 DEF EnqueueTimeout, Fault
  <1>5. ASSUME NEW s \in Submissions, EnqueueRejected(s)
        PROVE  EndInv'
    BY <1>5 DEF EnqueueRejected, Fault
  <1>6. ASSUME NEW s \in Submissions, MarkUnqueued(s)
        PROVE  EndInv'
    BY <1>6 DEF MarkUnqueued
  <1>7. ASSUME NEW s \in Submissions, MarkUnqueuedFails(s)
        PROVE  EndInv'
    BY <1>7 DEF MarkUnqueuedFails, Fault
  <1>8. ASSUME NEW w \in Slots, NEW s \in Submissions, Take(w, s)
        PROVE  EndInv'
    <2>1. last'[w] <=> made'[s] + 1 >= MaxAttempts
      BY <1>8, TakeTellsLast
    <2>2. /\ job[s] = "waiting" /\ job' = [job EXCEPT ![s] = "active"]
          /\ lock' = [lock EXCEPT ![s] = w]
          /\ pc[w] = "idle" /\ pc' = [pc EXCEPT ![w] = "load"]
          /\ sub' = [sub EXCEPT ![w] = s]
          /\ \A v \in Slots \ {w} : last'[v] = last[v]
          /\ UNCHANGED <<status, api, made, stalls, faults>>
      BY <1>8 DEF Take
    <2>3. CallEndInv'
      BY <2>1, <2>2
    <2>4. JobEndInv'
      BY <2>2
    <2>5. QED
      BY <2>3, <2>4
  <1>9. ASSUME NEW s \in Submissions, Promote(s)
        PROVE  EndInv'
    BY <1>9 DEF Promote
  <1>10. ASSUME NEW s \in Submissions, Stalled(s)
        PROVE  EndInv'
    BY <1>10 DEF Stalled
  <1>11. ASSUME NEW w \in Slots, Complete(w)
        PROVE  EndInv'
    BY <1>11 DEF Complete, Release
  <1>12. ASSUME NEW w \in Slots, Rethrow(w)
        PROVE  EndInv'
    BY <1>12 DEF Rethrow, Release, MayRetry
  <1>13. ASSUME NEW w \in Slots, Load(w)
        PROVE  EndInv'
    BY <1>13 DEF Load, Goto, Untouched, AfterLoad
  <1>14. ASSUME NEW w \in Slots, SetResolving(w)
        PROVE  EndInv'
    BY <1>14 DEF SetResolving, Goto, Untouched
  <1>15. ASSUME NEW w \in Slots, StartResolve(w)
        PROVE  EndInv'
    BY <1>15 DEF StartResolve, Goto, Untouched
  <1>16. ASSUME NEW w \in Slots, Resolve(w)
        PROVE  EndInv'
    BY <1>16 DEF Resolve, Goto, Untouched
  <1>17. ASSUME NEW w \in Slots, FinishResolve(w)
        PROVE  EndInv'
    BY <1>17 DEF FinishResolve, Goto, Untouched
  <1>18. ASSUME NEW w \in Slots, SetEvaluating(w)
        PROVE  EndInv'
    BY <1>18 DEF SetEvaluating, Goto, Untouched
  <1>19. ASSUME NEW w \in Slots, StartEvaluate(w)
        PROVE  EndInv'
    BY <1>19 DEF StartEvaluate, Goto, Untouched
  <1>20. ASSUME NEW w \in Slots, Judge(w)
        PROVE  EndInv'
    BY <1>20 DEF Judge, Goto, Untouched
  <1>21. ASSUME NEW w \in Slots, StoreVerdict(w)
        PROVE  EndInv'
    BY <1>21 DEF StoreVerdict, Goto, Untouched
  <1>22. ASSUME NEW w \in Slots, FinishEvaluate(w)
        PROVE  EndInv'
    BY <1>22 DEF FinishEvaluate, Goto, Untouched
  <1>23. ASSUME NEW w \in Slots, FailAttempt(w)
        PROVE  EndInv'
    BY <1>23 DEF FailAttempt, Goto, Untouched
  <1>24. ASSUME NEW w \in Slots, MarkFailed(w)
        PROVE  EndInv'
    BY <1>24 DEF MarkFailed, Goto, Untouched
  <1>25. ASSUME NEW w \in Slots, DbError(w)
        PROVE  EndInv'
    BY <1>25 DEF DbError, AfterDbError, Fault, Goto, Untouched
  <1>26. ASSUME NEW q \in Requests, NEW s \in Submissions,
                NEW g \in Gradations \cup {None}, CommitRead(q, s, g)
        PROVE  EndInv'
    BY <1>26 DEF CommitRead
  <1>27. ASSUME NEW q \in Requests, NEW s \in Submissions,
                NEW g \in Gradations \cup {None}, CommitRefused(q, s, g)
        PROVE  EndInv'
    BY <1>27 DEF CommitRefused
  <1>28. ASSUME NEW q \in Requests, ReadCard(q)
        PROVE  EndInv'
    BY <1>28 DEF ReadCard
  <1>29. ASSUME NEW q \in Requests, WriteCommit(q)
        PROVE  EndInv'
    BY <1>29 DEF WriteCommit
  <1>30. CASE ApiCrash
    BY <1>30 DEF ApiCrash, Fault
  <1>31. CASE WorkerCrash
    BY <1>31 DEF WorkerCrash, Fault
  <1>32. CASE UNCHANGED vars
    BY <1>32
  <1>33. QED
    BY <1>1, <1>2, <1>3, <1>4, <1>5, <1>6, <1>7, <1>8, <1>9, <1>10, <1>11, <1>12, <1>13,
       <1>14, <1>15, <1>16, <1>17, <1>18, <1>19, <1>20, <1>21, <1>22, <1>23, <1>24,
       <1>25, <1>26, <1>27, <1>28, <1>29, <1>30, <1>31, <1>32, LeasedSteps
    DEF Next, ApiStep, QueueStep, WorkerStep, CommitStep, SubmissionFault

\* A submission in flight with nobody to settle it was hit by a fault, and has
\* no job or one that BullMQ gave up: whatever crashes, errors, retries and
\* commits come in between, none is lost on the way, as long as no lock lapses.
THEOREM OnlyFaultsStrand == ASSUME Leased PROVE Spec => []StrandedIsGivenUp
  <1>1. Init => EndInv
    BY DEF Init, EndInv, CallEndInv, JobEndInv, InFlight
  <1>2. Inv /\ SourceOK /\ EndInv /\ [Next]_vars => EndInv'
    BY EndStep DEF SourceOK
  <1>3. Inv /\ EndInv => StrandedIsGivenUp
    BY DEF Inv, TypeOK, JobState, EndInv, JobEndInv, StrandedIsGivenUp, Attended
  <1>4. QED
    BY Invariance, SourceInvariance, <1>1, <1>2, <1>3, PTL DEF Spec

-----------------------------------------------------------------------------
(* No review is lost, whatever fails, when commits come one at a time. *)

\* A client has one commit in flight.
Serial == ~ConcurrentCommit

InFlightCommit(q) == rpc[q] \in {"readCard", "write"}

\* The commit about to write knows the card as it is, and is alone.
OneInv ==
    /\ \A q, r \in Requests : InFlightCommit(q) /\ InFlightCommit(r) => q = r
    /\ \A q \in Requests : rpc[q] = "write" => seen[q] = card[ProblemOf[rsub[q]]]

LEMMA OneStep == ASSUME Serial, Inv, OneInv, [Next]_vars PROVE OneInv'
  <1> USE PipelineAssumption DEF Inv, TypeOK, vars, rowVars, stageVars, jobVars, slotVars, reqVars,
        RequestInv, Serial, OneInv, InFlightCommit
  <1>1. ASSUME NEW s \in Submissions, CreateSubmission(s)
        PROVE  OneInv'
    BY <1>1 DEF CreateSubmission, EnqueueAfterCommit
  <1>2. ASSUME NEW s \in Submissions, Flush(s)
        PROVE  OneInv'
    BY <1>2 DEF Flush
  <1>3. ASSUME NEW s \in Submissions, EnqueueAcked(s)
        PROVE  OneInv'
    BY <1>3 DEF EnqueueAcked
  <1>4. ASSUME NEW s \in Submissions, EnqueueTimeout(s)
        PROVE  OneInv'
    BY <1>4 DEF EnqueueTimeout, Fault
  <1>5. ASSUME NEW s \in Submissions, EnqueueRejected(s)
        PROVE  OneInv'
    BY <1>5 DEF EnqueueRejected, Fault
  <1>6. ASSUME NEW s \in Submissions, MarkUnqueued(s)
        PROVE  OneInv'
    BY <1>6 DEF MarkUnqueued
  <1>7. ASSUME NEW s \in Submissions, MarkUnqueuedFails(s)
        PROVE  OneInv'
    BY <1>7 DEF MarkUnqueuedFails, Fault
  <1>8. ASSUME NEW w \in Slots, NEW s \in Submissions, Take(w, s)
        PROVE  OneInv'
    BY <1>8 DEF Take, IsFinalAttempt
  <1>9. ASSUME NEW s \in Submissions, Promote(s)
        PROVE  OneInv'
    BY <1>9 DEF Promote
  <1>10. ASSUME NEW s \in Submissions, Stalled(s)
        PROVE  OneInv'
    BY <1>10 DEF Stalled
  <1>11. ASSUME NEW w \in Slots, Complete(w)
        PROVE  OneInv'
    BY <1>11 DEF Complete
  <1>12. ASSUME NEW w \in Slots, Rethrow(w)
        PROVE  OneInv'
    BY <1>12 DEF Rethrow
  <1>13. ASSUME NEW w \in Slots, Load(w)
        PROVE  OneInv'
    BY <1>13 DEF Load, Goto, Untouched, AfterLoad
  <1>14. ASSUME NEW w \in Slots, SetResolving(w)
        PROVE  OneInv'
    BY <1>14 DEF SetResolving, Untouched
  <1>15. ASSUME NEW w \in Slots, StartResolve(w)
        PROVE  OneInv'
    BY <1>15 DEF StartResolve, Untouched
  <1>16. ASSUME NEW w \in Slots, Resolve(w)
        PROVE  OneInv'
    BY <1>16 DEF Resolve, Untouched
  <1>17. ASSUME NEW w \in Slots, FinishResolve(w)
        PROVE  OneInv'
    BY <1>17 DEF FinishResolve, Untouched
  <1>18. ASSUME NEW w \in Slots, SetEvaluating(w)
        PROVE  OneInv'
    BY <1>18 DEF SetEvaluating, Untouched
  <1>19. ASSUME NEW w \in Slots, StartEvaluate(w)
        PROVE  OneInv'
    BY <1>19 DEF StartEvaluate, Untouched
  <1>20. ASSUME NEW w \in Slots, Judge(w)
        PROVE  OneInv'
    BY <1>20 DEF Judge, Untouched
  <1>21. ASSUME NEW w \in Slots, StoreVerdict(w)
        PROVE  OneInv'
    BY <1>21 DEF StoreVerdict, Untouched
  <1>22. ASSUME NEW w \in Slots, FinishEvaluate(w)
        PROVE  OneInv'
    BY <1>22 DEF FinishEvaluate, Untouched
  <1>23. ASSUME NEW w \in Slots, FailAttempt(w)
        PROVE  OneInv'
    BY <1>23 DEF FailAttempt, Untouched
  <1>24. ASSUME NEW w \in Slots, MarkFailed(w)
        PROVE  OneInv'
    BY <1>24 DEF MarkFailed, Untouched
  <1>25. ASSUME NEW w \in Slots, DbError(w)
        PROVE  OneInv'
    BY <1>25 DEF DbError, AfterDbError, Fault, Untouched
  <1>26. ASSUME NEW q \in Requests, NEW s \in Submissions,
                NEW g \in Gradations \cup {None}, CommitRead(q, s, g)
        PROVE  OneInv'
    BY <1>26 DEF CommitRead, ClientMaySend
  <1>27. ASSUME NEW q \in Requests, NEW s \in Submissions,
                NEW g \in Gradations \cup {None}, CommitRefused(q, s, g)
        PROVE  OneInv'
    BY <1>27 DEF CommitRefused
  <1>28. ASSUME NEW q \in Requests, ReadCard(q)
        PROVE  OneInv'
    BY <1>28 DEF ReadCard
  <1>29. ASSUME NEW q \in Requests, WriteCommit(q)
        PROVE  OneInv'
    BY <1>29 DEF WriteCommit
  <1>30. CASE ApiCrash
    BY <1>30 DEF ApiCrash
  <1>31. CASE WorkerCrash
    BY <1>31 DEF WorkerCrash
  <1>32. ASSUME NEW s \in Submissions, LockLapse(s)
         PROVE  OneInv'
    BY <1>32 DEF LockLapse
  <1>33. CASE UNCHANGED vars
    BY <1>33
  <1>34. QED
    BY <1>1, <1>2, <1>3, <1>4, <1>5, <1>6, <1>7, <1>8, <1>9, <1>10, <1>11, <1>12, <1>13,
       <1>14, <1>15, <1>16, <1>17, <1>18, <1>19, <1>20, <1>21, <1>22, <1>23, <1>24,
       <1>25, <1>26, <1>27, <1>28, <1>29, <1>30, <1>31, <1>32, <1>33
    DEF Next, ApiStep, QueueStep, WorkerStep, CommitStep, SubmissionFault

\* The submissions of a problem with a final gradation.
Reviewed(p) == {s \in Submissions : ProblemOf[s] = p /\ finalGrade[s] # None}

\* Only the transaction of a commit writes final gradations and cards.
LEMMA OnlyCommitsReview ==
    ASSUME [Next]_vars
    PROVE  UNCHANGED <<finalGrade, card>> \/ \E q \in Requests : WriteCommit(q)
  <1> USE DEF vars, rowVars
  <1>1. CASE UNCHANGED vars
    BY <1>1
  <1>2. CASE Next
    <2>1. ASSUME NEW s \in Submissions,
                 CreateSubmission(s) \/ ApiStep(s) \/ QueueStep(s) \/ SubmissionFault(s)
          PROVE  UNCHANGED <<finalGrade, card>>
      BY <2>1 DEF CreateSubmission, ApiStep, EnqueueAcked, MarkUnqueued, QueueStep, Flush,
                  Promote, Stalled, SubmissionFault, EnqueueTimeout, EnqueueRejected,
                  MarkUnqueuedFails, LockLapse
    <2>2. ASSUME NEW s \in Submissions, NEW w \in Slots, Take(w, s)
          PROVE  UNCHANGED <<finalGrade, card>>
      BY <2>2 DEF Take
    <2>3. ASSUME NEW s \in Submissions, NEW q \in Requests, NEW g \in Gradations \cup {None},
                 CommitRead(q, s, g) \/ CommitRefused(q, s, g)
          PROVE  UNCHANGED <<finalGrade, card>>
      BY <2>3 DEF CommitRead, CommitRefused
    <2>4. ASSUME NEW w \in Slots, WorkerStep(w) \/ DbError(w)
          PROVE  UNCHANGED <<finalGrade, card>>
      BY <2>4 DEF WorkerStep, Load, SetResolving, StartResolve, Resolve, FinishResolve,
                  SetEvaluating, StartEvaluate, Judge, StoreVerdict, FinishEvaluate, FailAttempt,
                  MarkFailed, Complete, Rethrow, DbError, Untouched
    <2>5. ASSUME NEW q \in Requests, ReadCard(q)
          PROVE  UNCHANGED <<finalGrade, card>>
      BY <2>5 DEF ReadCard
    <2>6. CASE ApiCrash \/ WorkerCrash
      BY <2>6 DEF ApiCrash, WorkerCrash
    <2>7. QED
      BY <1>2, <2>1, <2>2, <2>3, <2>4, <2>5, <2>6 DEF Next, CommitStep
  <1>3. QED
    BY <1>1, <1>2

\* What the transaction does to the row and the card it was sent for.
LEMMA CommitCounts ==
    ASSUME Inv, OneInv, NEW q \in Requests, WriteCommit(q)
    PROVE  /\ rsub[q] \in Submissions /\ chosen[q] \in Gradations
           /\ card' = [card EXCEPT ![ProblemOf[rsub[q]]] = @ + 1]
           /\ finalGrade' = [finalGrade EXCEPT ![rsub[q]] = chosen[q]]
  <1>1. /\ rsub[q] \in Submissions /\ chosen[q] \in Gradations
        /\ seen[q] = card[ProblemOf[rsub[q]]]
    BY DEF Inv, TypeOK, RequestInv, OneInv, WriteCommit
  <1>2. QED
    BY <1>1 DEF WriteCommit, NextCard

KeptInv == \A p \in Problems :
                IsFiniteSet(Reviewed(p)) /\ Cardinality(Reviewed(p)) <= card[p]

LEMMA KeptStep == ASSUME Inv, OneInv, KeptInv, [Next]_vars PROVE KeptInv'
  <1>1. CASE UNCHANGED <<finalGrade, card>>
    BY <1>1 DEF KeptInv, Reviewed
  <1>2. ASSUME NEW q \in Requests, WriteCommit(q) PROVE KeptInv'
    <2> DEFINE s == rsub[q]
    <2>1. /\ s \in Submissions /\ ProblemOf[s] \in Problems /\ chosen[q] # None
          /\ card' = [card EXCEPT ![ProblemOf[s]] = @ + 1]
          /\ finalGrade' = [finalGrade EXCEPT ![s] = chosen[q]]
          /\ card \in [Problems -> Nat] /\ finalGrade \in [Submissions -> Gradations \cup {None}]
      BY <1>2, CommitCounts, PipelineAssumption DEF Inv, TypeOK
    <2> HIDE DEF s
    <2> SUFFICES ASSUME NEW p \in Problems
                 PROVE  IsFiniteSet(Reviewed(p)') /\ Cardinality(Reviewed(p)') <= card'[p]
      BY DEF KeptInv
    <2>2. IsFiniteSet(Reviewed(p)) /\ Cardinality(Reviewed(p)) <= card[p]
      BY DEF KeptInv
    <2>3. CASE p = ProblemOf[s]
      <3>1. Reviewed(p)' = Reviewed(p) \cup {s}
        BY <2>1, <2>3 DEF Reviewed
      <3>2. /\ IsFiniteSet(Reviewed(p) \cup {s})
            /\ Cardinality(Reviewed(p) \cup {s}) \in
                  {Cardinality(Reviewed(p)), Cardinality(Reviewed(p)) + 1}
        BY <2>2, FS_AddElement
      <3>3. card'[p] = card[p] + 1 /\ card[p] \in Nat
        BY <2>1, <2>3
      <3>4. Cardinality(Reviewed(p)) \in Nat
        BY <2>2, FS_CardinalityType
      <3>5. QED
        BY <2>2, <3>1, <3>2, <3>3, <3>4
    <2>4. CASE p # ProblemOf[s]
      <3>1. Reviewed(p)' = Reviewed(p)
        BY <2>1, <2>4 DEF Reviewed
      <3>2. card'[p] = card[p]
        BY <2>1, <2>4
      <3>3. QED
        BY <2>2, <3>1, <3>2
    <2>5. QED
      BY <2>3, <2>4
  <1>3. QED
    BY <1>1, <1>2, OnlyCommitsReview

LEMMA OneInvariance == ASSUME Serial PROVE Spec => []OneInv
  <1>1. Init => OneInv
    BY DEF Init, OneInv, InFlightCommit
  <1>2. Inv /\ OneInv /\ [Next]_vars => OneInv'
    BY OneStep
  <1>3. QED
    BY Invariance, <1>1, <1>2, PTL DEF Spec

\* The review card counts no fewer reviews than there are submissions with a
\* final gradation.
NoReviewLost == \A p \in Problems : Cardinality(Reviewed(p)) <= card[p]

\* The commits of a client that sends them one at a time are all counted, on
\* however many submissions, whenever they are sent and whatever fails.
THEOREM NoReviewIsLost == ASSUME Serial PROVE Spec => []NoReviewLost
  <1>1. Init => KeptInv
    <2> SUFFICES ASSUME Init, NEW p \in Problems
                 PROVE  IsFiniteSet(Reviewed(p)) /\ Cardinality(Reviewed(p)) <= card[p]
      BY DEF KeptInv
    <2>1. Reviewed(p) = {} /\ card[p] = 0
      BY DEF Init, Reviewed
    <2>2. QED
      BY <2>1, FS_EmptySet
  <1>2. Inv /\ OneInv /\ KeptInv /\ [Next]_vars => KeptInv'
    BY KeptStep
  <1>3. KeptInv => NoReviewLost
    BY DEF KeptInv, NoReviewLost
  <1>4. QED
    BY Invariance, OneInvariance, <1>1, <1>2, <1>3, PTL DEF Spec

-----------------------------------------------------------------------------
(* The worker keeps its locks and its database, and clients wait. *)

\* Of the faults, the API may die at any point, and Redis may refuse a job.
Calm == Faults \subseteq {"api-crash", "enqueue-error"} /\ ~EarlyCommit /\ ~ConcurrentCommit

\* The steps there are then.
QuietNext ==
    \/ ApiCrash
    \/ \E s \in Submissions : \/ CreateSubmission(s) \/ ApiStep(s) \/ QueueStep(s)
                              \/ EnqueueRejected(s)
                              \/ \E w \in Slots : Take(w, s)
                              \/ \E q \in Requests, g \in Gradations \cup {None} :
                                    CommitRead(q, s, g) \/ CommitRefused(q, s, g)
    \/ \E w \in Slots : WorkerStep(w)
    \/ \E q \in Requests : CommitStep(q)

LEMMA CalmSteps == ASSUME Calm, Next PROVE QuietNext
  BY DEF Calm, Next, QuietNext, SubmissionFault, EnqueueTimeout, MarkUnqueuedFails, LockLapse,
         DbError, WorkerCrash, Fault

\* A busy slot holds the lock of its submission, and an active job has a holder.
HolderInv ==
    /\ \A w \in Slots : pc[w] # "idle" => lock[sub[w]] = w
    /\ \A s \in Submissions : job[s] = "active" => lock[s] # None

\* Steps of a processor call that may still settle the row.
Working == {"load", "resolving", "startResolve", "resolve", "resolved", "unresolved",
            "evaluating", "startEval", "judging", "storing", "caught", "marking"}

\* An open submission: not yet graded, given up or committed.
Open(s) == InFlight(s) /\ aiGrade[s] = None

\* A job that runs, or will, is about an open submission, until the call has
\* stored its verdict or the last attempt gave up; so is a handler that is to
\* say that there is no job.
OpenInv ==
    /\ \A s \in Submissions : api[s] = "marking" => job[s] = "none" /\ Open(s)
    /\ \A s \in Submissions : status[s] = "absent" => job[s] = "none" /\ aiGrade[s] = None
    /\ \A s \in Submissions : job[s] \in {"buffered", "waiting", "delayed"} => Open(s)
    /\ \A w \in Slots : pc[w] \in Working => Open(sub[w])
    /\ \A w \in Slots : pc[w] = "rethrow" => last[w] \/ Open(sub[w])
    /\ \A w \in Slots : pc[w] # "idle" => (last[w] <=> made[sub[w]] + 1 >= MaxAttempts)

\* The commit in flight is about a graded or failed submission, and about its
\* gradation as it is.
CommitInv ==
    \A q \in Requests : InFlightCommit(q) =>
        /\ status[rsub[q]] \in {"awaiting-review", "failed"}
        /\ differs[q] <=> chosen[q] # aiGrade[rsub[q]]

\* The gradations of a row follow its status.
GradesInv ==
    \A s \in Submissions :
        /\ finalGrade[s] # None <=> status[s] = "committed"
        /\ aiGrade[s] # None => status[s] \in {"awaiting-review", "committed"}

CalmInv == /\ Inv /\ HolderInv /\ OpenInv /\ OneInv /\ CommitInv /\ GradesInv
           /\ OverrideIsHonest

\* Slots and locks agree.
LEMMA HolderStep == ASSUME Calm, CalmInv, [Next]_vars PROVE HolderInv'
  <1> USE PipelineAssumption DEF CalmInv, Inv, TypeOK, vars, rowVars, stageVars, jobVars, slotVars, reqVars,
        SlotInv, LockInv, AttemptInv, FreshInv, HolderInv
  <1>1. ASSUME NEW s \in Submissions, CreateSubmission(s)
        PROVE  HolderInv'
    BY <1>1 DEF CreateSubmission, EnqueueAfterCommit
  <1>2. ASSUME NEW s \in Submissions, Flush(s)
        PROVE  HolderInv'
    BY <1>2 DEF Flush
  <1>3. ASSUME NEW s \in Submissions, EnqueueAcked(s)
        PROVE  HolderInv'
    BY <1>3 DEF EnqueueAcked
  <1>4. ASSUME NEW s \in Submissions, MarkUnqueued(s)
        PROVE  HolderInv'
    BY <1>4 DEF MarkUnqueued
  <1>5. ASSUME NEW w \in Slots, NEW s \in Submissions, Take(w, s)
        PROVE  HolderInv'
    BY <1>5 DEF Take, IsFinalAttempt
  <1>6. ASSUME NEW s \in Submissions, Promote(s)
        PROVE  HolderInv'
    BY <1>6 DEF Promote
  <1>7. ASSUME NEW s \in Submissions, Stalled(s)
        PROVE  HolderInv'
    BY <1>7 DEF Stalled
  <1>8. ASSUME NEW w \in Slots, Complete(w)
        PROVE  HolderInv'
    BY <1>8 DEF Complete, Release
  <1>9. ASSUME NEW w \in Slots, Rethrow(w)
        PROVE  HolderInv'
    BY <1>9 DEF Rethrow, Release, MayRetry
  <1>10. ASSUME NEW w \in Slots, Load(w)
        PROVE  HolderInv'
    BY <1>10 DEF Load, Goto, Untouched, AfterLoad
  <1>11. ASSUME NEW w \in Slots, SetResolving(w)
        PROVE  HolderInv'
    BY <1>11 DEF SetResolving, Goto, Untouched
  <1>12. ASSUME NEW w \in Slots, StartResolve(w)
        PROVE  HolderInv'
    BY <1>12 DEF StartResolve, Goto, Untouched
  <1>13. ASSUME NEW w \in Slots, Resolve(w)
        PROVE  HolderInv'
    BY <1>13 DEF Resolve, Goto, Untouched
  <1>14. ASSUME NEW w \in Slots, FinishResolve(w)
        PROVE  HolderInv'
    BY <1>14 DEF FinishResolve, Goto, Untouched
  <1>15. ASSUME NEW w \in Slots, SetEvaluating(w)
        PROVE  HolderInv'
    BY <1>15 DEF SetEvaluating, Goto, Untouched
  <1>16. ASSUME NEW w \in Slots, StartEvaluate(w)
        PROVE  HolderInv'
    BY <1>16 DEF StartEvaluate, Goto, Untouched
  <1>17. ASSUME NEW w \in Slots, Judge(w)
        PROVE  HolderInv'
    BY <1>17 DEF Judge, Goto, Untouched
  <1>18. ASSUME NEW w \in Slots, StoreVerdict(w)
        PROVE  HolderInv'
    BY <1>18 DEF StoreVerdict, Goto, Untouched
  <1>19. ASSUME NEW w \in Slots, FinishEvaluate(w)
        PROVE  HolderInv'
    BY <1>19 DEF FinishEvaluate, Goto, Untouched
  <1>20. ASSUME NEW w \in Slots, FailAttempt(w)
        PROVE  HolderInv'
    BY <1>20 DEF FailAttempt, Goto, Untouched
  <1>21. ASSUME NEW w \in Slots, MarkFailed(w)
        PROVE  HolderInv'
    BY <1>21 DEF MarkFailed, Goto, Untouched
  <1>22. ASSUME NEW q \in Requests, NEW s \in Submissions,
                NEW g \in Gradations \cup {None}, CommitRead(q, s, g)
        PROVE  HolderInv'
    BY <1>22 DEF CommitRead, FinalGradation, Overridden, Refuses, ClientMaySend
  <1>23. ASSUME NEW q \in Requests, NEW s \in Submissions,
                NEW g \in Gradations \cup {None}, CommitRefused(q, s, g)
        PROVE  HolderInv'
    BY <1>23 DEF CommitRefused, FinalGradation, Refuses
  <1>24. ASSUME NEW q \in Requests, ReadCard(q)
        PROVE  HolderInv'
    BY <1>24 DEF ReadCard
  <1>25. ASSUME NEW q \in Requests, WriteCommit(q)
        PROVE  HolderInv'
    BY <1>25 DEF WriteCommit, NextCard
  <1>26. ASSUME NEW s \in Submissions, EnqueueRejected(s)
        PROVE  HolderInv'
    BY <1>26 DEF EnqueueRejected, Fault
  <1>27. CASE ApiCrash
    BY <1>27 DEF ApiCrash, Fault
  <1>28. CASE UNCHANGED vars
    BY <1>28
  <1>29. QED
    BY <1>1, <1>2, <1>3, <1>4, <1>5, <1>6, <1>7, <1>8, <1>9, <1>10, <1>11, <1>12, <1>13, <1>14, <1>15, <1>16, <1>17, <1>18, <1>19, <1>20, <1>21, <1>22, <1>23, <1>24, <1>25, <1>26, <1>27, <1>28, CalmSteps 
    DEF QuietNext, ApiStep, QueueStep, WorkerStep, CommitStep

\* A call that gives its job back leaves it to be retried only if it was open.
LEMMA RethrowEnds ==
    ASSUME TypeOK, NEW w \in Slots, Rethrow(w), sub[w] \in Submissions, lock[sub[w]] = w,
           last[w] \/ Open(sub[w]), last[w] <=> made[sub[w]] + 1 >= MaxAttempts
    PROVE  \A s \in Submissions :
              \/ job'[s] = job[s]
              \/ s = sub[w] /\ job'[s] = "failed"
              \/ s = sub[w] /\ job'[s] = "delayed" /\ Open(s)
  <1>1. job' = [job EXCEPT ![sub[w]] = IF made[sub[w]] + 1 < MaxAttempts
                                       THEN "delayed" ELSE "failed"]
    BY DEF Rethrow, MayRetry
  <1>2. made[sub[w]] \in Nat /\ MaxAttempts \in Nat /\ job \in [Submissions -> JobState]
    BY PipelineAssumption DEF TypeOK
  <1>3. made[sub[w]] + 1 < MaxAttempts => Open(sub[w])
    BY <1>2
  <1>4. QED
    BY <1>1, <1>2, <1>3

\* Only open submissions are worked on.
LEMMA OpenStep == ASSUME Calm, CalmInv, [Next]_vars PROVE OpenInv'
  <1> USE PipelineAssumption DEF CalmInv, Inv, TypeOK, vars, rowVars, stageVars, jobVars, slotVars, reqVars,
        SlotInv, LockInv, AttemptInv, FreshInv, HolderInv, OpenInv, Open, InFlight,
        Working, OneInv, CommitInv, InFlightCommit, SlotState, JobState
  <1>1. ASSUME NEW s \in Submissions, CreateSubmission(s)
        PROVE  OpenInv'
    BY <1>1 DEF CreateSubmission, EnqueueAfterCommit
  <1>2. ASSUME NEW s \in Submissions, Flush(s)
        PROVE  OpenInv'
    BY <1>2 DEF Flush
  <1>3. ASSUME NEW s \in Submissions, EnqueueAcked(s)
        PROVE  OpenInv'
    BY <1>3 DEF EnqueueAcked
  <1>4. ASSUME NEW s \in Submissions, MarkUnqueued(s)
        PROVE  OpenInv'
    BY <1>4 DEF MarkUnqueued
  <1>5. ASSUME NEW w \in Slots, NEW s \in Submissions, Take(w, s)
        PROVE  OpenInv'
    <2>1. last'[w] <=> made'[s] + 1 >= MaxAttempts
      BY <1>5, TakeTellsLast
    <2>2. /\ job[s] = "waiting" /\ job' = [job EXCEPT ![s] = "active"]
          /\ pc[w] = "idle" /\ pc' = [pc EXCEPT ![w] = "load"]
          /\ sub' = [sub EXCEPT ![w] = s]
          /\ \A v \in Slots \ {w} : last'[v] = last[v]
          /\ UNCHANGED <<status, aiGrade, api, made>>
      BY <1>5 DEF Take
    <2>3. QED
      BY <2>1, <2>2
  <1>6. ASSUME NEW s \in Submissions, Promote(s)
        PROVE  OpenInv'
    BY <1>6 DEF Promote
  <1>7. ASSUME NEW s \in Submissions, Stalled(s)
        PROVE  OpenInv'
    BY <1>7 DEF Stalled
  <1>8. ASSUME NEW w \in Slots, Complete(w)
        PROVE  OpenInv'
    BY <1>8 DEF Complete, Release
  <1>9. ASSUME NEW w \in Slots, Rethrow(w)
        PROVE  OpenInv'
    <2> DEFINE r == sub[w]
    <2>1. /\ r \in Submissions /\ lock[r] = w /\ job[r] = "active"
          /\ \A v \in Slots \ {w} : pc[v] # "idle" => sub[v] # r
          /\ last[w] \/ Open(r)
          /\ last[w] <=> made[r] + 1 >= MaxAttempts
      BY <1>9 DEF Rethrow
    <2>2. /\ made' = [made EXCEPT ![r] = @ + 1]
          /\ job' = [job EXCEPT ![r] = IF made[r] + 1 < MaxAttempts THEN "delayed" ELSE "failed"]
          /\ pc' = [pc EXCEPT ![w] = "idle"] /\ sub' = [sub EXCEPT ![w] = None]
          /\ \A v \in Slots \ {w} : last'[v] = last[v]
          /\ UNCHANGED <<status, aiGrade, api>>
      BY <1>9, <2>1 DEF Rethrow, Release, MayRetry
    <2>3. \A v \in Slots : pc'[v] # "idle" =>
             /\ v # w /\ pc'[v] = pc[v] /\ sub'[v] = sub[v] /\ last'[v] = last[v]
             /\ made'[sub[v]] = made[sub[v]]
      <3> SUFFICES ASSUME NEW v \in Slots, pc'[v] # "idle"
                   PROVE  /\ v # w /\ pc'[v] = pc[v] /\ sub'[v] = sub[v] /\ last'[v] = last[v]
                          /\ made'[sub[v]] = made[sub[v]]
        OBVIOUS
      <3>1. v # w /\ pc'[v] = pc[v] /\ sub'[v] = sub[v] /\ sub[v] \in Submissions
        BY <2>2
      <3>2. last'[v] = last[v]
        BY <2>2, <3>1
      <3>3. QED
        BY <2>1, <2>2, <3>1, <3>2
    <2>4. \A s \in Submissions : Open(s)' <=> Open(s)
      BY <2>2
    <2>5. \A s \in Submissions : \/ job'[s] = job[s]
                                 \/ s = r /\ job'[s] = "failed"
                                 \/ s = r /\ job'[s] = "delayed" /\ Open(s)
      <3> HIDE DEF Open
      <3>1. QED
        BY <1>9, <2>1, RethrowEnds
    <2> HIDE DEF Open, r
    <2>6. QED
      BY <2>1, <2>2, <2>3, <2>4, <2>5
  <1>10. ASSUME NEW w \in Slots, Load(w)
        PROVE  OpenInv'
    BY <1>10 DEF Load, Goto, Untouched, AfterLoad
  <1>11. ASSUME NEW w \in Slots, SetResolving(w)
        PROVE  OpenInv'
    BY <1>11 DEF SetResolving, Goto, Untouched
  <1>12. ASSUME NEW w \in Slots, StartResolve(w)
        PROVE  OpenInv'
    BY <1>12 DEF StartResolve, Goto, Untouched
  <1>13. ASSUME NEW w \in Slots, Resolve(w)
        PROVE  OpenInv'
    BY <1>13 DEF Resolve, Goto, Untouched
  <1>14. ASSUME NEW w \in Slots, FinishResolve(w)
        PROVE  OpenInv'
    BY <1>14 DEF FinishResolve, Goto, Untouched
  <1>15. ASSUME NEW w \in Slots, SetEvaluating(w)
        PROVE  OpenInv'
    BY <1>15 DEF SetEvaluating, Goto, Untouched
  <1>16. ASSUME NEW w \in Slots, StartEvaluate(w)
        PROVE  OpenInv'
    BY <1>16 DEF StartEvaluate, Goto, Untouched
  <1>17. ASSUME NEW w \in Slots, Judge(w)
        PROVE  OpenInv'
    BY <1>17 DEF Judge, Goto, Untouched
  <1>18. ASSUME NEW w \in Slots, StoreVerdict(w)
        PROVE  OpenInv'
    BY <1>18 DEF StoreVerdict, Goto, Untouched
  <1>19. ASSUME NEW w \in Slots, FinishEvaluate(w)
        PROVE  OpenInv'
    BY <1>19 DEF FinishEvaluate, Goto, Untouched
  <1>20. ASSUME NEW w \in Slots, FailAttempt(w)
        PROVE  OpenInv'
    BY <1>20 DEF FailAttempt, Goto, Untouched
  <1>21. ASSUME NEW w \in Slots, MarkFailed(w)
        PROVE  OpenInv'
    BY <1>21 DEF MarkFailed, Goto, Untouched
  <1>22. ASSUME NEW q \in Requests, NEW s \in Submissions,
                NEW g \in Gradations \cup {None}, CommitRead(q, s, g)
        PROVE  OpenInv'
    BY <1>22 DEF CommitRead, FinalGradation, Overridden, Refuses, ClientMaySend
  <1>23. ASSUME NEW q \in Requests, NEW s \in Submissions,
                NEW g \in Gradations \cup {None}, CommitRefused(q, s, g)
        PROVE  OpenInv'
    BY <1>23 DEF CommitRefused, FinalGradation, Refuses
  <1>24. ASSUME NEW q \in Requests, ReadCard(q)
        PROVE  OpenInv'
    BY <1>24 DEF ReadCard
  <1>25. ASSUME NEW q \in Requests, WriteCommit(q)
        PROVE  OpenInv'
    <2>1. rsub[q] \in Submissions /\ status[rsub[q]] \in {"awaiting-review", "failed"}
      BY <1>25 DEF WriteCommit, RequestInv
    <2>2. /\ status' = [status EXCEPT ![rsub[q]] = "committed"]
          /\ UNCHANGED <<aiGrade, api, job, made, pc, sub, last>>
      BY <1>25 DEF WriteCommit
    <2>3. \A s \in Submissions : Open(s) => Open(s)'
      BY <2>1, <2>2
    <2>4. \A s \in Submissions : status'[s] = "absent" => status[s] = "absent"
      BY <2>2
    <2> HIDE DEF Open
    <2>5. QED
      BY <2>2, <2>3, <2>4
  <1>26. ASSUME NEW s \in Submissions, EnqueueRejected(s)
        PROVE  OpenInv'
    BY <1>26 DEF EnqueueRejected, Fault
  <1>27. CASE ApiCrash
    BY <1>27 DEF ApiCrash, Fault
  <1>28. CASE UNCHANGED vars
    BY <1>28
  <1>29. QED
    BY <1>1, <1>2, <1>3, <1>4, <1>5, <1>6, <1>7, <1>8, <1>9, <1>10, <1>11, <1>12, <1>13, <1>14, <1>15, <1>16, <1>17, <1>18, <1>19, <1>20, <1>21, <1>22, <1>23, <1>24, <1>25, <1>26, <1>27, <1>28, CalmSteps 
    DEF QuietNext, ApiStep, QueueStep, WorkerStep, CommitStep

\* No step spoils the commit in flight, or a row's gradations.
LEMMA CommitStepInv ==
    ASSUME Calm, CalmInv, [Next]_vars PROVE (CommitInv /\ GradesInv /\ OverrideIsHonest)'
  <1> USE PipelineAssumption DEF CalmInv, Inv, TypeOK, vars, rowVars, stageVars, jobVars, slotVars, reqVars,
        SlotInv, LockInv, AttemptInv, FreshInv, HolderInv, OpenInv, Open, InFlight,
        Working, OneInv, CommitInv, InFlightCommit, GradesInv, OverrideIsHonest, RequestInv,
        VerdictInv, GradedInv, Calm
  <1>1. ASSUME NEW s \in Submissions, CreateSubmission(s)
        PROVE  (CommitInv /\ GradesInv /\ OverrideIsHonest)'
    BY <1>1 DEF CreateSubmission, EnqueueAfterCommit
  <1>2. ASSUME NEW s \in Submissions, Flush(s)
        PROVE  (CommitInv /\ GradesInv /\ OverrideIsHonest)'
    BY <1>2 DEF Flush
  <1>3. ASSUME NEW s \in Submissions, EnqueueAcked(s)
        PROVE  (CommitInv /\ GradesInv /\ OverrideIsHonest)'
    BY <1>3 DEF EnqueueAcked
  <1>4. ASSUME NEW s \in Submissions, MarkUnqueued(s)
        PROVE  (CommitInv /\ GradesInv /\ OverrideIsHonest)'
    BY <1>4 DEF MarkUnqueued
  <1>5. ASSUME NEW w \in Slots, NEW s \in Submissions, Take(w, s)
        PROVE  (CommitInv /\ GradesInv /\ OverrideIsHonest)'
    BY <1>5 DEF Take, IsFinalAttempt
  <1>6. ASSUME NEW s \in Submissions, Promote(s)
        PROVE  (CommitInv /\ GradesInv /\ OverrideIsHonest)'
    BY <1>6 DEF Promote
  <1>7. ASSUME NEW s \in Submissions, Stalled(s)
        PROVE  (CommitInv /\ GradesInv /\ OverrideIsHonest)'
    BY <1>7 DEF Stalled
  <1>8. ASSUME NEW w \in Slots, Complete(w)
        PROVE  (CommitInv /\ GradesInv /\ OverrideIsHonest)'
    BY <1>8 DEF Complete, Release
  <1>9. ASSUME NEW w \in Slots, Rethrow(w)
        PROVE  (CommitInv /\ GradesInv /\ OverrideIsHonest)'
    BY <1>9 DEF Rethrow, Release, MayRetry
  <1>10. ASSUME NEW w \in Slots, Load(w)
        PROVE  (CommitInv /\ GradesInv /\ OverrideIsHonest)'
    BY <1>10 DEF Load, Goto, Untouched, AfterLoad
  <1>11. ASSUME NEW w \in Slots, SetResolving(w)
        PROVE  (CommitInv /\ GradesInv /\ OverrideIsHonest)'
    BY <1>11 DEF SetResolving, Goto, Untouched
  <1>12. ASSUME NEW w \in Slots, StartResolve(w)
        PROVE  (CommitInv /\ GradesInv /\ OverrideIsHonest)'
    BY <1>12 DEF StartResolve, Goto, Untouched
  <1>13. ASSUME NEW w \in Slots, Resolve(w)
        PROVE  (CommitInv /\ GradesInv /\ OverrideIsHonest)'
    BY <1>13 DEF Resolve, Goto, Untouched
  <1>14. ASSUME NEW w \in Slots, FinishResolve(w)
        PROVE  (CommitInv /\ GradesInv /\ OverrideIsHonest)'
    BY <1>14 DEF FinishResolve, Goto, Untouched
  <1>15. ASSUME NEW w \in Slots, SetEvaluating(w)
        PROVE  (CommitInv /\ GradesInv /\ OverrideIsHonest)'
    BY <1>15, SMTT(30) DEF SetEvaluating, Goto, Untouched
  <1>16. ASSUME NEW w \in Slots, StartEvaluate(w)
        PROVE  (CommitInv /\ GradesInv /\ OverrideIsHonest)'
    BY <1>16 DEF StartEvaluate, Goto, Untouched
  <1>17. ASSUME NEW w \in Slots, Judge(w)
        PROVE  (CommitInv /\ GradesInv /\ OverrideIsHonest)'
    BY <1>17 DEF Judge, Goto, Untouched
  <1>18. ASSUME NEW w \in Slots, StoreVerdict(w)
        PROVE  (CommitInv /\ GradesInv /\ OverrideIsHonest)'
    BY <1>18 DEF StoreVerdict, Goto, Untouched
  <1>19. ASSUME NEW w \in Slots, FinishEvaluate(w)
        PROVE  (CommitInv /\ GradesInv /\ OverrideIsHonest)'
    BY <1>19 DEF FinishEvaluate, Goto, Untouched
  <1>20. ASSUME NEW w \in Slots, FailAttempt(w)
        PROVE  (CommitInv /\ GradesInv /\ OverrideIsHonest)'
    BY <1>20 DEF FailAttempt, Goto, Untouched
  <1>21. ASSUME NEW w \in Slots, MarkFailed(w)
        PROVE  (CommitInv /\ GradesInv /\ OverrideIsHonest)'
    BY <1>21 DEF MarkFailed, Goto, Untouched
  <1>22. ASSUME NEW q \in Requests, NEW s \in Submissions,
                NEW g \in Gradations \cup {None}, CommitRead(q, s, g)
        PROVE  (CommitInv /\ GradesInv /\ OverrideIsHonest)'
    <2>1. /\ status[s] \in {"awaiting-review", "failed"}
          /\ FinalGradation(s, g) # None
          /\ Overridden(s, g) <=> FinalGradation(s, g) # aiGrade[s]
          /\ \A r \in Requests : ~InFlightCommit(r)
      BY <1>22 DEF CommitRead, FinalGradation, Overridden, Refuses, ClientMaySend, Settled
    <2>2. /\ rpc' = [rpc EXCEPT ![q] = "readCard"]
          /\ rsub' = [rsub EXCEPT ![q] = s]
          /\ chosen' = [chosen EXCEPT ![q] = FinalGradation(s, g)]
          /\ differs' = [differs EXCEPT ![q] = Overridden(s, g)]
          /\ UNCHANGED <<rowVars, card, seen>>
      BY <1>22 DEF CommitRead
    <2>3. QED
      BY <2>1, <2>2
  <1>23. ASSUME NEW q \in Requests, NEW s \in Submissions,
                NEW g \in Gradations \cup {None}, CommitRefused(q, s, g)
        PROVE  (CommitInv /\ GradesInv /\ OverrideIsHonest)'
    BY <1>23 DEF CommitRefused, FinalGradation, Refuses
  <1>24. ASSUME NEW q \in Requests, ReadCard(q)
        PROVE  (CommitInv /\ GradesInv /\ OverrideIsHonest)'
    BY <1>24 DEF ReadCard
  <1>25. ASSUME NEW q \in Requests, WriteCommit(q)
        PROVE  (CommitInv /\ GradesInv /\ OverrideIsHonest)'
    BY <1>25 DEF WriteCommit, NextCard
  <1>26. ASSUME NEW s \in Submissions, EnqueueRejected(s)
        PROVE  (CommitInv /\ GradesInv /\ OverrideIsHonest)'
    BY <1>26 DEF EnqueueRejected, Fault
  <1>27. CASE ApiCrash
    BY <1>27 DEF ApiCrash, Fault
  <1>28. CASE UNCHANGED vars
    BY <1>28
  <1>29. QED
    BY <1>1, <1>2, <1>3, <1>4, <1>5, <1>6, <1>7, <1>8, <1>9, <1>10, <1>11, <1>12, <1>13, <1>14, <1>15, <1>16, <1>17, <1>18, <1>19, <1>20, <1>21, <1>22, <1>23, <1>24, <1>25, <1>26, <1>27, <1>28, CalmSteps 
    DEF QuietNext, ApiStep, QueueStep, WorkerStep, CommitStep

LEMMA CalmInit == Init => CalmInv
  BY InitInv
  DEF Init, CalmInv, HolderInv, OpenInv, OneInv, CommitInv, InFlightCommit, GradesInv, Working,
      OverrideIsHonest

LEMMA CalmInvariance == ASSUME Calm PROVE Spec => []CalmInv
  <1>1. CalmInv /\ [Next]_vars => CalmInv'
    <2> SUFFICES ASSUME CalmInv, [Next]_vars PROVE CalmInv'
      OBVIOUS
    <2>1. Inv'
      BY TypeStep, QueueStepInv, GradeStepInv DEF CalmInv, Inv
    <2>2. QED
      BY <2>1, HolderStep, OpenStep, OneStep, CommitStepInv DEF CalmInv, Calm, Serial
  <1>2. QED
    BY CalmInit, <1>1, PTL DEF Spec

\* The row says whether the learner disagreed with the gradation it shows, for
\* clients that wait while the worker and its database hold.
THEOREM OverridesAreHonest == ASSUME Calm PROVE Spec => []OverrideIsHonest
  <1>1. CalmInv => OverrideIsHonest
    BY DEF CalmInv
  <1>2. QED
    BY CalmInvariance, <1>1, PTL

-----------------------------------------------------------------------------
(* Every commit is one review. *)

CountInv == \A p \in Problems :
                IsFiniteSet(Reviewed(p)) /\ card[p] = Cardinality(Reviewed(p))

\* What the transaction does to the row and the card it was sent for.
LEMMA CommitWrites ==
    ASSUME CalmInv, NEW q \in Requests, WriteCommit(q)
    PROVE  \E s \in Submissions :
              /\ status[s] \in {"awaiting-review", "failed"} /\ finalGrade[s] = None
              /\ card' = [card EXCEPT ![ProblemOf[s]] = @ + 1]
              /\ status' = [status EXCEPT ![s] = "committed"]
              /\ \E g \in Gradations : finalGrade' = [finalGrade EXCEPT ![s] = g]
              /\ UNCHANGED aiGrade
  <1>1. /\ rsub[q] \in Submissions /\ chosen[q] \in Gradations
        /\ status[rsub[q]] \in {"awaiting-review", "failed"}
        /\ seen[q] = card[ProblemOf[rsub[q]]]
    BY DEF CalmInv, Inv, TypeOK, RequestInv, OneInv, CommitInv, InFlightCommit, WriteCommit
  <1>2. finalGrade[rsub[q]] = None
    BY <1>1 DEF CalmInv, GradesInv
  <1>3. QED
    BY <1>1, <1>2 DEF WriteCommit, NextCard

LEMMA CountStep == ASSUME Calm, CalmInv, CountInv, [Next]_vars PROVE CountInv'
  <1>1. CASE UNCHANGED <<finalGrade, card>>
    BY <1>1 DEF CountInv, Reviewed
  <1>2. ASSUME NEW q \in Requests, WriteCommit(q) PROVE CountInv'
    <2>1. PICK s \in Submissions :
              /\ finalGrade[s] = None
              /\ card' = [card EXCEPT ![ProblemOf[s]] = @ + 1]
              /\ \E g \in Gradations : finalGrade' = [finalGrade EXCEPT ![s] = g]
      BY <1>2, CommitWrites
    <2>2. PICK g \in Gradations : finalGrade' = [finalGrade EXCEPT ![s] = g]
      BY <2>1
    <2>3. /\ ProblemOf[s] \in Problems /\ g # None
          /\ card \in [Problems -> Nat] /\ finalGrade \in [Submissions -> Gradations \cup {None}]
      BY PipelineAssumption DEF CalmInv, Inv, TypeOK
    <2> SUFFICES ASSUME NEW p \in Problems
                 PROVE  IsFiniteSet(Reviewed(p)') /\ card'[p] = Cardinality(Reviewed(p)')
      BY DEF CountInv
    <2>4. CASE p = ProblemOf[s]
      <3>1. Reviewed(p)' = Reviewed(p) \cup {s} /\ s \notin Reviewed(p)
        BY <2>1, <2>2, <2>3, <2>4 DEF Reviewed
      <3>2. IsFiniteSet(Reviewed(p)) /\ card[p] = Cardinality(Reviewed(p))
        BY DEF CountInv
      <3>3. card'[p] = card[p] + 1
        BY <2>1, <2>3, <2>4
      <3>4. QED
        BY <3>1, <3>2, <3>3, FS_AddElement
    <2>5. CASE p # ProblemOf[s]
      <3>1. Reviewed(p)' = Reviewed(p)
        BY <2>1, <2>2, <2>3, <2>5 DEF Reviewed
      <3>2. card'[p] = card[p]
        BY <2>1, <2>3, <2>5
      <3>3. QED
        BY <3>1, <3>2 DEF CountInv
    <2>6. QED
      BY <2>4, <2>5
  <1>3. QED
    BY <1>1, <1>2, OnlyCommitsReview

\* The review card counts each committed submission of its problem exactly once,
\* for any number of submissions, under the same conditions.
THEOREM CommitsAreReviews == ASSUME Calm PROVE Spec => []EveryCommitIsAReview
  <1>1. Init => CountInv
    <2> SUFFICES ASSUME Init PROVE CountInv
      OBVIOUS
    <2>1. \A p \in Problems : Reviewed(p) = {} /\ card[p] = 0
      BY DEF Init, Reviewed
    <2>2. QED
      BY <2>1, FS_EmptySet DEF CountInv
  <1>2. CalmInv /\ CountInv /\ [Next]_vars => CountInv'
    BY CountStep
  <1>3. CountInv => EveryCommitIsAReview
    BY DEF CountInv, Reviewed, EveryCommitIsAReview
  <1>4. QED
    BY CalmInvariance, <1>1, <1>2, <1>3, PTL DEF Spec

-----------------------------------------------------------------------------
(* The lifecycle. *)

\* A row whose status changes moves the phase of its submission only.
LEMMA PhaseMoves ==
    ASSUME TypeOK, NEW s \in Submissions, NEW st \in Status, status' = [status EXCEPT ![s] = st]
    PROVE  [r \in Submissions |-> PhaseOf(r)]' =
           [[r \in Submissions |-> PhaseOf(r)] EXCEPT ![s] =
              IF st = "awaiting-review" THEN "graded"
              ELSE IF st \in {"queued", "resolving-source", "evaluating"} THEN "open" ELSE st]
  BY DEF TypeOK, PhaseOf, InFlight, Status

\* What the pipeline's steps are to the lifecycle.
LEMMA LifecycleStep ==
    ASSUME Calm, CalmInv, [Next]_vars
    PROVE  [Lifecycle!Next]_Lifecycle!lifecycleVars
  <1> USE DEF CalmInv, Inv, TypeOK, Lifecycle!lifecycleVars
  <1>1. ASSUME UNCHANGED <<status, aiGrade, finalGrade, card>>
        PROVE  UNCHANGED Lifecycle!lifecycleVars
    BY <1>1 DEF PhaseOf, InFlight
  <1>2. ASSUME NEW s \in Submissions, CreateSubmission(s)
        PROVE  Lifecycle!Submit(s)
    <2>1. /\ status[s] = "absent" /\ status' = [status EXCEPT ![s] = "queued"]
          /\ UNCHANGED <<aiGrade, finalGrade, card>>
      BY <1>2 DEF CreateSubmission
    <2>2. QED
      BY <2>1, PhaseMoves DEF Lifecycle!Submit, Lifecycle!Move, PhaseOf, InFlight, Status
  <1>3. ASSUME NEW w \in Slots, SetResolving(w) \/ SetEvaluating(w)
        PROVE  UNCHANGED Lifecycle!lifecycleVars
    <2>1. PICK s \in Submissions : s = sub[w]
      BY <1>3 DEF SlotInv, SetResolving, SetEvaluating
    <2>2. /\ InFlight(s)
          /\ \E st \in {"resolving-source", "evaluating"} : status' = [status EXCEPT ![s] = st]
          /\ UNCHANGED <<aiGrade, finalGrade, card>>
      BY <1>3, <2>1 DEF SetResolving, SetEvaluating, Untouched, OpenInv, Open, Working
    <2>3. QED
      BY <2>2 DEF PhaseOf, InFlight
  <1>4. ASSUME NEW w \in Slots, StoreVerdict(w)
        PROVE  \E s \in Submissions : Lifecycle!Grade(s)
    <2>1. PICK s \in Submissions : s = sub[w]
      BY <1>4 DEF SlotInv, StoreVerdict
    <2>2. /\ InFlight(s)
          /\ status' = [status EXCEPT ![s] = "awaiting-review"]
          /\ \E g \in Gradations : aiGrade' = [aiGrade EXCEPT ![s] = g]
          /\ UNCHANGED <<finalGrade, card>>
      BY <1>4, <2>1 DEF StoreVerdict, Untouched, OpenInv, Open, Working, VerdictInv
    <2>3. QED
      BY <2>2, PhaseMoves DEF Lifecycle!Grade, Lifecycle!Move, PhaseOf, InFlight, Status
  <1>5. ASSUME NEW w \in Slots, MarkFailed(w)
        PROVE  \E s \in Submissions : Lifecycle!GiveUp(s)
    <2>1. PICK s \in Submissions : s = sub[w]
      BY <1>5 DEF SlotInv, MarkFailed
    <2>2. /\ InFlight(s)
          /\ status' = [status EXCEPT ![s] = "failed"]
          /\ UNCHANGED <<aiGrade, finalGrade, card>>
      BY <1>5, <2>1 DEF MarkFailed, Untouched, OpenInv, Open, Working
    <2>3. QED
      BY <2>2, PhaseMoves DEF Lifecycle!GiveUp, Lifecycle!Move, PhaseOf, InFlight, Status
  <1>6. ASSUME NEW q \in Requests, WriteCommit(q)
        PROVE  \E s \in Submissions : Lifecycle!Commit(s)
    <2>1. PICK s \in Submissions :
              /\ status[s] \in {"awaiting-review", "failed"}
              /\ card' = [card EXCEPT ![ProblemOf[s]] = @ + 1]
              /\ status' = [status EXCEPT ![s] = "committed"]
              /\ \E g \in Gradations : finalGrade' = [finalGrade EXCEPT ![s] = g]
              /\ UNCHANGED aiGrade
      BY <1>6, CommitWrites
    <2>2. QED
      BY <2>1, PhaseMoves DEF Lifecycle!Commit, Lifecycle!Move, PhaseOf, InFlight, Status
  <1>7. ASSUME NEW s \in Submissions, EnqueueAcked(s) \/ QueueStep(s) \/ EnqueueRejected(s)
        PROVE  UNCHANGED <<status, aiGrade, finalGrade, card>>
    BY <1>7 DEF EnqueueAcked, QueueStep, Flush, Promote, Stalled, EnqueueRejected, rowVars
  <1>8. ASSUME NEW s \in Submissions, NEW w \in Slots, Take(w, s)
        PROVE  UNCHANGED <<status, aiGrade, finalGrade, card>>
    BY <1>8 DEF Take, rowVars
  <1>9. ASSUME NEW s \in Submissions, NEW q \in Requests, NEW g \in Gradations \cup {None},
               CommitRead(q, s, g) \/ CommitRefused(q, s, g)
        PROVE  UNCHANGED <<status, aiGrade, finalGrade, card>>
    BY <1>9 DEF CommitRead, CommitRefused, rowVars
  <1>10. ASSUME NEW w \in Slots, WorkerStep(w), ~SetResolving(w), ~SetEvaluating(w),
                ~StoreVerdict(w), ~MarkFailed(w)
         PROVE  UNCHANGED <<status, aiGrade, finalGrade, card>>
    BY <1>10 DEF WorkerStep, Load, StartResolve, Resolve, FinishResolve, StartEvaluate, Judge,
                 FinishEvaluate, FailAttempt, Complete, Rethrow, Untouched, rowVars
  <1>11. ASSUME NEW q \in Requests, ReadCard(q)
         PROVE  UNCHANGED <<status, aiGrade, finalGrade, card>>
    BY <1>11 DEF ReadCard, rowVars
  <1>12. ASSUME NEW s \in Submissions, MarkUnqueued(s)
         PROVE  Lifecycle!GiveUp(s)
    <2>1. /\ InFlight(s)
          /\ status' = [status EXCEPT ![s] = "failed"]
          /\ UNCHANGED <<aiGrade, finalGrade, card>>
      BY <1>12 DEF MarkUnqueued, OpenInv, Open
    <2>2. QED
      BY <2>1, PhaseMoves DEF Lifecycle!GiveUp, Lifecycle!Move, PhaseOf, InFlight, Status
  <1>13. CASE ApiCrash
    BY <1>1, <1>13 DEF ApiCrash, rowVars
  <1>14. CASE UNCHANGED vars
    BY <1>1, <1>14 DEF vars, rowVars
  <1>15. CASE QuietNext
    <2> HIDE DEF CalmInv, Inv, TypeOK, Lifecycle!lifecycleVars
    <2>1. QED
      BY <1>1, <1>2, <1>3, <1>4, <1>5, <1>6, <1>7, <1>8, <1>9, <1>10, <1>11, <1>12, <1>13, <1>15
      DEF QuietNext, ApiStep, CommitStep, Lifecycle!Next
  <1>16. QED
    BY <1>14, <1>15, CalmSteps

\* With clients that wait, every step of the API, the queue, the worker and the
\* commit route is a step of the lifecycle or none at all, whenever the API dies
\* or Redis refuses a job: a submission is graded or given up once, and
\* committed once after that.
THEOREM PipelineIsALifecycle ==
    ASSUME Calm
    PROVE  Spec => Lifecycle!Init /\ [][Lifecycle!Next]_Lifecycle!lifecycleVars
  <1>1. Init => Lifecycle!Init
    BY DEF Init, Lifecycle!Init, PhaseOf, InFlight
  <1>2. CalmInv /\ [Next]_vars => [Lifecycle!Next]_Lifecycle!lifecycleVars
    BY LifecycleStep
  <1>3. QED
    BY CalmInvariance, <1>1, <1>2, PTL DEF Spec

\* A committed submission stays as it was committed.
THEOREM CommitsStand == ASSUME Calm PROVE Spec => CommittedIsFinal
  <1> DEFINE Stands == \A s \in Submissions :
                  status[s] = "committed" =>
                      status'[s] = "committed" /\ finalGrade'[s] = finalGrade[s]
  <1>1. CalmInv /\ [Next]_vars => [Stands]_vars
    <2> SUFFICES ASSUME CalmInv, [Next]_vars, NEW s \in Submissions, status[s] = "committed"
                 PROVE  status'[s] = "committed" /\ finalGrade'[s] = finalGrade[s]
      OBVIOUS
    <2>1. PhaseOf(s) = "committed" /\ finalGrade \in [Submissions -> Gradations \cup {None}]
      BY DEF PhaseOf, InFlight, CalmInv, Inv, TypeOK
    <2>2. (PhaseOf(s))' = "committed" /\ finalGrade'[s] = finalGrade[s]
      BY <2>1, LifecycleStep
      DEF Lifecycle!Next, Lifecycle!Submit, Lifecycle!Grade, Lifecycle!GiveUp, Lifecycle!Commit,
          Lifecycle!Move, Lifecycle!lifecycleVars
    <2>3. QED
      BY <2>2 DEF PhaseOf, InFlight
  <1>2. Spec => [][Stands]_vars
    BY CalmInvariance, <1>1, PTL DEF Spec
  <1>3. QED
    BY <1>2 DEF CommittedIsFinal

\* A submission given up is only committed after that.
THEOREM FailuresStand == ASSUME Calm PROVE Spec => FailedStaysFailed
  <1> DEFINE Stands == \A s \in Submissions :
                  status[s] = "failed" => status'[s] \in {"failed", "committed"}
  <1>1. CalmInv /\ [Next]_vars => [Stands]_vars
    <2> SUFFICES ASSUME CalmInv, [Next]_vars, NEW s \in Submissions, status[s] = "failed"
                 PROVE  status'[s] \in {"failed", "committed"}
      OBVIOUS
    <2>1. PhaseOf(s) = "failed"
      BY DEF PhaseOf, InFlight
    <2>2. (PhaseOf(s))' \in {"failed", "committed"}
      BY <2>1, LifecycleStep
      DEF Lifecycle!Next, Lifecycle!Submit, Lifecycle!Grade, Lifecycle!GiveUp, Lifecycle!Commit,
          Lifecycle!Move, Lifecycle!lifecycleVars
    <2>3. QED
      BY <2>2 DEF PhaseOf, InFlight
  <1>2. Spec => [][Stands]_vars
    BY CalmInvariance, <1>1, PTL DEF Spec
  <1>3. QED
    BY <1>2 DEF FailedStaysFailed

-----------------------------------------------------------------------------
(* Lost work is delivered again. *)

\* The worker may die, and the enqueueing time out or be refused.
Redelivered == Faults \subseteq {"worker-crash", "enqueue-timeout", "enqueue-error"}

\* The steps there are then.
RedeliveringNext ==
    \/ QuietNext
    \/ \E s \in Submissions : EnqueueTimeout(s) \/ EnqueueRejected(s)
    \/ WorkerCrash

LEMMA RedeliveringSteps == ASSUME Redelivered, Next PROVE RedeliveringNext /\ ~ApiCrash
  BY DEF Redelivered, Next, QuietNext, RedeliveringNext, SubmissionFault,
         MarkUnqueuedFails, LockLapse, DbError, ApiCrash, Fault

\* A call holds its lock, knows whether it is the last, and ends by retrying or
\* with the row settled.
CallInv ==
    /\ \A w \in Slots : pc[w] # "idle" =>
          /\ lock[sub[w]] = w
          /\ last[w] <=> made[sub[w]] + 1 >= MaxAttempts
    /\ \A w \in Slots : pc[w] \in {"finishing", "ack"} => ~InFlight(sub[w])
    /\ \A w \in Slots : pc[w] = "rethrow" /\ last[w] => ~InFlight(sub[w])

\* A job that is over, or was never stored, leaves no row in flight, unless the
\* API is about to say so or the job stalled too often.
JobInv ==
    /\ \A s \in Submissions : status[s] = "absent" => job[s] = "none"
    /\ \A s \in Submissions : api[s] = "enqueueing" => job[s] # "none"
    /\ \A s \in Submissions : job[s] = "completed" => ~InFlight(s)
    /\ \A s \in Submissions : job[s] = "failed" => ~InFlight(s) \/ stalls[s] > MaxStalls
    /\ \A s \in Submissions : job[s] = "none" => ~InFlight(s) \/ api[s] = "marking"

\* Each stall, counted or about to be, is a crash of the worker.
StallInv ==
    \A s \in Submissions :
        /\ stalls[s] <= faults
        /\ job[s] = "active" /\ lock[s] = None => stalls[s] + 1 <= faults

RecoveryInv == Inv /\ CallInv /\ JobInv /\ StallInv

\* Calls keep their locks and their ends.
LEMMA CallStep == ASSUME Redelivered, RecoveryInv, [Next]_vars PROVE CallInv'
  <1> USE PipelineAssumption DEF RecoveryInv, Inv, TypeOK, vars, rowVars, stageVars, jobVars, slotVars, reqVars,
        SlotInv, LockInv, AttemptInv, FreshInv, CallInv, JobInv, InFlight, SlotState, JobState
  <1>1. ASSUME NEW s \in Submissions, CreateSubmission(s)
        PROVE  CallInv'
    BY <1>1, SMTT(30) DEF CreateSubmission, EnqueueAfterCommit
  <1>2. ASSUME NEW s \in Submissions, Flush(s)
        PROVE  CallInv'
    BY <1>2 DEF Flush
  <1>3. ASSUME NEW s \in Submissions, EnqueueAcked(s)
        PROVE  CallInv'
    BY <1>3 DEF EnqueueAcked
  <1>4. ASSUME NEW s \in Submissions, MarkUnqueued(s)
        PROVE  CallInv'
    BY <1>4 DEF MarkUnqueued
  <1>5. ASSUME NEW w \in Slots, NEW s \in Submissions, Take(w, s)
        PROVE  CallInv'
    <2>1. last'[w] <=> made'[s] + 1 >= MaxAttempts
      BY <1>5, TakeTellsLast
    <2>2. /\ job[s] = "waiting" /\ lock' = [lock EXCEPT ![s] = w]
          /\ pc[w] = "idle" /\ pc' = [pc EXCEPT ![w] = "load"]
          /\ sub' = [sub EXCEPT ![w] = s]
          /\ \A v \in Slots \ {w} : last'[v] = last[v]
          /\ UNCHANGED <<status, made>>
      BY <1>5 DEF Take
    <2>3. QED
      BY <2>1, <2>2
  <1>6. ASSUME NEW s \in Submissions, Promote(s)
        PROVE  CallInv'
    BY <1>6 DEF Promote
  <1>7. ASSUME NEW s \in Submissions, Stalled(s)
        PROVE  CallInv'
    BY <1>7 DEF Stalled
  <1>8. ASSUME NEW w \in Slots, Complete(w)
        PROVE  CallInv'
    BY <1>8 DEF Complete, Release
  <1>9. ASSUME NEW w \in Slots, Rethrow(w)
        PROVE  CallInv'
    BY <1>9 DEF Rethrow, Release, MayRetry
  <1>10. ASSUME NEW w \in Slots, Load(w)
        PROVE  CallInv'
    BY <1>10 DEF Load, Goto, Untouched, AfterLoad
  <1>11. ASSUME NEW w \in Slots, SetResolving(w)
        PROVE  CallInv'
    BY <1>11 DEF SetResolving, Goto, Untouched
  <1>12. ASSUME NEW w \in Slots, StartResolve(w)
        PROVE  CallInv'
    BY <1>12 DEF StartResolve, Goto, Untouched
  <1>13. ASSUME NEW w \in Slots, Resolve(w)
        PROVE  CallInv'
    BY <1>13 DEF Resolve, Goto, Untouched
  <1>14. ASSUME NEW w \in Slots, FinishResolve(w)
        PROVE  CallInv'
    BY <1>14 DEF FinishResolve, Goto, Untouched
  <1>15. ASSUME NEW w \in Slots, SetEvaluating(w)
        PROVE  CallInv'
    BY <1>15 DEF SetEvaluating, Goto, Untouched
  <1>16. ASSUME NEW w \in Slots, StartEvaluate(w)
        PROVE  CallInv'
    BY <1>16 DEF StartEvaluate, Goto, Untouched
  <1>17. ASSUME NEW w \in Slots, Judge(w)
        PROVE  CallInv'
    BY <1>17 DEF Judge, Goto, Untouched
  <1>18. ASSUME NEW w \in Slots, StoreVerdict(w)
        PROVE  CallInv'
    BY <1>18 DEF StoreVerdict, Goto, Untouched
  <1>19. ASSUME NEW w \in Slots, FinishEvaluate(w)
        PROVE  CallInv'
    BY <1>19 DEF FinishEvaluate, Goto, Untouched
  <1>20. ASSUME NEW w \in Slots, FailAttempt(w)
        PROVE  CallInv'
    BY <1>20 DEF FailAttempt, Goto, Untouched
  <1>21. ASSUME NEW w \in Slots, MarkFailed(w)
        PROVE  CallInv'
    BY <1>21 DEF MarkFailed, Goto, Untouched
  <1>22. ASSUME NEW q \in Requests, NEW s \in Submissions,
                NEW g \in Gradations \cup {None}, CommitRead(q, s, g)
        PROVE  CallInv'
    BY <1>22 DEF CommitRead, FinalGradation, Overridden, Refuses, ClientMaySend
  <1>23. ASSUME NEW q \in Requests, NEW s \in Submissions,
                NEW g \in Gradations \cup {None}, CommitRefused(q, s, g)
        PROVE  CallInv'
    BY <1>23 DEF CommitRefused, FinalGradation, Refuses
  <1>24. ASSUME NEW q \in Requests, ReadCard(q)
        PROVE  CallInv'
    BY <1>24 DEF ReadCard
  <1>25. ASSUME NEW q \in Requests, WriteCommit(q)
        PROVE  CallInv'
    BY <1>25 DEF WriteCommit, NextCard
  <1>26. ASSUME NEW s \in Submissions, EnqueueTimeout(s)
        PROVE  CallInv'
    BY <1>26 DEF EnqueueTimeout, Fault
  <1>27. ASSUME NEW s \in Submissions, EnqueueRejected(s)
        PROVE  CallInv'
    BY <1>27 DEF EnqueueRejected, Fault
  <1>28. ASSUME WorkerCrash
        PROVE  CallInv'
    BY <1>28 DEF WorkerCrash, Fault
  <1>29. CASE UNCHANGED vars
    BY <1>29
  <1>30. QED
    BY <1>1, <1>2, <1>3, <1>4, <1>5, <1>6, <1>7, <1>8, <1>9, <1>10, <1>11, <1>12, <1>13, <1>14, <1>15, <1>16, <1>17, <1>18, <1>19, <1>20, <1>21, <1>22, <1>23, <1>24, <1>25, <1>26, <1>27, <1>28, <1>29, RedeliveringSteps 
    DEF RedeliveringNext, QuietNext, ApiStep, QueueStep, WorkerStep, CommitStep

\* No job ends with its row in flight, but for one that stalled too often.
LEMMA JobStep == ASSUME Redelivered, RecoveryInv, [Next]_vars PROVE JobInv'
  <1> USE PipelineAssumption DEF RecoveryInv, Inv, TypeOK, vars, rowVars, stageVars, jobVars, slotVars, reqVars,
        SlotInv, LockInv, AttemptInv, FreshInv, CallInv, JobInv, StallInv, InFlight, JobState, Redelivered
  <1>1. ASSUME NEW s \in Submissions, CreateSubmission(s)
        PROVE  JobInv'
    BY <1>1 DEF CreateSubmission, EnqueueAfterCommit
  <1>2. ASSUME NEW s \in Submissions, Flush(s)
        PROVE  JobInv'
    BY <1>2 DEF Flush
  <1>3. ASSUME NEW s \in Submissions, EnqueueAcked(s)
        PROVE  JobInv'
    BY <1>3 DEF EnqueueAcked
  <1>4. ASSUME NEW s \in Submissions, MarkUnqueued(s)
        PROVE  JobInv'
    BY <1>4 DEF MarkUnqueued
  <1>5. ASSUME NEW w \in Slots, NEW s \in Submissions, Take(w, s)
        PROVE  JobInv'
    BY <1>5 DEF Take, IsFinalAttempt
  <1>6. ASSUME NEW s \in Submissions, Promote(s)
        PROVE  JobInv'
    BY <1>6 DEF Promote
  <1>7. ASSUME NEW s \in Submissions, Stalled(s)
        PROVE  JobInv'
    BY <1>7 DEF Stalled
  <1>8. ASSUME NEW w \in Slots, Complete(w)
        PROVE  JobInv'
    BY <1>8 DEF Complete, Release
  <1>9. ASSUME NEW w \in Slots, Rethrow(w)
        PROVE  JobInv'
    BY <1>9 DEF Rethrow, Release, MayRetry
  <1>10. ASSUME NEW w \in Slots, Load(w)
        PROVE  JobInv'
    BY <1>10 DEF Load, Goto, Untouched, AfterLoad
  <1>11. ASSUME NEW w \in Slots, SetResolving(w)
        PROVE  JobInv'
    BY <1>11 DEF SetResolving, Goto, Untouched
  <1>12. ASSUME NEW w \in Slots, StartResolve(w)
        PROVE  JobInv'
    BY <1>12 DEF StartResolve, Goto, Untouched
  <1>13. ASSUME NEW w \in Slots, Resolve(w)
        PROVE  JobInv'
    BY <1>13 DEF Resolve, Goto, Untouched
  <1>14. ASSUME NEW w \in Slots, FinishResolve(w)
        PROVE  JobInv'
    BY <1>14 DEF FinishResolve, Goto, Untouched
  <1>15. ASSUME NEW w \in Slots, SetEvaluating(w)
        PROVE  JobInv'
    BY <1>15 DEF SetEvaluating, Goto, Untouched
  <1>16. ASSUME NEW w \in Slots, StartEvaluate(w)
        PROVE  JobInv'
    BY <1>16 DEF StartEvaluate, Goto, Untouched
  <1>17. ASSUME NEW w \in Slots, Judge(w)
        PROVE  JobInv'
    BY <1>17 DEF Judge, Goto, Untouched
  <1>18. ASSUME NEW w \in Slots, StoreVerdict(w)
        PROVE  JobInv'
    BY <1>18 DEF StoreVerdict, Goto, Untouched
  <1>19. ASSUME NEW w \in Slots, FinishEvaluate(w)
        PROVE  JobInv'
    BY <1>19 DEF FinishEvaluate, Goto, Untouched
  <1>20. ASSUME NEW w \in Slots, FailAttempt(w)
        PROVE  JobInv'
    BY <1>20 DEF FailAttempt, Goto, Untouched
  <1>21. ASSUME NEW w \in Slots, MarkFailed(w)
        PROVE  JobInv'
    BY <1>21 DEF MarkFailed, Goto, Untouched
  <1>22. ASSUME NEW q \in Requests, NEW s \in Submissions,
                NEW g \in Gradations \cup {None}, CommitRead(q, s, g)
        PROVE  JobInv'
    BY <1>22 DEF CommitRead, FinalGradation, Overridden, Refuses, ClientMaySend
  <1>23. ASSUME NEW q \in Requests, NEW s \in Submissions,
                NEW g \in Gradations \cup {None}, CommitRefused(q, s, g)
        PROVE  JobInv'
    BY <1>23 DEF CommitRefused, FinalGradation, Refuses
  <1>24. ASSUME NEW q \in Requests, ReadCard(q)
        PROVE  JobInv'
    BY <1>24 DEF ReadCard
  <1>25. ASSUME NEW q \in Requests, WriteCommit(q)
        PROVE  JobInv'
    BY <1>25 DEF WriteCommit, NextCard
  <1>26. ASSUME NEW s \in Submissions, EnqueueTimeout(s)
        PROVE  JobInv'
    BY <1>26 DEF EnqueueTimeout, Fault
  <1>27. ASSUME NEW s \in Submissions, EnqueueRejected(s)
        PROVE  JobInv'
    BY <1>27 DEF EnqueueRejected, Fault
  <1>28. ASSUME WorkerCrash
        PROVE  JobInv'
    BY <1>28 DEF WorkerCrash, Fault
  <1>29. CASE UNCHANGED vars
    BY <1>29
  <1>30. QED
    BY <1>1, <1>2, <1>3, <1>4, <1>5, <1>6, <1>7, <1>8, <1>9, <1>10, <1>11, <1>12, <1>13, <1>14, <1>15, <1>16, <1>17, <1>18, <1>19, <1>20, <1>21, <1>22, <1>23, <1>24, <1>25, <1>26, <1>27, <1>28, <1>29, RedeliveringSteps 
    DEF RedeliveringNext, QuietNext, ApiStep, QueueStep, WorkerStep, CommitStep

\* Stalls are counted against crashes.
LEMMA StallStep == ASSUME Redelivered, RecoveryInv, [Next]_vars PROVE StallInv'
  <1> USE PipelineAssumption DEF RecoveryInv, Inv, TypeOK, vars, rowVars, stageVars, jobVars, slotVars, reqVars,
        SlotInv, LockInv, AttemptInv, FreshInv, CallInv, StallInv, JobState
  <1>1. ASSUME NEW s \in Submissions, CreateSubmission(s)
        PROVE  StallInv'
    BY <1>1 DEF CreateSubmission, EnqueueAfterCommit
  <1>2. ASSUME NEW s \in Submissions, Flush(s)
        PROVE  StallInv'
    BY <1>2 DEF Flush
  <1>3. ASSUME NEW s \in Submissions, EnqueueAcked(s)
        PROVE  StallInv'
    BY <1>3 DEF EnqueueAcked
  <1>4. ASSUME NEW s \in Submissions, MarkUnqueued(s)
        PROVE  StallInv'
    BY <1>4 DEF MarkUnqueued
  <1>5. ASSUME NEW w \in Slots, NEW s \in Submissions, Take(w, s)
        PROVE  StallInv'
    BY <1>5 DEF Take, IsFinalAttempt
  <1>6. ASSUME NEW s \in Submissions, Promote(s)
        PROVE  StallInv'
    BY <1>6 DEF Promote
  <1>7. ASSUME NEW s \in Submissions, Stalled(s)
        PROVE  StallInv'
    BY <1>7 DEF Stalled
  <1>8. ASSUME NEW w \in Slots, Complete(w)
        PROVE  StallInv'
    BY <1>8 DEF Complete, Release
  <1>9. ASSUME NEW w \in Slots, Rethrow(w)
        PROVE  StallInv'
    BY <1>9 DEF Rethrow, Release, MayRetry
  <1>10. ASSUME NEW w \in Slots, Load(w)
        PROVE  StallInv'
    BY <1>10 DEF Load, Goto, Untouched, AfterLoad
  <1>11. ASSUME NEW w \in Slots, SetResolving(w)
        PROVE  StallInv'
    BY <1>11 DEF SetResolving, Goto, Untouched
  <1>12. ASSUME NEW w \in Slots, StartResolve(w)
        PROVE  StallInv'
    BY <1>12 DEF StartResolve, Goto, Untouched
  <1>13. ASSUME NEW w \in Slots, Resolve(w)
        PROVE  StallInv'
    BY <1>13 DEF Resolve, Goto, Untouched
  <1>14. ASSUME NEW w \in Slots, FinishResolve(w)
        PROVE  StallInv'
    BY <1>14 DEF FinishResolve, Goto, Untouched
  <1>15. ASSUME NEW w \in Slots, SetEvaluating(w)
        PROVE  StallInv'
    BY <1>15 DEF SetEvaluating, Goto, Untouched
  <1>16. ASSUME NEW w \in Slots, StartEvaluate(w)
        PROVE  StallInv'
    BY <1>16 DEF StartEvaluate, Goto, Untouched
  <1>17. ASSUME NEW w \in Slots, Judge(w)
        PROVE  StallInv'
    BY <1>17 DEF Judge, Goto, Untouched
  <1>18. ASSUME NEW w \in Slots, StoreVerdict(w)
        PROVE  StallInv'
    BY <1>18 DEF StoreVerdict, Goto, Untouched
  <1>19. ASSUME NEW w \in Slots, FinishEvaluate(w)
        PROVE  StallInv'
    BY <1>19 DEF FinishEvaluate, Goto, Untouched
  <1>20. ASSUME NEW w \in Slots, FailAttempt(w)
        PROVE  StallInv'
    BY <1>20 DEF FailAttempt, Goto, Untouched
  <1>21. ASSUME NEW w \in Slots, MarkFailed(w)
        PROVE  StallInv'
    BY <1>21 DEF MarkFailed, Goto, Untouched
  <1>22. ASSUME NEW q \in Requests, NEW s \in Submissions,
                NEW g \in Gradations \cup {None}, CommitRead(q, s, g)
        PROVE  StallInv'
    BY <1>22 DEF CommitRead, FinalGradation, Overridden, Refuses, ClientMaySend
  <1>23. ASSUME NEW q \in Requests, NEW s \in Submissions,
                NEW g \in Gradations \cup {None}, CommitRefused(q, s, g)
        PROVE  StallInv'
    BY <1>23 DEF CommitRefused, FinalGradation, Refuses
  <1>24. ASSUME NEW q \in Requests, ReadCard(q)
        PROVE  StallInv'
    BY <1>24 DEF ReadCard
  <1>25. ASSUME NEW q \in Requests, WriteCommit(q)
        PROVE  StallInv'
    BY <1>25 DEF WriteCommit, NextCard
  <1>26. ASSUME NEW s \in Submissions, EnqueueTimeout(s)
        PROVE  StallInv'
    BY <1>26 DEF EnqueueTimeout, Fault
  <1>27. ASSUME NEW s \in Submissions, EnqueueRejected(s)
        PROVE  StallInv'
    BY <1>27 DEF EnqueueRejected, Fault
  <1>28. ASSUME WorkerCrash
        PROVE  StallInv'
    BY <1>28 DEF WorkerCrash, Fault
  <1>29. CASE UNCHANGED vars
    BY <1>29
  <1>30. QED
    BY <1>1, <1>2, <1>3, <1>4, <1>5, <1>6, <1>7, <1>8, <1>9, <1>10, <1>11, <1>12, <1>13, <1>14, <1>15, <1>16, <1>17, <1>18, <1>19, <1>20, <1>21, <1>22, <1>23, <1>24, <1>25, <1>26, <1>27, <1>28, <1>29, RedeliveringSteps 
    DEF RedeliveringNext, QuietNext, ApiStep, QueueStep, WorkerStep, CommitStep

\* A submission left in flight with no job, call or handler that would still
\* settle it has stalled, and the worker has died, more often than BullMQ's
\* limit of stalls.
THEOREM NobodyIsStranded == ASSUME Redelivered PROVE Spec => []NeverStranded
  <1>1. Init => RecoveryInv
    BY InitInv, PipelineAssumption
    DEF Init, RecoveryInv, CallInv, JobInv, StallInv, InFlight
  <1>2. RecoveryInv /\ [Next]_vars => RecoveryInv'
    <2> SUFFICES ASSUME RecoveryInv, [Next]_vars PROVE RecoveryInv'
      OBVIOUS
    <2>1. Inv'
      BY TypeStep, QueueStepInv, GradeStepInv DEF RecoveryInv, Inv
    <2>2. QED
      BY <2>1, CallStep, JobStep, StallStep DEF RecoveryInv
  <1>3. RecoveryInv => NeverStranded
    <2> SUFFICES ASSUME RecoveryInv, NEW s \in Submissions, InFlight(s), ~Attended(s)
                 PROVE  stalls[s] > MaxStalls /\ faults > MaxStalls
      BY DEF NeverStranded
    <2>1. job[s] = "failed"
      BY DEF RecoveryInv, Inv, TypeOK, JobInv, JobState, Attended
    <2>2. stalls[s] > MaxStalls
      BY <2>1 DEF RecoveryInv, JobInv
    <2>3. stalls[s] <= faults /\ stalls[s] \in Nat /\ faults \in Nat /\ MaxStalls \in Nat
      BY PipelineAssumption DEF RecoveryInv, StallInv, Inv, TypeOK
    <2>4. QED
      BY <2>2, <2>3
  <1>4. QED
    BY <1>1, <1>2, <1>3, PTL DEF Spec

=============================================================================
