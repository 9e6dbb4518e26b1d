------------------------- MODULE SubmissionPipeline -------------------------
(***************************************************************************)
(* The life of an attempt: the API stores it and enqueues its evaluation,   *)
(* BullMQ delivers (and redelivers) the job, the worker resolves the        *)
(* problem's source and asks the model for a gradation, and the learner     *)
(* commits a final gradation that advances the problem's review card.       *)
(*                                                                         *)
(* Every action is the code between two awaits: one statement on Postgres,  *)
(* one Redis command or one call to the model.  Handlers, worker slots and  *)
(* the queue interleave freely between them, as they do on the event loops  *)
(* of the API and worker processes.                                         *)
(***************************************************************************)
EXTENDS Naturals, FiniteSets

CONSTANTS
    Submissions,     \* rows of `submissions` that may be created
    Problems,        \* rows of `problems` they attempt, all of one learner
    ProblemOf,       \* the problem each submission attempts
    Sourced,         \* problems that came from a link or a slug
    Slots,           \* concurrent processor calls of the worker (`concurrency`)
    Requests,        \* commit requests, each sent at most once
    Gradations,      \* the tiers the model and the learner may choose
    None,            \* SQL NULL, an omitted body field, nobody
    MaxAttempts,     \* `attempts` of the job options
    MaxStalls,       \* BullMQ's maxStalledCount
    Faults,          \* kinds of infrastructure fault that may happen
    MaxFaults,       \* bound: how many of them happen in a behaviour
    EarlyCommit,     \* clients may send a gradation before the evaluation settles
    ConcurrentCommit \* clients may have several commits in flight

FaultKinds == {"api-crash", "worker-crash", "lock-lapse", "db-error",
               "enqueue-timeout", "enqueue-error"}

ASSUME PipelineAssumption ==
    /\ ProblemOf \in [Submissions -> Problems]
    /\ Sourced \subseteq Problems
    /\ None \notin Submissions \cup Gradations \cup Slots
    /\ MaxAttempts \in Nat \ {0}
    /\ MaxStalls \in Nat
    /\ MaxFaults \in Nat
    /\ Faults \subseteq FaultKinds
    /\ EarlyCommit \in BOOLEAN
    /\ ConcurrentCommit \in BOOLEAN

VARIABLES
    status, aiGrade, finalGrade, overridden,  \* the row of each submission
    resolveStage, evalStage,                  \* its two stage rows
    statement,                                \* the problem has a statement
    card,                                     \* reps of the review card, 0 = no row
    api,                                      \* createSubmission, per submission
    job, made, stalls, lock,                  \* the BullMQ job, per submission
    pc, sub, last, verdict,                   \* each worker slot
    rpc, rsub, chosen, differs, seen,         \* each commit request
    faults                                    \* faults so far

rowVars  == <<status, aiGrade, finalGrade, overridden>>
stageVars == <<resolveStage, evalStage>>
jobVars  == <<job, made, stalls, lock>>
slotVars == <<pc, sub, last, verdict>>
reqVars  == <<rpc, rsub, chosen, differs, seen>>
vars == <<rowVars, stageVars, statement, card, api, jobVars, slotVars, reqVars, faults>>

Status == {"absent", "queued", "resolving-source", "evaluating",
           "awaiting-review", "failed", "committed"}
StageStatus == {"absent", "pending", "running", "done", "failed"}
JobState == {"none", "buffered", "waiting", "active", "delayed", "completed", "failed"}
ApiState == {"idle", "enqueueing", "marking", "accepted", "refused", "crashed"}
SlotState == {"idle", "load", "resolving", "startResolve", "resolve", "resolved",
              "unresolved", "evaluating", "startEval", "judging", "storing",
              "finishing", "ack", "caught", "marking", "rethrow"}
RequestState == {"idle", "readCard", "write", "done", "bad", "dropped"}
Settled == {"awaiting-review", "failed", "committed"}

TypeOK ==
    /\ status \in [Submissions -> Status]
    /\ aiGrade \in [Submissions -> Gradations \cup {None}]
    /\ finalGrade \in [Submissions -> Gradations \cup {None}]
    /\ overridden \in [Submissions -> BOOLEAN]
    /\ resolveStage \in [Submissions -> StageStatus]
    /\ evalStage \in [Submissions -> StageStatus]
    /\ statement \in [Problems -> BOOLEAN]
    /\ card \in [Problems -> Nat]
    /\ api \in [Submissions -> ApiState]
    /\ job \in [Submissions -> JobState]
    /\ made \in [Submissions -> 0..MaxAttempts]
    /\ stalls \in [Submissions -> Nat]
    /\ lock \in [Submissions -> Slots \cup {None}]
    /\ pc \in [Slots -> SlotState]
    /\ sub \in [Slots -> Submissions \cup {None}]
    /\ last \in [Slots -> BOOLEAN]
    /\ verdict \in [Slots -> Gradations \cup {None}]
    /\ rpc \in [Requests -> RequestState]
    /\ rsub \in [Requests -> Submissions \cup {None}]
    /\ chosen \in [Requests -> Gradations \cup {None}]
    /\ differs \in [Requests -> BOOLEAN]
    /\ seen \in [Requests -> Nat]
    /\ faults \in 0..MaxFaults

\* A problem that came with its text has a statement; a sourced one does not yet.
Init ==
    /\ status = [s \in Submissions |-> "absent"]
    /\ aiGrade = [s \in Submissions |-> None]
    /\ finalGrade = [s \in Submissions |-> None]
    /\ overridden = [s \in Submissions |-> FALSE]
    /\ resolveStage = [s \in Submissions |-> "absent"]
    /\ evalStage = [s \in Submissions |-> "absent"]
    /\ statement = [p \in Problems |-> p \notin Sourced]
    /\ card = [p \in Problems |-> 0]
    /\ api = [s \in Submissions |-> "idle"]
    /\ job = [s \in Submissions |-> "none"]
    /\ made = [s \in Submissions |-> 0]
    /\ stalls = [s \in Submissions |-> 0]
    /\ lock = [s \in Submissions |-> None]
    /\ pc = [w \in Slots |-> "idle"]
    /\ sub = [w \in Slots |-> None]
    /\ last = [w \in Slots |-> FALSE]
    /\ verdict = [w \in Slots |-> None]
    /\ rpc = [q \in Requests |-> "idle"]
    /\ rsub = [q \in Requests |-> None]
    /\ chosen = [q \in Requests |-> None]
    /\ differs = [q \in Requests |-> FALSE]
    /\ seen = [q \in Requests |-> 0]
    /\ faults = 0

-----------------------------------------------------------------------------
(* The API: creating a submission. *)

\* Something to fetch: a link or a slug, and still no statement.
NeedsSourceResolution(p) == p \in Sourced /\ ~statement[p]

\* A fault of this kind may still happen, and is counted.
Fault(kind) == kind \in Faults /\ faults < MaxFaults /\ faults' = faults + 1

\* What the caller found on the row it read an await before: a sourced problem's
\* statement may have been stored since.
FoundUnresolved(p) == {NeedsSourceResolution(p), p \in Sourced}

\* The job command is issued once the rows are committed; ioredis buffers it.
EnqueueAfterCommit(s) == job' = [job EXCEPT ![s] = "buffered"]

CreateSubmission(s) ==
    /\ status[s] = "absent"
    /\ api[s] = "idle"
    /\ status' = [status EXCEPT ![s] = "queued"]
    /\ \E unresolved \in FoundUnresolved(ProblemOf[s]) :
          resolveStage' = [resolveStage EXCEPT ![s] = IF unresolved THEN "pending" ELSE "absent"]
    /\ evalStage' = [evalStage EXCEPT ![s] = "pending"]
    /\ api' = [api EXCEPT ![s] = "enqueueing"]
    /\ EnqueueAfterCommit(s)
    /\ UNCHANGED <<aiGrade, finalGrade, overridden, statement, card, made, stalls, lock,
                   slotVars, reqVars, faults>>

\* Redis executes the buffered command, whether or not the handler still waits.
Flush(s) ==
    /\ job[s] = "buffered"
    /\ job' = [job EXCEPT ![s] = "waiting"]
    /\ UNCHANGED <<rowVars, stageVars, statement, card, api, made, stalls, lock,
                   slotVars, reqVars, faults>>

EnqueueAcked(s) ==
    /\ api[s] = "enqueueing"
    /\ job[s] # "buffered"
    /\ api' = [api EXCEPT ![s] = "accepted"]
    /\ UNCHANGED <<rowVars, stageVars, statement, card, jobVars, slotVars, reqVars, faults>>

\* Promise.race gives up on the command but does not withdraw it.
EnqueueTimeout(s) ==
    /\ api[s] = "enqueueing"
    /\ Fault("enqueue-timeout")
    /\ api' = [api EXCEPT ![s] = "marking"]
    /\ UNCHANGED <<rowVars, stageVars, statement, card, jobVars, slotVars, reqVars>>

\* Redis answers with an error: there is no job.
EnqueueRejected(s) ==
    /\ api[s] = "enqueueing"
    /\ job[s] = "buffered"
    /\ Fault("enqueue-error")
    /\ api' = [api EXCEPT ![s] = "marking"]
    /\ job' = [job EXCEPT ![s] = "none"]
    /\ UNCHANGED <<rowVars, stageVars, statement, card, made, stalls, lock, slotVars, reqVars>>

\* The handler's catch, whatever the worker has done to the row meanwhile.
MarkUnqueued(s) ==
    /\ api[s] = "marking"
    /\ status' = [status EXCEPT ![s] = "failed"]
    /\ api' = [api EXCEPT ![s] = "refused"]
    /\ UNCHANGED <<aiGrade, finalGrade, overridden, stageVars, statement, card, jobVars,
                   slotVars, reqVars, faults>>

\* The catch's own update fails; the error handler answers 500.
MarkUnqueuedFails(s) ==
    /\ api[s] = "marking"
    /\ Fault("db-error")
    /\ api' = [api EXCEPT ![s] = "refused"]
    /\ UNCHANGED <<rowVars, stageVars, statement, card, jobVars, slotVars, reqVars>>

\* The API process dies: buffered commands and handlers in flight go with it.
ApiCrash ==
    /\ \/ \E s \in Submissions : api[s] \in {"enqueueing", "marking"} \/ job[s] = "buffered"
       \/ \E q \in Requests : rpc[q] \in {"readCard", "write"}
    /\ Fault("api-crash")
    /\ api' = [s \in Submissions |->
                 IF api[s] \in {"enqueueing", "marking"} THEN "crashed" ELSE api[s]]
    /\ job' = [s \in Submissions |-> IF job[s] = "buffered" THEN "none" ELSE job[s]]
    /\ rpc' = [q \in Requests |->
                 IF rpc[q] \in {"readCard", "write"} THEN "dropped" ELSE rpc[q]]
    /\ UNCHANGED <<rowVars, stageVars, statement, card, made, stalls, lock, slotVars,
                   rsub, chosen, differs, seen>>

-----------------------------------------------------------------------------
(* BullMQ, as the code configures and uses it (external). *)

\* Mutant: the last attempt is recognised one attempt early.
IsFinalAttemptEarly(n) == n + 2 >= MaxAttempts

\* The attempt that starts now is the last the job options allow.
IsFinalAttempt(n) == n + 1 >= MaxAttempts

Take(w, s) ==
    /\ pc[w] = "idle"
    /\ job[s] = "waiting"
    /\ job' = [job EXCEPT ![s] = "active"]
    /\ lock' = [lock EXCEPT ![s] = w]
    /\ pc' = [pc EXCEPT ![w] = "load"]
    /\ sub' = [sub EXCEPT ![w] = s]
    /\ last' = [last EXCEPT ![w] = IsFinalAttempt(made[s])]
    /\ UNCHANGED <<rowVars, stageVars, statement, card, api, made, stalls, verdict,
                   reqVars, faults>>

\* The backoff of a failed attempt elapses.
Promote(s) ==
    /\ job[s] = "delayed"
    /\ job' = [job EXCEPT ![s] = "waiting"]
    /\ UNCHANGED <<rowVars, stageVars, statement, card, api, made, stalls, lock,
                   slotVars, reqVars, faults>>

\* The lock is not renewed in time; the processor call goes on regardless.
LockLapse(s) ==
    /\ lock[s] # None
    /\ Fault("lock-lapse")
    /\ lock' = [lock EXCEPT ![s] = None]
    /\ UNCHANGED <<rowVars, stageVars, statement, card, api, job, made, stalls,
                   slotVars, reqVars>>

\* The stalled check puts an unlocked active job back, or fails it for good
\* without calling the processor.
Stalled(s) ==
    /\ job[s] = "active"
    /\ lock[s] = None
    /\ stalls' = [stalls EXCEPT ![s] = @ + 1]
    /\ job' = [job EXCEPT ![s] = IF stalls[s] < MaxStalls THEN "waiting" ELSE "failed"]
    /\ UNCHANGED <<rowVars, stageVars, statement, card, api, made, lock, slotVars,
                   reqVars, faults>>

\* The processor call ends and the slot is free again.
Release(w) ==
    /\ pc' = [pc EXCEPT ![w] = "idle"]
    /\ sub' = [sub EXCEPT ![w] = None]
    /\ last' = [last EXCEPT ![w] = FALSE]
    /\ verdict' = [verdict EXCEPT ![w] = None]

\* The processor returned; only the holder of the lock may complete the job.
Complete(w) ==
    /\ pc[w] = "ack"
    /\ Release(w)
    /\ IF lock[sub[w]] = w
       THEN /\ job' = [job EXCEPT ![sub[w]] = "completed"]
            /\ lock' = [lock EXCEPT ![sub[w]] = None]
       ELSE UNCHANGED <<job, lock>>
    /\ UNCHANGED <<rowVars, stageVars, statement, card, api, made, stalls, reqVars, faults>>

\* Mutant: one retry too many.
MayRetryTooOften(n) == n + 1 <= MaxAttempts

\* BullMQ's own count of the attempts left.
MayRetry(n) == n + 1 < MaxAttempts

\* The processor threw: retry after a backoff, or record the final failure.
Rethrow(w) ==
    /\ pc[w] = "rethrow"
    /\ Release(w)
    /\ IF lock[sub[w]] = w
       THEN /\ made' = [made EXCEPT ![sub[w]] = @ + 1]
            /\ job' = [job EXCEPT ![sub[w]] =
                  IF MayRetry(made[sub[w]]) THEN "delayed" ELSE "failed"]
            /\ lock' = [lock EXCEPT ![sub[w]] = None]
       ELSE UNCHANGED <<job, made, lock>>
    /\ UNCHANGED <<rowVars, stageVars, statement, card, api, stalls, reqVars, faults>>

\* The worker process dies; the locks of its active jobs expire.
WorkerCrash ==
    /\ Fault("worker-crash")
    /\ \E w \in Slots : pc[w] # "idle"
    /\ pc' = [w \in Slots |-> "idle"]
    /\ sub' = [w \in Slots |-> None]
    /\ last' = [w \in Slots |-> FALSE]
    /\ verdict' = [w \in Slots |-> None]
    /\ lock' = [s \in Submissions |-> None]
    /\ UNCHANGED <<rowVars, stageVars, statement, card, api, job, made, stalls, reqVars>>

-----------------------------------------------------------------------------
(* The worker: processSubmission, one step per await. *)

Goto(w, there) == pc' = [pc EXCEPT ![w] = there]

\* What every step of a processor call leaves alone.
Untouched == UNCHANGED <<finalGrade, overridden, card, api, jobVars, sub, last, reqVars>>

\* Mutant: hasStage never finds the resolve stage.
AfterLoadUnresolved(s) == IF status[s] = "committed" THEN "ack" ELSE "evaluating"

\* Mutant: a submission already under evaluation is taken for somebody else's.
AfterLoadSkipsRunning(s) ==
    IF status[s] \in {"committed", "evaluating"} THEN "ack"
    ELSE IF resolveStage[s] # "absent" THEN "resolving" ELSE "evaluating"

\* A committed submission is final; the resolve stage exists or it does not.
AfterLoad(s) ==
    IF status[s] = "committed" THEN "ack"
    ELSE IF resolveStage[s] # "absent" THEN "resolving" ELSE "evaluating"

Load(w) ==
    /\ pc[w] = "load"
    /\ Goto(w, AfterLoad(sub[w]))
    /\ Untouched /\ UNCHANGED <<status, aiGrade, stageVars, statement, verdict, faults>>

SetResolving(w) ==
    /\ pc[w] = "resolving"
    /\ status' = [status EXCEPT ![sub[w]] = "resolving-source"]
    /\ Goto(w, "startResolve")
    /\ Untouched /\ UNCHANGED <<aiGrade, stageVars, statement, verdict, faults>>

StartResolve(w) ==
    /\ pc[w] = "startResolve"
    /\ resolveStage' = [resolveStage EXCEPT ![sub[w]] = "running"]
    /\ Goto(w, "resolve")
    /\ Untouched /\ UNCHANGED <<status, aiGrade, evalStage, statement, verdict, faults>>

\* The source yields a statement, yields at most a title, or cannot be resolved.
Resolve(w) ==
    /\ pc[w] = "resolve"
    /\ \/ /\ statement' = [statement EXCEPT ![ProblemOf[sub[w]]] = TRUE]
          /\ Goto(w, "resolved")
       \/ Goto(w, "resolved") /\ UNCHANGED statement
       \/ Goto(w, "unresolved") /\ UNCHANGED statement
    /\ Untouched /\ UNCHANGED <<status, aiGrade, stageVars, verdict, faults>>

\* A dead source is a failed stage, not a failed submission.
FinishResolve(w) ==
    /\ pc[w] \in {"resolved", "unresolved"}
    /\ resolveStage' = [resolveStage EXCEPT ![sub[w]] =
                          IF pc[w] = "resolved" THEN "done" ELSE "failed"]
    /\ Goto(w, "evaluating")
    /\ Untouched /\ UNCHANGED <<status, aiGrade, evalStage, statement, verdict, faults>>

SetEvaluating(w) ==
    /\ pc[w] = "evaluating"
    /\ status' = [status EXCEPT ![sub[w]] = "evaluating"]
    /\ Goto(w, "startEval")
    /\ Untouched /\ UNCHANGED <<aiGrade, stageVars, statement, verdict, faults>>

StartEvaluate(w) ==
    /\ pc[w] = "startEval"
    /\ evalStage' = [evalStage EXCEPT ![sub[w]] = "running"]
    /\ Goto(w, "judging")
    /\ Untouched /\ UNCHANGED <<status, aiGrade, resolveStage, statement, verdict, faults>>

\* The model answers with a gradation, or the call or its parsing throws.
Judge(w) ==
    /\ pc[w] = "judging"
    /\ \/ \E g \in Gradations : verdict' = [verdict EXCEPT ![w] = g] /\ Goto(w, "storing")
       \/ Goto(w, "caught") /\ UNCHANGED verdict
    /\ Untouched /\ UNCHANGED <<status, aiGrade, stageVars, statement, faults>>

StoreVerdict(w) ==
    /\ pc[w] = "storing"
    /\ status' = [status EXCEPT ![sub[w]] = "awaiting-review"]
    /\ aiGrade' = [aiGrade EXCEPT ![sub[w]] = verdict[w]]
    /\ Goto(w, "finishing")
    /\ Untouched /\ UNCHANGED <<stageVars, statement, verdict, faults>>

FinishEvaluate(w) ==
    /\ pc[w] = "finishing"
    /\ evalStage' = [evalStage EXCEPT ![sub[w]] = "done"]
    /\ Goto(w, "ack")
    /\ Untouched /\ UNCHANGED <<status, aiGrade, resolveStage, statement, verdict, faults>>

\* Mutant: the last attempt fails the stage and forgets the row.
FailAttemptForgetsRow(w) ==
    /\ pc[w] = "caught"
    /\ evalStage' = [evalStage EXCEPT ![sub[w]] = IF last[w] THEN "failed" ELSE "running"]
    /\ Goto(w, "rethrow")
    /\ Untouched /\ UNCHANGED <<status, aiGrade, resolveStage, statement, verdict, faults>>

\* The catch: only the last attempt fails the stage and goes on to the row.
FailAttempt(w) ==
    /\ pc[w] = "caught"
    /\ evalStage' = [evalStage EXCEPT ![sub[w]] = IF last[w] THEN "failed" ELSE "running"]
    /\ Goto(w, IF last[w] THEN "marking" ELSE "rethrow")
    /\ Untouched /\ UNCHANGED <<status, aiGrade, resolveStage, statement, verdict, faults>>

MarkFailed(w) ==
    /\ pc[w] = "marking"
    /\ status' = [status EXCEPT ![sub[w]] = "failed"]
    /\ Goto(w, "rethrow")
    /\ Untouched /\ UNCHANGED <<aiGrade, stageVars, statement, verdict, faults>>

\* Mutant: a rejected update of the verdict is swallowed.
AfterDbErrorSwallowed(there) ==
    CASE there \in {"load", "caught", "marking"} -> "rethrow"
      [] there = "resolved" -> "unresolved"
      [] there = "storing" -> "finishing"
      [] OTHER -> "caught"

\* Mutant: when the stage cannot be finished, the model is asked again in place.
AfterDbErrorAsksAgain(there) ==
    CASE there \in {"load", "caught", "marking"} -> "rethrow"
      [] there = "resolved" -> "unresolved"
      [] there = "finishing" -> "judging"
      [] OTHER -> "caught"

\* Where a rejected statement takes the call: out of processSubmission, into
\* runResolveSource's catch, or into the outer catch.
AfterDbError(there) ==
    CASE there \in {"load", "caught", "marking"} -> "rethrow"
      [] there = "resolved" -> "unresolved"
      [] OTHER -> "caught"

DbError(w) ==
    /\ pc[w] \notin {"idle", "judging", "ack", "rethrow"}
    /\ Fault("db-error")
    /\ Goto(w, AfterDbError(pc[w]))
    /\ Untouched /\ UNCHANGED <<status, aiGrade, stageVars, statement, verdict>>

-----------------------------------------------------------------------------
(* The API: committing a final gradation. *)

\* Mutant: a verdict may be accepted while it is being prepared.
RefusesNotEvaluating(s, g) == \/ status[s] = "committed"
                              \/ g = None /\ status[s] \notin {"evaluating", "awaiting-review"}

\* What the handler refuses with 409: a second commit, or accepting no verdict.
Refuses(s, g) == \/ status[s] = "committed"
                 \/ g = None /\ status[s] # "awaiting-review"

\* override ?? row.aiGradation
FinalGradation(s, g) == IF g # None THEN g ELSE aiGrade[s]

\* Mutant: every explicit gradation counts as an override.
OverriddenByAny(s, g) == g # None

\* override && override !== row.aiGradation
Overridden(s, g) == g # None /\ g # aiGrade[s]

\* The clients' behaviour the run assumes.
ClientMaySend(s, g) ==
    /\ g = None \/ EarlyCommit \/ status[s] \in Settled
    /\ ConcurrentCommit \/ \A q \in Requests : rpc[q] \notin {"readCard", "write"}

CommitRead(q, s, g) ==
    /\ rpc[q] = "idle"
    /\ status[s] # "absent"
    /\ ClientMaySend(s, g)
    /\ ~Refuses(s, g)
    /\ FinalGradation(s, g) # None
    /\ rpc' = [rpc EXCEPT ![q] = "readCard"]
    /\ rsub' = [rsub EXCEPT ![q] = s]
    /\ chosen' = [chosen EXCEPT ![q] = FinalGradation(s, g)]
    /\ differs' = [differs EXCEPT ![q] = Overridden(s, g)]
    /\ UNCHANGED <<rowVars, stageVars, statement, card, api, jobVars, slotVars, seen, faults>>

\* Answers that change nothing: 409, after which the client may try again, and
\* 400, which no client is meant to see.
CommitRefused(q, s, g) ==
    /\ rpc[q] = "idle"
    /\ status[s] # "absent"
    /\ ClientMaySend(s, g)
    /\ Refuses(s, g) \/ FinalGradation(s, g) = None
    /\ rpc' = [rpc EXCEPT ![q] = IF Refuses(s, g) THEN "idle" ELSE "bad"]
    /\ UNCHANGED <<rowVars, stageVars, statement, card, api, jobVars, slotVars,
                   rsub, chosen, differs, seen, faults>>

ReadCard(q) ==
    /\ rpc[q] = "readCard"
    /\ seen' = [seen EXCEPT ![q] = card[ProblemOf[rsub[q]]]]
    /\ rpc' = [rpc EXCEPT ![q] = "write"]
    /\ UNCHANGED <<rowVars, stageVars, statement, card, api, jobVars, slotVars,
                   rsub, chosen, differs, faults>>

\* Mutant: the card read is written back unscheduled.
NextCardSame(n) == n

\* scheduler.next counts one more review of the card the handler read.
NextCard(n) == n + 1

\* One transaction: the card and the row.
WriteCommit(q) ==
    /\ rpc[q] = "write"
    /\ card' = [card EXCEPT ![ProblemOf[rsub[q]]] = NextCard(seen[q])]
    /\ status' = [status EXCEPT ![rsub[q]] = "committed"]
    /\ finalGrade' = [finalGrade EXCEPT ![rsub[q]] = chosen[q]]
    /\ overridden' = [overridden EXCEPT ![rsub[q]] = differs[q]]
    /\ rpc' = [rpc EXCEPT ![q] = "done"]
    /\ rsub' = [rsub EXCEPT ![q] = None]
    /\ chosen' = [chosen EXCEPT ![q] = None]
    /\ differs' = [differs EXCEPT ![q] = FALSE]
    /\ seen' = [seen EXCEPT ![q] = 0]
    /\ UNCHANGED <<aiGrade, stageVars, statement, api, jobVars, slotVars, faults>>

-----------------------------------------------------------------------------
(* The specification. *)

WorkerStep(w) ==
    \/ Load(w) \/ SetResolving(w) \/ StartResolve(w) \/ Resolve(w) \/ FinishResolve(w)
    \/ SetEvaluating(w) \/ StartEvaluate(w) \/ Judge(w) \/ StoreVerdict(w)
    \/ FinishEvaluate(w) \/ FailAttempt(w) \/ MarkFailed(w) \/ Complete(w) \/ Rethrow(w)

ApiStep(s) == EnqueueAcked(s) \/ MarkUnqueued(s)

QueueStep(s) == Flush(s) \/ Promote(s) \/ Stalled(s)

CommitStep(q) == ReadCard(q) \/ WriteCommit(q)

SubmissionFault(s) ==
    EnqueueTimeout(s) \/ EnqueueRejected(s) \/ MarkUnqueuedFails(s) \/ LockLapse(s)

Next ==
    \/ \E s \in Submissions : \/ CreateSubmission(s) \/ ApiStep(s) \/ QueueStep(s)
                              \/ SubmissionFault(s)
                              \/ \E w \in Slots : Take(w, s)
                              \/ \E q \in Requests, g \in Gradations \cup {None} :
                                    CommitRead(q, s, g) \/ CommitRefused(q, s, g)
    \/ \E w \in Slots : WorkerStep(w) \/ DbError(w)
    \/ \E q \in Requests : CommitStep(q)
    \/ ApiCrash
    \/ WorkerCrash

Spec == Init /\ [][Next]_vars

\* Live processes keep running: every call awaited returns or throws, Redis
\* runs what it is sent, BullMQ serves waiting jobs in order and rechecks
\* delayed and stalled ones.  Nothing forces a client to send a request.
Fairness ==
    /\ \A s \in Submissions : /\ WF_vars(EnqueueAcked(s))
                              /\ WF_vars(MarkUnqueued(s))
                              /\ WF_vars(QueueStep(s))
                              /\ WF_vars(\E w \in Slots : Take(w, s))
    /\ \A w \in Slots : WF_vars(WorkerStep(w))
    /\ \A q \in Requests : WF_vars(CommitStep(q))

FairSpec == Spec /\ Fairness

-----------------------------------------------------------------------------
(* What holds whatever fails. *)

\* A commit never reaches the answer 400, "No gradation available": a row shown
\* as awaiting review always carries the model's gradation, however many calls
\* of the worker, crashed or duplicated, wrote to it.
CommitHasGradation == \A q \in Requests : rpc[q] # "bad"

\* A client that polls the stages never sees the evaluation done on a row
\* without a gradation.
DoneIsGraded == \A s \in Submissions : evalStage[s] = "done" => aiGrade[s] # None

\* A row with a final gradation has been reviewed: the card and the row are
\* written together, and no later write of the worker takes either back.
FinalIsReviewed ==
    \A s \in Submissions :
        /\ finalGrade[s] # None => card[ProblemOf[s]] > 0
        /\ status[s] = "committed" => finalGrade[s] # None

\* Only the API, when it could not queue the job, or the worker, when no
\* attempt is left, may show a submission as failed.
FailsOnlyWhenGivenUp ==
    [][\A s \in Submissions :
          status[s] # "failed" /\ status'[s] = "failed" =>
              api[s] = "marking" \/ made[s] + 1 >= MaxAttempts]_vars

\* A gradation the learner may already have seen is replaced by another one only
\* after a fault, and only by a call that BullMQ delivered again, as a retry or
\* after a stall: within one delivery the model's first answer stands.
RegradedOnlyWhenRedelivered ==
    [][\A s \in Submissions :
          aiGrade[s] # None /\ aiGrade'[s] # aiGrade[s] =>
              faults > 0 /\ made[s] + stalls[s] > 0]_vars

-----------------------------------------------------------------------------
(* What holds as long as work is redelivered. *)

InFlight(s) == status[s] \in {"queued", "resolving-source", "evaluating"}

\* Somebody will still move the submission on.
Attended(s) ==
    \/ api[s] \in {"enqueueing", "marking"}
    \/ job[s] \in {"buffered", "waiting", "active", "delayed"}
    \/ \E w \in Slots : sub[w] = s

\* A submission in flight with no job, processor call or handler left to settle
\* it lost more calls to dying workers than BullMQ delivers again; while there
\* are no more crashes than that, there is none.
NeverStranded ==
    \A s \in Submissions :
        InFlight(s) /\ ~Attended(s) => stalls[s] > MaxStalls /\ faults > MaxStalls

\* As long as running calls keep their locks, a submission in flight with nobody
\* to settle it was hit by a fault: it has no job, its handler having died or
\* failed to say so, or one whose attempts or redeliveries are used up.
StrandedIsGivenUp ==
    \A s \in Submissions : InFlight(s) /\ ~Attended(s) =>
        /\ faults > 0
        /\ \/ job[s] = "none" /\ api[s] \in {"crashed", "refused"}
           \/ job[s] = "failed" /\ (made[s] = MaxAttempts \/ stalls[s] > MaxStalls)

\* Every submission stored is eventually graded, given up or committed, unless
\* BullMQ itself gives its job up because its calls died too often.
Settles ==
    \A s \in Submissions :
        status[s] = "queued" ~> status[s] \in Settled \/ stalls[s] > MaxStalls

-----------------------------------------------------------------------------
(* What the learner is promised. *)

\* Once committed, a submission keeps its status and its final gradation: "a
\* committed submission is final".
CommittedIsFinal ==
    [][\A s \in Submissions : status[s] = "committed" =>
          status'[s] = "committed" /\ finalGrade'[s] = finalGrade[s]]_vars

\* A submission is committed at most once; the second commit is refused.
CommittedOnce ==
    [][\A q \in Requests : rpc[q] = "write" /\ rpc'[q] = "done" =>
          status[rsub[q]] # "committed"]_vars

\* The card counts one review for each committed submission of its problem, as
\* the lifecycle promises (the theorem CommitsAreReviews).
EveryCommitIsAReview ==
    \A p \in Problems :
        card[p] = Cardinality({s \in Submissions : ProblemOf[s] = p /\ finalGrade[s] # None})

\* A submission shown as failed is not taken up again; it can only be committed.
FailedStaysFailed ==
    [][\A s \in Submissions :
          status[s] = "failed" => status'[s] \in {"failed", "committed"}]_vars

\* The row says whether the learner disagreed with the gradation it shows.
OverrideIsHonest ==
    \A s \in Submissions :
        status[s] = "committed" => (overridden[s] <=> finalGrade[s] # aiGrade[s])

\* The note is not graded before the source was resolved or given up.
ResolvedBeforeGraded ==
    \A s \in Submissions :
        status[s] \in {"evaluating", "awaiting-review"} =>
            resolveStage[s] \in {"absent", "done", "failed"}

PhaseOf(s) == CASE status[s] = "awaiting-review" -> "graded"
                [] InFlight(s) -> "open"
                [] OTHER -> status[s]

Lifecycle == INSTANCE SubmissionLifecycle WITH
    phase   <- [s \in Submissions |-> PhaseOf(s)],
    verdict <- aiGrade,
    final   <- finalGrade,
    reps    <- card

\* With clients that wait for the verdict and commit one at a time, and no fault
\* but that Redis may refuse a job, the pipeline implements the lifecycle, its
\* liveness included.
ImplementsLifecycle == Lifecycle!Spec

=============================================================================
