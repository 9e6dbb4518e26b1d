# Recogno server: TLA+ models, model checks and proofs

Recogno trains a learner to recognise which algorithmic pattern a problem asks
for. Two flows feed one spaced-repetition schedule (FSRS): the *drill*, which
shows a problem and scores a guess, and the *submission* flow, in which the
learner records a note and a solution, a model grades it in the background, and
the learner commits a final gradation. This directory models the parts of the
server whose correctness depends on the order of steps: handlers of the API
that interleave between awaits, the evaluation worker and its queue, sessions
and single-use tokens, the bank of problems that learners, scripts and releases
write side by side, and the pure functions that map an answer to a rating and
an input to the problem it names.

## Inventory

Paths are relative to `src/packages/`.

| Component | State it keeps | Operations | What is hard | What makes it correct |
|---|---|---|---|---|
| Submission producer, `api/src/services/submissions.ts`, `shared/src/queue/submissions.ts` | `problem_submissions`, `submission_stages`, the BullMQ job | `createSubmission` (one transaction, then an enqueue raced against 5 s) | the enqueue may time out and still happen, or never happen | a submission stored is eventually settled; one shown failed stays failed |
| Evaluation worker, `worker/src/queues/submissionEvaluation.ts` | the same rows, the job's attempts and lock | load, resolve source, evaluate, fail or retry | three slots, three attempts with backoff, crashes, redelivery, overlapping calls | committed rows are final; a failure is shown only when no retry is left; verdict and status agree |
| Commit, `api/src/routes/submissions.ts` | `problem_submissions`, `srs_cards` | accept or override the gradation | check, card read and transaction are three awaits | one review per submission, none lost |
| Drill, `api/src/routes/drill.ts`, `api/src/drill/*.ts` | `srs_cards`, `drill_attempts`, `drill_attempt_patterns` | next, submit, due count | same card as the commit; choice among due, unseen and review-ahead | no review lost, no card shown early while something was not seen or was due |
| Scoring, `api/src/drill/scoring.ts`, `shared/src/domain/gradation.ts`, `patterns.ts` | none | correctness, speed, composite, rating | boundaries of bands and clamps | monotone, in range, documented ceilings |
| Scoring settings, `api/src/services/scoringSettings.ts` | `user_scoring_settings` | get, set, clear | read between a drill's reads and its write | thresholds used are ordered |
| Sessions, `api/src/services/tokens.ts`, `api/src/routes/auth.ts` | `refresh_tokens` | issue, rotate, revoke, revoke all, purge | rotation reads, then revokes, then issues | a token is redeemed once; a reset ends every session |
| Single-use tokens, `api/src/services/authTokens.ts`, `api/src/routes/accountRecovery.ts` | `auth_tokens`, `users` | issue, consume; verify, forgot, reset | two requests or two redemptions at once | redeemed at most once; one outstanding |
| Accounts, `api/src/routes/auth.ts`, `googleAuth.ts` | `users`, `user_identities` | register, login, link or create | check-then-insert against unique indexes | one account per address, links stay with their owner |
| Decks and problems, `api/src/routes/decks.ts`, `shared/src/domain/problemInput.ts`, the attempt route of `submissions.ts` | `decks`, `problems` | create a deck, list, open, add a problem, attempt one again | lookup, choice of slug and insert are separate; two unique indexes decide | an add of what is there is an attempt at it; nobody touches another learner's problems |
| Problem sources, `worker/src/services/problemSource.ts` | `problems.statement` | resolve a link or a slug | seconds pass between the lookup and the write; a seed rewrites the row it was taken from | a statement comes from the problem's own source |
| Review badge and queue, `api/src/routes/review.ts` | none | count, next due date, queue | count and date are separate reads | the two flows partition what is due; a badge that counts something has a date |
| Seed, `shared/src/db/seed.ts`, `fixtures.ts`, `shared/src/domain/decks.ts` | `decks`, `problems`, `problem_patterns`, `tells` | upsert, relocate, clear and rewrite alternatives, retire decks, in one transaction | releases come in any order, while learners work on the rows | the bank is that of the release; idempotent; history and learners' rows kept |
| Tell generation, `worker/src/scripts/generateTells.ts` | `tells` | read what lacks a tell, draft each | the list is read once and worked off for minutes | a curator's tell is never replaced |
| Infrastructure: ping queue, mailer, logger, env, migrations, swagger, health, Gemini client, prompts | none of interest | | I/O | not modelled |

The components interact through Postgres rows (every handler is several
statements with awaits between them, and only some of them in a transaction),
through the one BullMQ queue, and through the clock (due dates, expiries). The
API process and the worker process share nothing else.

## Modules

| Module | Models | Kind |
|---|---|---|
| `SubmissionPipeline` | producer, queue, worker and commit | four components composed |
| `SubmissionLifecycle` | what the learner is promised of a submission | abstract specification |
| `MCSubmissionPipeline` | instances of the pipeline | TLC |
| `SubmissionPipelineProofs` | what the pipeline keeps under every fault | TLAPS |
| `LifecycleProofs` | what it keeps under some faults: order, stranding, reviews, the refinement, recovery | TLAPS |
| `Scoring` | scores, bands, ratings, as operators | pure functions |
| `MCScoring` | one answer to a drill, varied one input at a time | TLC, properties of `Scoring` |
| `ScoringLemmas`, `ScoringProofs` | lemmas on the operators, theorems about `MCScoring` | TLAPS |
| `Drill` | selection, reviews of both flows, badges, bands, tells (extends `Scoring`) | components composed |
| `MCDrill` | instance of the drill | TLC |
| `DrillProofs` | selection, reviews, ratings and badges | TLAPS |
| `Accounts` | account, Google identity, sessions, links of one address | components composed |
| `AddressOwnership` | what the owner of an address is promised | abstract specification |
| `MCAccounts` | instance of the accounts | TLC |
| `AccountsProofs` | links, sessions, verification, resets, and the refinement of `AddressOwnership` | TLAPS |
| `ProblemInput` | what a learner's input is and which problem it names, as operators | pure functions |
| `InputProofs` | what the slugs of links are worth, for links of any length | TLAPS |
| `Bank` | decks, problems, sources, tells and the seed | four components composed |
| `MCBank` | instance of the bank, its inputs read by `ProblemInput` | TLC |
| `BankProofs` | safety of the bank | TLAPS |

In every module an action is the code between two awaits: one SQL statement or
transaction, one Redis command, one call to the model. A transaction is one
step when nothing can be observed between its first row lock and its commit.
A handler that its first read refuses (401, 404, 409) changes nothing and is a
stuttering step. Variables marked as history in a module are read by no step.

### SubmissionPipeline

| State | Code |
|---|---|
| `status`, `aiGrade`, `finalGrade`, `overridden` | the row of `problem_submissions` |
| `resolveStage`, `evalStage` | its two rows of `submission_stages` |
| `statement`, `card` | `problems.statement` is there; `srs_cards.reps` |
| `api` | where `createSubmission` is |
| `job`, `made`, `stalls`, `lock` | the BullMQ job: state, `attemptsMade`, stalled count, lock holder |
| `pc`, `sub`, `last`, `verdict` | each of the worker's concurrent calls of `processSubmission` |
| `rpc`, `rsub`, `chosen`, `differs`, `seen` | each commit request |

`CreateSubmission` (with `FoundUnresolved`, what the routes saw of the problem one
await earlier), `EnqueueAcked`, `EnqueueTimeout`, `EnqueueRejected`,
`MarkUnqueued` and `Flush` are the producer (`Flush`: the command ioredis
buffered is sent after the caller gave up). `Take`, `Promote`, `Stalled`,
`Complete`, `Rethrow` and `LockLapse` are BullMQ as the worker's options use it.
`Load` to `MarkFailed` are `processSubmission`, `DbError` a rejected statement at
any of its awaits. `CommitRead`, `ReadCard` and `WriteCommit` are the commit
route. `EarlyCommit` and `ConcurrentCommit` say how clients behave; `Faults`
names the infrastructure faults a run admits.

### Scoring

Operators in integer units of 1e-4: the code rounds speed and composite to four
decimals, and `RoundDiv` is that rounding.
`CorrectnessScore`, `SpeedScore`, `RationaleScore`, `CompositeScore`,
`ToFsrsRating` are `scoring.ts`; `GradationScore` the tiers of the submission
flow. Patterns are any set, the curated neighbours any relation.

### Drill

`req[r]` is the request in slot r with the await it has reached (`at`) and what
it holds in local variables. `AskNext`, `FindDue`, `FindUnseen`, `FindAhead` are
`GET /drill/next`; `BeginDrill`, `JudgeRationale`, `ReadBands`, `ReadCard`,
`Record`, `ReviewFails` are `POST /drill/submit`, whose last three are shared with
the part of a commit that reviews (`BeginCommit`); `AskBadge`, `CountDue`,
`FindNextDue` the two badges; `PutThresholds`, `ClearThresholds` the settings;
`WriteTell` the tell generator. The interval FSRS schedules is external: a
better grade schedules further out, and every review adds one to the count.
`attempts`, `commits` and `overlaps` are history: the reviews recorded by each flow,
and how many began while another of the same problem was under way
(`UnderReview`). The deck of a problem is a constant, so a seed that moves a row
between the queries of a selection is not covered here.

### Accounts

`user` is the row of one address, `identity` whether Google is linked, `refresh`
the sessions, `mail` the links, `inbox` those delivered, `req[r]` the handler in
slot r. `Login`, `Register`, `Google`, `Refresh`, `Resend`, `Forgot`, `Confirm`
and `Reset` are the first reads of the handlers; `Logout` and `LogoutAll` are one
statement each. `IssueSession`, `Rotate`, `InsertUser`, `MatchUser`, `LinkUser`,
`CreateUser`, `FindOutstanding`, `ReplaceLinks`, `SendLink`, `MailFails`,
`ClaimLink`, `VerifyUser`, `SetPassword`, `ResetEnds` are their later steps, `Fail`
a rejected statement or the death of the process at any of them. `Follows` says
where a handler goes after a step that several share. `FindOutstanding` and
`ReplaceLinks` split the transaction of `issueAuthToken`: its update sees the
rows there are when it starts and not those another transaction inserts while
it waits for their locks. `Ownership` maps this state to that of
`AddressOwnership`: a link is none, open, taken (redeemed, and its effect still
to come: `InHand`), used, or void (replaced), and the sessions are not seen.

### ProblemInput

`Slugify`, `SlugFromUrl`, `DetectProblemSource` and `SlugOfInput` are
`problemInput.ts` on words instead of characters: an input is a link, a token or
a text, and what `slugify` joins with hyphens is a sequence of words.
`FetchableUrl` is the guard of `problemSource.ts` on the links it fetches.
`Telling` are the segments of a path that name a problem (no route word, no
name of a view), and the slug is read off the last of them. `MCBank` feeds
`SourceOf`, `SlugOf` and `Fetchable` of `Bank` from these operators, so that the
run checks both together; `Bank` and its proofs take them as arbitrary functions
of the input, and `About`, the problem an input is about, as another.

### Bank

| State | Code |
|---|---|
| `decks` | `decks`, a row named by its owner (none for a system deck) and slug |
| `problem`, `serial` | `problems` by id, and the last id given |
| `tell`, `accepts` | `tells.source` and `problem_patterns` of a problem |
| `req[r]` | a request with the await it has reached and its local variables, and afterwards the resolve stage of the evaluation it queued |
| `pending` | the list `generateTells.ts` read and has not worked off |
| `seeded` (history) | the release seeded last |

`AskAdd`, `FindExisting`, `ChooseSlug`, `InsertProblem` and `Record` are `POST
/decks/:deckId/problems`; `AskAgain` and `Record` an attempt at a problem there
is; `AskCreate` and `InsertDeck` `POST /decks`; `AskOpen` and `ShowRows` `GET
/decks/:deckId`. `Taken`, `Carries` and `DeckIsNew` are the unique indexes, which
make the loser of a race fail (500). `Resolve`, `StoreSource` and `RetryResolve`
are the reads and the write of the worker's resolve stage, whose control is in
`SubmissionPipeline`. `StartTells` and `WriteTell` are the tell script.
`Seed` is `seed.ts` as one step, which its transaction allows (nothing it writes
is seen before it commits, and the rows of the decks it locks first keep a
second seed out); `Relocated`, `Found`, `Upserted`, `TellAfter`, `AcceptsAfter`,
`Retired` and `Cascade` are its statements in their order, and `Outcomes` the
banks it may leave, one for each numbering of what it inserts. `Ingest` is an
operator who adds a curated problem by hand, the only way one is ever without a
tell.

## Runs

| Run | Instance | States | What it shows |
|---|---|---|---|
| `PipelineFaults` | 1 submission, 2 slots, 1 commit request, 2 attempts, 2 gradations, every kind of fault, 2 faults, early commits, one at a time | 827,661 | what holds whatever fails |
| `PipelineRefines` | 2 submissions of one problem, 1 slot, 2 requests, 2 attempts, one enqueue refused, clients that wait, fair | 483,480 | what the learner is promised; the pipeline implements `SubmissionLifecycle` |
| `PipelineLeased` | 1 submission, 2 slots, 2 requests, 2 attempts, 2 faults of any kind but a lapsed lock, any client | 255,383 | what strands a submission, and the order of its stages |
| `PipelineRecovery` | 1 submission, 3 attempts, 1 stall as BullMQ defaults to, 3 crashes or enqueue failures, fair | 97,166 | after one crash the submission is taken up again and settles; what strands it is a second |
| `PipelineEarlyCommit` | 1 submission, commit before the verdict | violation | finding 1 |
| `PipelineDoubleCommit` | 1 submission, 2 commits in flight | violation | finding 2 |
| `PipelineLateJob` | 1 submission, enqueue timeout | violation | finding 3 |
| `Scoring` | 5 patterns, 3 guesses, 0 to 315 s in steps of 15, 3 verdicts, 3 sets of bands | 74,250 | ranges, ceilings and tiers of the score |
| `ScoringUnreasoned` | the same | violation | finding 4 |
| `Drill` | 3 problems in 2 decks, 2 requests, 3 mixes, clock to 2, 2 reviews | 1,398,933 | selection, reviews and badges side by side |
| `Accounts` | 2 requests, 3 sessions, 2 links, 2 passwords, 5 mixes, 2 ends of all sessions | 316,946 | sessions, links and verification side by side; the handlers implement `AddressOwnership` |
| `Bank` | 2 learners, 3 categories, 3 releases in any order, 2 fixtures, 4 inputs, 3 rows, 2 requests, 3 mixes | 117,127 | learners, the worker, the tell script and releases on one bank |

### Why the bounds are enough

- Pipeline: two slots are what it takes for two calls to overlap on one
  submission; the worker's third adds nothing between two submissions. Two
  attempts give a first failure that must retry and a last that must not, three
  (the job's own number, in `PipelineRecovery`) one in between. Two faults let a
  crash hit the redelivery of a lost lock; three, in `PipelineRecovery`, a late
  enqueue, a crash that is redelivered and the crash that is not. The limit of one
  stall is BullMQ's default everywhere, as the worker sets none. Two gradations let
  a redelivered call change the verdict. Two commits at once are in
  `PipelineLeased` and `PipelineDoubleCommit`. One problem for both submissions
  makes the card and the statement shared; two submissions meet on one slot, and
  their commits in two requests. The proofs have no bound on slots or submissions.
- Scoring: the grid of 15 s passes through the grace point (45) and the floor
  (300), where the curve changes; two accepted patterns and three guesses give
  every pair of exact, close and unrelated matches.
- Drill: two requests interleave at every await; a problem with its tell, one
  that gains it during a selection and one that never has it meet every branch
  of the three queries in either deck, and both flows of a badge; a guess that is
  half right is rated Again, Hard or Good, as it is argued, and otherwise under
  other bands; a clock of 2 makes cards due at, before
  and after the moment of the query.
- Accounts: two handlers interleave at every statement. Three sessions are a
  sign-in, its exchange and a concurrent one; two links an earlier and a later
  one. `Mixes` names the kinds of request that are in flight side by side in
  one behaviour, so that each behaviour holds the handlers that share rows.
  The proofs have no such bound, and no restriction on mixes.
- Bank: three releases move a fixture, drop one, retire a deck and bring it
  back, move a category and drop an alternative, and any sequence of them is a
  behaviour, rollbacks and re-runs included. Two learners make "another
  learner's problem of that slug" exist; three of the inputs are one problem said
  in three ways, and its slug is that of a fixture, the fourth is another of the
  same contest. One category is in every release: its row is what keeps two
  seeds apart. Three rows hold the two
  fixtures and a learner's problem, or a fixture and a problem of each learner,
  or the two rows of an add and its suffixed copy next to a fixture; the proofs
  have no bound on rows. A learner's problem of the same slug keeps the index
  busy when the seed moves a row.

Submissions, slots, requests, gradations, sessions, links, passwords and learners are
interchangeable and used as symmetry sets where no temporal property with
fairness is checked. `CHECK_DEADLOCK FALSE` appears where the system may stop:
no client has to send anything, and the bounded sets of rows run out.

### Fairness

Only `PipelineRefines` and `PipelineRecovery` assume it (`Fairness` in
`SubmissionPipeline`): weak fairness of each step of a live process. Every
awaited call returns or throws (statements and model calls have timeouts or
fail with the connection), Redis runs the commands it is sent, BullMQ promotes
delayed jobs, rechecks stalled ones, and serves waiting jobs in order, so a
waiting job is taken. Nothing forces a client to submit or to commit, and
nothing forces a fault or its absence, beyond the bound on their number.
`Settles` and `NeverStranded` are checked with the faults after which work is
redelivered, and say how often: BullMQ delivers a job again after one stall, and
fails it after the second without a call of the processor, so a worker that
dies twice under one job leaves its row in flight for good. This is the
exemption in both (`stalls[s] > MaxStalls`), and `NeverStranded` adds that it takes as
many faults. They fail, by design of the code, also when the API dies between its
transaction and the enqueue, and when the statement that marks a row as failed
is itself rejected; the worker only counts such rows when it boots.

### Abstract specification

`SubmissionLifecycle` says what a learner may rely on: a submission is open,
then graded or given up, once; then committed at most once, with a gradation
that never changes; every commit counts one review; and an open submission does
not stay open. `Lifecycle` in `SubmissionPipeline` maps the three in-flight
statuses to open and reads verdict, final gradation and reviews from the row
and the card. `ImplementsLifecycle` holds with clients that wait for the verdict
and commit one at a time, and with enqueues that Redis refuses; its safety part
holds when the API dies at any point, too. This is as far as it goes: each of
the other faults (a dead worker, a lapsed lock, a rejected statement, an enqueue
that times out) alone lets a submission be evaluated after it was graded or given
up, and the findings show what early and concurrent commits do.

`AddressOwnership` says what the owner of an email address may rely on: an
account is verified by a mailed link or by Google's word, and stays so; it is
Google's word that attaches an identity to an account there is; a password is
changed by a reset link alone; a link has one effect at most, serves the purpose
it was mailed for, and has none once a later link replaced it. It says nothing of
sessions. `ImplementsOwnership` holds for the handlers as they interleave and die,
with no condition: the steps that matter are the committed statements, and each
is one step of the promise. A death between the redemption of a link and its
effect wastes the link (`Waste`), which the promise allows.

## Findings

1. `PipelineEarlyCommit`: a commit with an explicit gradation while the worker
   runs is overwritten by the worker's next status update. The worker says that
   a committed submission is final, and checks it only at load.
2. `PipelineDoubleCommit`: two commits in flight both pass the status check,
   both succeed, and both advance the card; a second commit is meant to be
   refused with 409.
3. `PipelineLateJob`: an enqueue that lost to its timeout may still be executed
   by ioredis, so a submission the API showed as failed is evaluated after all.
4. `ScoringUnreasoned`: a correct guess without reasoning is documented to land
   at Hard; given quickly it scores up to 0.7 and is rated Good.

## Properties

Pipeline: `CommitHasGradation`, `DoneIsGraded`, `FinalIsReviewed`,
`FailsOnlyWhenGivenUp` and `RegradedOnlyWhenRedelivered` (a gradation the learner may
have seen is replaced only by a call that was delivered again after a fault) hold
under every fault; `ResolvedBeforeGraded` (the source
comes before the verdict, on every redelivery) and `StrandedIsGivenUp` (what is
left in flight with nobody to settle it was hit by a fault, and where) under
every fault but a lapsed lock, whatever clients do; `OverrideIsHonest` and `ImplementsLifecycle` (and with it
`EveryCommitIsAReview`, `CommittedIsFinal` and `FailedStaysFailed`) for waiting clients when Redis may refuse an enqueue (by the
proofs, but for liveness, also when the API may die); `NeverStranded` and `Settles`
with redelivered work, until the worker died once more often than BullMQ
redelivers. `OverrideIsHonest` speaks of no early commit and no redelivery: what a
stale row does to the flag then is not promised anywhere. Proved only:
`NoReviewLost` (under every fault, and with early commits: a card has no fewer reviews than
submissions were committed on its problem, if commits come one at a time).

Scoring: `ScoresInRange`, `WrongAtMostHard`, `CorrectNeverLapses`,
`ReasonedIsEasy`, `ExtraGuessNeverCosts`.

Drill: `NeverEmptyHanded`, `AheadOnlyWhenAllSeen`, `DueFirst` (selection against
everything that may run between its queries), `RatedByBandsInForce`,
`EveryAnswerIsAReview` (both flows together: the card is read and written back
without a lock, so reviews of one problem at once may count as one, and a card
lags by no more than the reviews that began beside another, and never leads),
`BadgeHonest` (the flows share what a badge counts, and it names a date);
`ServedIsInScope` is proved only. `DueFirst` exempts a card two reviews of which
overlapped, as it may hold the due date of the older one.

Accounts: `RedeemedOnce`, `EarlierLinksDie` (a link that was there when a later
request arrived; two issues that overlap leave two links), `ExchangedOnce` (but
for two exchanges of one session that are under way at once: both pass, although
`auth.ts:132` says that a token cannot be reused), `EndedMeansEnded`
and `OldPasswordSignsOut` (but for requests under way when the sessions are
ended, and until a reset that died between its two updates is followed by
another end), `ImplementsOwnership`. Proved only, and implied by the last:
`VerifiedIsEarned`, `StaysVerified`.

Bank: `OneRowPerFixture` and `HistoryKept` (a release moves rows with their
history, and never copies, renames or deletes them), `BankMatchesRelease` and
`RerunChangesNothing` (from one seed to the next the bank is that of the release,
whatever learners, the worker and the tell script do, and a second seed has
nothing to do), `PersonalStaysHome` (learners' problems never enter the bank, the
blind drill or the tell script, even under the slug of a fixture),
`StatementIsItsOwn` (not another learner's), `RepeatFindsItsRow` (an add of a
problem that was there when the request arrived) and `OneProblemOneRow` (the
inputs about one problem name one row, but for the suffixed copy that two adds at
once may leave, which the code makes on purpose; and an add ends at its own
problem). Proved only: `OwnProblemsOnly`, `DeckCreatedOnce`,
`CuratorsTellStands`, `NoCopies` (there is no suffixed slug unless two adds to one
deck were in flight at once).

Input, as theorems about the operators: every link has a slug that fits
(`SlugsFit`); what it says, typed, has that slug (`FormsAgree`); one index in two
contests is two problems (`ContestsAreKeptApart`); the editorial or the submissions
of a problem name it too (`ViewsLeaveTheSlug`).

`PROJECT.json` lists with each property a small change of the code that breaks
it, and with each hazard the properties that watch it.

## Proofs

All theorems hold for every value of the constants that satisfies the named
assumptions of the module: any sets of submissions, slots, requests, problems,
decks, sessions, links, passwords, learners, inputs, fixtures and releases, any
number of attempts and faults. The assumptions say that `None` is no member of
the sets it stands in for, that numbers are numbers, that bands stored are
ordered (the settings route checks it), that the problems and requests of the
drill are finite sets, that a release is finite, each fixture's category has a deck
(`decks.ts` throws otherwise) and one deck is in all releases, and that decks made before the first seed are
personal. The theorems on the grid of one answer (`ScoringProofs`) need none.

- **Pipeline** (`SubmissionPipelineProofs`). `Inv` strengthens the properties
  by what makes them inductive: a busy slot works on a submission and knows a
  last attempt as such (`SlotInv`); the lock of an active job belongs to the slot
  that processes it (`LockInv`), so only one call ends the job and counts the
  attempt; a job that will run again has an attempt left (`AttemptInv`); no job
  precedes its submission (`FreshInv`); a verdict about to be stored is one, and
  stays (`VerdictInv`); what is shown as graded is graded (`GradedInv`); a commit
  in flight has its gradation (`RequestInv`). Overlapping calls need no further
  invariant: no step ever takes a gradation back, and one that replaces it is of a
  call that was delivered again (`RegradesAreRedeliveries`).
- **Lifecycle** (`LifecycleProofs`). Four hypotheses on the constants say which
  faults and clients there are; each theorem names the one it needs. The runs
  `PipelineLeased`, `PipelineFaults`, `PipelineRefines` and `PipelineRecovery` satisfy
  `Leased`, `Serial`, `Calm` and `Redelivered`, in this order.
  `Leased` is any fault but a lapsed lock, and any client: a busy slot then holds
  the lock of its submission (`LeaseInv`), so no two calls overlap, `SourceInv`
  says what its row shows while it resolves, and `EndInv` that a job ends with its
  row settled unless a fault was spent on it; `ResolvedBeforeGraded` and
  `StrandedIsGivenUp` follow. `Serial` is commits one at a time, and every fault:
  the commit about to write knows its card as it is (`OneInv`), and the
  card is at least the number of submissions committed (`KeptInv`).
  `Calm` is clients that wait, an API that may die or be refused, and no other
  fault: `CalmInv` adds to `Inv` that locks and slots agree (`HolderInv`), that a
  job to run is about an open submission (`OpenInv`), that the one commit in
  flight knows its row and card as they are (`CommitInv`, `OneInv`), and
  that gradations follow the status (`GradesInv`). From it follow
  `OverrideIsHonest`, that the card is the number of committed submissions of its
  problem (`CountInv`, by finite cardinality), and, action by action,
  that every step of the pipeline is a step of `SubmissionLifecycle` or none
  (`PipelineIsALifecycle`), with `CommittedIsFinal` and `FailedStaysFailed` as its
  consequences. `Redelivered` is any number of crashes of the worker and of
  enqueues that time out or are refused: `RecoveryInv` says that a call holds its lock and knows a last
  attempt (`CallInv`), that a job which is over or was never stored leaves
  nothing in flight unless the API is about to say so (`JobInv`), and that each
  stall is a crash (`StallInv`); `NeverStranded` follows, which names the crashes
  that are too many.
- **Scoring**. The bounds of the axes and the monotonicity of the rating
  (`ScoringLemmas`) give the two ceilings, and that more guesses cost nothing,
  without reference to the grid of the run.
- **Drill**. `SelectionInv` says of each stage of a selection what the earlier
  queries established about the problems offered when it arrived, in a form
  that no other step can undo: cards and tells only appear. `Apart` says that two
  reviews of a problem are under way only if one began beside the other, `CoveredInv`
  that what is recorded is counted but for the overlaps, and so will be, one review of a
  burst excepted, all that the reviews under way may still record, whichever of
  them writes next; every step of a review begins it, ends it or leaves the set of them
  (`ReviewMoves`). With `BackedInv`, which bounds what a card counts, and what a review
  read of it, by what was recorded, `EveryAnswerIsAReview` follows: a lost update makes
  the card lag and never lead. `OwesInv` carries what was due through a selection:
  while it looks for due cards each is still due or was reviewed since, and once
  it passes on each lies beyond the moment of the query; reviews that took their
  time earlier have all been written by then (`Recent`), for which `Apart` is
  needed. `RatedInv` keeps the bands a review was rated by among
  those it saw, `BadgeInv` that what a badge counted can still be seen.
- **Accounts**. `HoldInv` says that what a request in flight holds exists, and
  makes `TypeOK` inductive. The lemma `NextLasts` states what no step undoes:
  rows stay, their histories only grow, a dead session stays dead and a
  consumed link consumed. `LinkInv` adds that an unconsumed link was never
  redeemed and that a transaction about to replace links knows those that were
  there when its request arrived and are not consumed yet. `EndInv` extends
  `EndedMeansEnded` to requests under way, which carry the claim from one
  session to the next through any chain of refreshes. `StaysVerified` follows
  from the type invariant step by step. `EarnedInv` adds to `VerifiedIsEarned` the
  requests that are about to verify: each has its redeemed link or Google's word.
  `ExchangeInv` says that an uncontested session has one
  exchange at most, under way or done, and `PasswordInv` carries the claim of a
  reset from its update of the password through the end of the sessions, over
  requests that checked an older one. For the refinement, `ServeInv` says that a
  request knows the purpose of the link it follows or is to replace, that a link
  in hand was redeemed and consumed, and that no two requests have one link in
  hand; a link that can still be claimed is then in nobody's hand, so its
  redemption is seen once (`LinkTaken`) and so is its effect (`LinkDropped`), and
  those a new link replaces were open and of its purpose (`LinkMailed`).
  `ArriveOwned` and `StepOwned` map each action, and `AddressIsOwned` follows.
- **Bank** (`BankProofs`). `Inv` is the type invariant, what the tables keep
  whatever happens (`TablesOK`: ids that were not given are used nowhere, no two
  rows of one slug in a deck, one curated row per slug, curated rows in system
  decks and personal ones in personal decks, each with a statement of its own) and
  what each request in flight relies on and remembers (`AllFine`). `Lasting` states
  what no step undoes: a row stays, with its slug, source and input, and a
  learner's row with its deck; it gives `HistoryKept`. `Seeding` says what one
  seed does to the tables and `Standing` what every other step leaves of it, so
  that `Released` holds from one seed to the next and gives `BankMatchesRelease`;
  a second seed then finds every fixture where it would put it and no deck
  to retire (`RerunChangesNothing`). A request carries the slug its input
  normalises to through the choice of a suffix, and so does its row: where inputs
  have one slug exactly if they are about one problem, `OneProblemOneRow` follows
  (`ProblemsAreNotDoubled`). `FreeInv` says that an add that found no row still has
  the plain slug free, as long as no other add to its deck is under way
  (`AddsApart`); hence `OnlyRacesDouble`. `AllReach` carries the slug of an input
  to the row an add ends at, for the second half of `OneProblemOneRow`.
- **Input** (`InputProofs`). The hypothesis of `ProblemsAreNotDoubled`, that inputs
  have one slug exactly if they are about one problem, rests on what is proved here of
  the operators, for paths and slugs of any length. They say "the
  last segment that tells", which exists by the least-number principle (`LastThere`,
  from the well-foundedness of the naturals in the library); the rest is what the
  cut, the join and the insertion of a segment do to it.

### Only model-checked

Liveness is out of reach of the proof system, as is whatever needs ENABLED:
`Settles`, and the fairness of `ImplementsLifecycle`, whose safety part is
`PipelineIsALifecycle`. Every other property of a passing run is also a
theorem; the Lifecycle theorems need the hypotheses named above, which the
configurations of their runs satisfy.

## Not modelled

- Infrastructure (ping queue, mailer, logger, environment, migrations, OpenAPI,
  health, model client, prompts, hashing): I/O whose outcomes are choices of the
  actions that call it.
- Access tokens are stateless and live out their fifteen minutes;
  `purgeDeadRefreshTokens` has no caller.
- The deletion of a submission under a running job: no route deletes one.
- The list of decks and the review queue: one read-only query each, on rows the
  learner may see. Opening a deck is modelled, for whose problems it shows.
- The exchange of Google's authorisation code: I/O before any row is read.
- In the bank: titles, descriptions, difficulties and the curated URL, by which no
  statement decides. Two texts that start with the same line are one
  problem, in the code as in the model; suffixed slugs (`two-sum-2`) come only
  from two adds at once, as an add looks the slug up first. A suffixed slug is kept
  apart from what a learner types, so that a slug typed as `two-sum-2` never equals
  the second copy of `two-sum`; the cut of a candidate at 128 characters and the end
  of the suffixes at 1000 are left out. The parsing of HTML
  and the limits on what is read are abstracted to a page that yields its
  description or nothing.
- The intervals FSRS computes: a library, abstracted to what the routes use.

## Plan

In the order in which the modules build on each other:

1. *(done)* `SubmissionPipeline` with `SubmissionLifecycle`: the core.
2. *(done)* `Scoring`, then `Drill`, which composes it with the cards.
3. *(done)* `Accounts`.
4. *(done)* `ProblemInput` and `Bank`.
5. *(done)* Theorems for every safety property that the runs check on a component.
6. *(done)* Where the faults allow it, the theorems of the pipeline under weaker
   hypotheses; the forms of an input; `AddressOwnership`.
7. Left: one hazard has no property, and is listed with the reason in
   `PROJECT.json` (an answer to a drill that is lost and sent again counts twice,
   as the route has no idempotency key). Texts of which no character survives in a
   slug, such as titles in another script, are all one problem: the model has it
   so (`Slugify`), and no document says what else they should be told apart by.
   Should the code gain a key or a sweep of stranded rows, a bound on the attempts by the answers given, and `NeverStranded`
   with `"api-crash"` among the faults, are the properties to add.
