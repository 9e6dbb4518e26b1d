-------------------------------- MODULE Drill --------------------------------
(***************************************************************************)
(* The drill of one learner, and the other users of the same cards.         *)
(*                                                                          *)
(* GET /drill/next chooses a problem with up to three queries, POST         *)
(* /drill/submit grades a guess and rewrites the card, committing a         *)
(* submission rewrites it too, the badges count what is due, and the        *)
(* learner edits the rating bands.  Every handler is a chain of awaits, so  *)
(* the steps of several requests interleave freely.  `at` says which await  *)
(* a request has reached; one action is the code up to the next one.        *)
(***************************************************************************)
EXTENDS Scoring

CONSTANTS
    Problems,
    Tagged,         \* problems with a pattern and a statement
    Told,           \* those whose tell the seed wrote
    Decks,          \* decks the learner can see
    DeckOf,         \* problem -> deck
    Requests,       \* request slots: what may be in flight at once
    Answers,        \* [correctness, speed] of the guesses a learner makes
    Overrides,      \* rating bands a learner may store
    Mixes,          \* kinds of request made side by side in one behaviour
    MaxClock,       \* bound on the clock
    MaxReviews,     \* bound on the reviews begun
    None

ASSUME ProblemSets == Told \subseteq Tagged /\ Tagged \subseteq Problems
ASSUME FiniteProblems == IsFiniteSet(Problems)
ASSUME FiniteRequests == IsFiniteSet(Requests)
ASSUME DeckOfProblem == DeckOf \in [Problems -> Decks] /\ "all" \notin Decks
ASSUME StorableBands == \A b \in Overrides : ValidBands(b)
ASSUME AnswerScores ==
    \A a \in Answers : a.correctness \in 0..One /\ a.speed \in 0..One
ASSUME Bounds == MaxClock \in Nat /\ MaxReviews \in Nat
ASSUME RequestKinds ==
    Mixes \subseteq SUBSET {"next", "drill", "commit", "badge", "settings"}
ASSUME NoneIsNone ==
    None \notin Problems \cup Nat \cup Overrides /\ None \notin [due : Nat, reps : Nat]

VARIABLES
    clock,      \* the time, in the least interval FSRS schedules
    told,       \* problems with a tell
    card,       \* srs_cards: problem -> None or [due, reps]
    override,   \* user_scoring_settings: None or the bands stored
    attempts,   \* rows of drill_attempts per problem
    commits,    \* committed submissions per problem
    req,        \* the request in each slot
    begun,      \* reviews begun, for the bound
    overlaps,   \* reviews per problem begun beside another; no step reads it
    kinds       \* the mix of this behaviour

vars == <<clock, told, card, override, attempts, commits, req, begun, overlaps, kinds>>

Card(due, reps) == [due |-> due, reps |-> reps]

Idle == [op |-> "none", at |-> "idle"]

Init == /\ clock = 0
        /\ told = Told
        /\ card = [p \in Problems |-> None]
        /\ override = None
        /\ attempts = [p \in Problems |-> 0]
        /\ commits = [p \in Problems |-> 0]
        /\ req = [r \in Requests |-> Idle]
        /\ begun = 0
        /\ overlaps = [p \in Problems |-> 0]
        /\ kinds \in Mixes

Free(r) == req[r].at \in {"idle", "answered"}

Goto(r, at) == req' = [req EXCEPT ![r].at = at]

-----------------------------------------------------------------------------
(* What a query sees. *)

Eligible == Tagged \cap told

Scopes == Decks \cup {"all"}

InScope(scope) == {p \in Problems : scope = "all" \/ DeckOf[p] = scope}

Drillable(scope) == Eligible \cap InScope(scope)

NoteFlow == Problems \ Eligible

Seen(S) == {p \in S : card[p] # None}

\* Mutant: a card becomes due only after its due date.
DueInStrict(S, now) == {p \in Seen(S) : card[p].due < now}

DueIn(S, now) == {p \in Seen(S) : card[p].due <= now}

\* order by due_at limit 1: any of the earliest.
Soonest(S) == {p \in S : \A q \in S : card[p].due <= card[q].due}

-----------------------------------------------------------------------------
(* GET /drill/next: a card that is due, else a problem never seen, else the *)
(* card due next.  offer and owed record what the learner could have been   *)
(* given when the request arrived; no step reads them.                      *)

AskNext(r, scope) ==
    /\ Free(r) /\ "next" \in kinds
    /\ req' = [req EXCEPT ![r] = [op |-> "next", at |-> "due", scope |-> scope, now |-> clock,
                                  problem |-> None, source |-> "none",
                                  offer |-> Drillable(scope),
                                  owed |-> {p \in Seen(Drillable(scope)) : card[p].due <= clock}]]
    /\ UNCHANGED <<clock, told, card, override, attempts, commits, begun, overlaps>>

Serve(r, p, source) ==
    req' = [req EXCEPT ![r].at = "answered", ![r].problem = p, ![r].source = source]

\* Mutant: when nothing is due the next card up is tried before unseen ones.
AfterNothingDueSwapped == "ahead"

AfterNothingDue == "unseen"

FindDue(r) ==
    /\ req[r].op = "next" /\ req[r].at = "due"
    /\ LET S == DueIn(Drillable(req[r].scope), req[r].now)
       IN IF S = {} THEN Goto(r, AfterNothingDue)
          ELSE \E p \in Soonest(S) : Serve(r, p, "due")
    /\ UNCHANGED <<clock, told, card, override, attempts, commits, begun, overlaps>>

FindUnseen(r) ==
    /\ req[r].op = "next" /\ req[r].at = "unseen"
    /\ LET S == Drillable(req[r].scope)
       IN IF S = Seen(S) THEN Goto(r, "ahead")
          ELSE \E p \in S \ Seen(S) : Serve(r, p, "unseen")
    /\ UNCHANGED <<clock, told, card, override, attempts, commits, begun, overlaps>>

\* Answers 404 when there is nothing to offer at all.
FindAhead(r) ==
    /\ req[r].op = "next" /\ req[r].at = "ahead"
    /\ LET S == Seen(Drillable(req[r].scope))
       IN IF S = {} THEN Serve(r, None, "not-found")
          ELSE \E p \in Soonest(S) : Serve(r, p, "review-ahead")
    /\ UNCHANGED <<clock, told, card, override, attempts, commits, begun, overlaps>>

-----------------------------------------------------------------------------
(* Grading: POST /drill/submit, and the part of a commit that reviews.      *)
(* seen records the bands in force while the request runs, overlaps the     *)
(* reviews that began while another one of their problem was under way.     *)

Reviewing(r) == req[r].op \in {"drill", "commit"}

\* The reviews of a problem under way, of either flow.
UnderReview(p) == {q \in Requests : Reviewing(q) /\ req[q].problem = p}

BeginReview(r, op, p, at, composite) ==
    /\ Free(r) /\ op \in kinds
    /\ begun < MaxReviews
    /\ begun' = begun + 1
    /\ overlaps' = [overlaps EXCEPT ![p] = IF UnderReview(p) = {} THEN @ ELSE @ + 1]
    /\ req' = [req EXCEPT ![r] = [op |-> op, at |-> at, problem |-> p, now |-> 0,
                                  composite |-> composite, rating |-> Again,
                                  read |-> None, seen |-> {override}]]
    /\ UNCHANGED <<clock, told, card, override, attempts, commits>>

\* A problem without a pattern is not joined and answers 404 before any change.
BeginDrill(r, p) == p \in Tagged /\ BeginReview(r, "drill", p, "judge", 0)

BeginCommit(r, p, tier) == BeginReview(r, "commit", p, "bands", GradationScore(tier))

\* When the model is unreachable or unreadable the verdict is "partial".
JudgeRationale(r) ==
    /\ req[r].op = "drill" /\ req[r].at = "judge"
    /\ \E a \in Answers, verdict \in {"yes", "partial", "no"} :
          req' = [req EXCEPT ![r].at = "bands",
                             ![r].composite = CompositeScore(a.correctness, a.speed,
                                                             RationaleScore(verdict))]
    /\ UNCHANGED <<clock, told, card, override, attempts, commits, begun, overlaps>>

Effective(bands) == IF bands = None THEN DefaultBands ELSE bands

\* Mutant: the learner's override is never consulted.
EffectiveThresholdsDefault == DefaultBands

EffectiveThresholds == Effective(override)

\* The time of the review is taken once the bands are read.
ReadBands(r) ==
    /\ Reviewing(r) /\ req[r].at = "bands"
    /\ req' = [req EXCEPT ![r].at = "card", ![r].now = clock,
                          ![r].rating = ToFsrsRating(req[r].composite, EffectiveThresholds)]
    /\ UNCHANGED <<clock, told, card, override, attempts, commits, begun, overlaps>>

ReadCard(r) ==
    /\ Reviewing(r) /\ req[r].at = "card"
    /\ req' = [req EXCEPT ![r].at = "write", ![r].read = card[req[r].problem]]
    /\ UNCHANGED <<clock, told, card, override, attempts, commits, begun, overlaps>>

\* ts-fsrs: a better grade schedules further out, and every review is counted.
Interval(rating) == rating

\* Mutant: the first review of a card is not counted.
NextCardUncounted(current, now, rating) ==
    Card(now + Interval(rating), IF current = None THEN 0 ELSE current.reps + 1)

NextCard(current, now, rating) ==
    Card(now + Interval(rating), IF current = None THEN 1 ELSE current.reps + 1)

\* Mutant: an existing card is left as it is.
UpsertDoNothing(p, c) == IF card[p] = None THEN [card EXCEPT ![p] = c] ELSE card

Upsert(p, c) == [card EXCEPT ![p] = c]

\* One transaction: the card, and the attempt or the submission.
Record(r) ==
    LET p == req[r].problem IN
    /\ Reviewing(r) /\ req[r].at = "write"
    /\ card' = Upsert(p, NextCard(req[r].read, req[r].now, req[r].rating))
    /\ IF req[r].op = "drill"
       THEN attempts' = [attempts EXCEPT ![p] = @ + 1] /\ UNCHANGED commits
       ELSE commits' = [commits EXCEPT ![p] = @ + 1] /\ UNCHANGED attempts
    /\ req' = [req EXCEPT ![r] = Idle]
    /\ UNCHANGED <<clock, told, override, begun, overlaps>>

\* The transaction, or an earlier query, fails: 500 and nothing is kept.
ReviewFails(r) ==
    /\ Reviewing(r)
    /\ req' = [req EXCEPT ![r] = Idle]
    /\ UNCHANGED <<clock, told, card, override, attempts, commits, begun, overlaps>>

-----------------------------------------------------------------------------
(* GET /drill/due-count for a scope, GET /review/due-count for both flows.  *)

AskBadge(r, scope) ==
    /\ Free(r) /\ "badge" \in kinds
    /\ req' = [req EXCEPT ![r] = [op |-> "badge", at |-> "count", scope |-> scope, now |-> clock,
                                  due |-> 0, drill |-> 0, note |-> 0, next |-> None]]
    /\ UNCHANGED <<clock, told, card, override, attempts, commits, begun, overlaps>>

Counted(scope) == IF scope = "both" THEN Problems ELSE Drillable(scope)

CountDue(r) ==
    /\ req[r].op = "badge" /\ req[r].at = "count"
    /\ LET S == DueIn(Counted(req[r].scope), req[r].now)
       IN req' = [req EXCEPT ![r].at = "next", ![r].due = Cardinality(S),
                             ![r].drill = Cardinality(S \cap Eligible),
                             ![r].note = Cardinality(S \cap NoteFlow)]
    /\ UNCHANGED <<clock, told, card, override, attempts, commits, begun, overlaps>>

\* Mutant: the next due date is looked for in the future only.
UpcomingLater(S, now) == {p \in Seen(S) : card[p].due > now}

Upcoming(S, now) == Seen(S)

FindNextDue(r) ==
    /\ req[r].op = "badge" /\ req[r].at = "next"
    /\ LET S == Upcoming(Counted(req[r].scope), req[r].now)
       IN IF S = {} THEN Goto(r, "answered")
          ELSE \E p \in Soonest(S) :
                  req' = [req EXCEPT ![r].at = "answered", ![r].next = card[p].due]
    /\ UNCHANGED <<clock, told, card, override, attempts, commits, begun, overlaps>>

-----------------------------------------------------------------------------
(* Settings, the tell generator and the clock. *)

SetOverride(bands) ==
    /\ "settings" \in kinds
    /\ override' = bands
    /\ req' = [r \in Requests |-> IF Reviewing(r)
                                  THEN [req[r] EXCEPT !.seen = @ \cup {bands}] ELSE req[r]]
    /\ UNCHANGED <<clock, told, card, attempts, commits, begun, overlaps>>

PutThresholds(bands) == SetOverride(bands)

ClearThresholds == SetOverride(None)

\* generateTells: a curated problem gains its missing tell and becomes eligible.
WriteTell(p) ==
    /\ p \in Tagged \ told
    /\ told' = told \cup {p}
    /\ UNCHANGED <<clock, card, override, attempts, commits, req, begun, overlaps>>

Tick == /\ clock < MaxClock
        /\ clock' = clock + 1
        /\ UNCHANGED <<told, card, override, attempts, commits, req, begun, overlaps>>

Selecting(r) == \/ \E scope \in Scopes : AskNext(r, scope)
                \/ FindDue(r) \/ FindUnseen(r) \/ FindAhead(r)

Grading(r) == \/ \E p \in Problems : BeginDrill(r, p)
              \/ \E p \in Problems, tier \in Tiers : BeginCommit(r, p, tier)
              \/ JudgeRationale(r) \/ ReadBands(r) \/ ReadCard(r) \/ Record(r) \/ ReviewFails(r)

Counting(r) == \/ \E scope \in Scopes \cup {"both"} : AskBadge(r, scope)
               \/ CountDue(r) \/ FindNextDue(r)

Next == /\ \/ \E r \in Requests : Selecting(r) \/ Grading(r) \/ Counting(r)
           \/ \E bands \in Overrides : PutThresholds(bands)
           \/ ClearThresholds
           \/ \E p \in Problems : WriteTell(p)
           \/ Tick
        /\ UNCHANGED kinds

Spec == Init /\ [][Next]_vars

-----------------------------------------------------------------------------
(* Properties. *)

Bands == Overrides \cup {None}
Cards == [due : Nat, reps : Nat \ {0}]

SelectRequest == [op : {"next"}, at : {"due", "unseen", "ahead", "answered"}, scope : Scopes,
                  now : Nat, problem : Problems \cup {None},
                  source : {"none", "due", "unseen", "review-ahead", "not-found"},
                  offer : SUBSET Problems, owed : SUBSET Problems]
ReviewRequest == [op : {"drill", "commit"}, at : {"judge", "bands", "card", "write"},
                  problem : Problems, now : Nat, composite : 0..One, rating : Again..Easy,
                  read : Cards \cup {None}, seen : SUBSET Bands]
BadgeRequest == [op : {"badge"}, at : {"count", "next", "answered"}, scope : Scopes \cup {"both"},
                 now : Nat, due : Nat, drill : Nat, note : Nat, next : Nat \cup {None}]

TypeOK == /\ kinds \in Mixes
          /\ clock \in Nat /\ begun \in Nat
          /\ told \in SUBSET Tagged
          /\ card \in [Problems -> Cards \cup {None}]
          /\ override \in Bands
          /\ attempts \in [Problems -> Nat] /\ commits \in [Problems -> Nat]
          /\ overlaps \in [Problems -> Nat]
          /\ req \in [Requests -> {Idle} \cup SelectRequest \cup ReviewRequest \cup BadgeRequest]

Chosen(r) == req[r].op = "next" /\ req[r].at = "answered"

\* The drill is never empty-handed: 404 only when the scope held no eligible
\* problem at the time of the request, whatever reviews ran in between.
NeverEmptyHanded ==
    \A r \in Requests : Chosen(r) /\ req[r].source = "not-found" => req[r].offer = {}

\* A card is shown ahead of its time only when everything on offer was seen.
AheadOnlyWhenAllSeen ==
    \A r \in Requests : Chosen(r) /\ req[r].source = "review-ahead"
        => \A p \in req[r].offer : card[p] # None

\* What is served is eligible and in the deck that was asked for.
ServedIsInScope ==
    \A r \in Requests : Chosen(r) /\ req[r].problem # None =>
        /\ req[r].problem \in Tagged \cap told
        /\ req[r].scope \in {"all", DeckOf[req[r].problem]}

\* A card that was due when the learner asked is passed over only for another
\* due card, or because it was reviewed meanwhile; a card two reviews of which
\* overlapped may hold the due date of the older one.
DueFirst ==
    \A r \in Requests : Chosen(r) /\ req[r].source # "due"
        => \A p \in req[r].owed : overlaps[p] = 0 => card[p].due > req[r].now

\* A review is rated by bands that were in force while it ran.
RatedByBandsInForce ==
    \A r \in Requests : Reviewing(r) /\ req[r].at \in {"card", "write"} =>
        \E b \in req[r].seen : req[r].rating = ToFsrsRating(req[r].composite, Effective(b))

Reps(p) == IF card[p] = None THEN 0 ELSE card[p].reps

Answered(p) == attempts[p] + commits[p]

\* Every answer recorded by either flow is a review the card counts, and no
\* other is.  Reviews of one problem that overlap may overwrite each other, but
\* each of them costs at most itself: a burst of them counts at least once.
EveryAnswerIsAReview ==
    \A p \in Problems : /\ Reps(p) <= Answered(p)
                         /\ Answered(p) <= Reps(p) + overlaps[p]

Badged(r) == req[r].op = "badge" /\ req[r].at = "answered"

\* A badge that counts something due also says when the next card is due,
\* although the two are separate queries, and its two flows share what it counts.
BadgeHonest ==
    \A r \in Requests : Badged(r) =>
        /\ req[r].due = req[r].drill + req[r].note
        /\ req[r].due > 0 => req[r].next # None

=============================================================================
