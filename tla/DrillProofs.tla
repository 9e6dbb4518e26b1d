---------------------------- MODULE DrillProofs -----------------------------
(***************************************************************************)
(* The drill for every set of problems and decks, any number of requests    *)
(* side by side, every set of answers and bands, and any bounds.            *)
(***************************************************************************)
EXTENDS Drill, ScoringLemmas, FiniteSetTheorems

USE ProblemSets, DeckOfProblem, Bounds, NoneIsNone

\* The shape of a request follows from its kind.
LEMMA Shapes ==
    ASSUME TypeOK, NEW r \in Requests
    PROVE  /\ req[r].op = "next" => req[r] \in SelectRequest
           /\ req[r].op \in {"drill", "commit"} => req[r] \in ReviewRequest
           /\ req[r].op = "badge" => req[r] \in BadgeRequest
           /\ req[r] = Idle \/ req[r].op # "none"
  BY DEF TypeOK, SelectRequest, ReviewRequest, BadgeRequest, Idle

\* Replacing one request by a well formed one keeps the type.
LEMMA Replaced ==
    ASSUME TypeOK, NEW r \in Requests,
           NEW x \in {Idle} \cup SelectRequest \cup ReviewRequest \cup BadgeRequest,
           req' = [req EXCEPT ![r] = x]
    PROVE  req' \in [Requests -> {Idle} \cup SelectRequest \cup ReviewRequest \cup BadgeRequest]
  BY DEF TypeOK

LEMMA TierScores == \A t \in Tiers : GradationScore(t) \in 0..One
  BY SMTT(30) DEF Tiers, GradationScore, One

LEMMA AnswerComposite ==
    ASSUME NEW a \in Answers, NEW v \in {"yes", "partial", "no"}
    PROVE  CompositeScore(a.correctness, a.speed, RationaleScore(v)) \in 0..One
  BY AnswerScores, RationaleRange, CompositeRange

LEMMA SelectingTyped ==
    ASSUME TypeOK, NEW r \in Requests, Selecting(r), UNCHANGED kinds
    PROVE  TypeOK'
  <1>1. ASSUME NEW scope \in Scopes, AskNext(r, scope)
        PROVE  TypeOK'
    <2> DEFINE x == [op |-> "next", at |-> "due", scope |-> scope, now |-> clock,
                     problem |-> None, source |-> "none", offer |-> Drillable(scope),
                     owed |-> {p \in Seen(Drillable(scope)) : card[p].due <= clock}]
    <2>1. Drillable(scope) \subseteq Problems
      BY DEF Drillable, Eligible
    <2>2. x \in SelectRequest
      BY <2>1 DEF SelectRequest, Seen, TypeOK
    <2>3. req' = [req EXCEPT ![r] = x]
      BY <1>1 DEF AskNext
    <2> HIDE DEF x
    <2>4. QED
      BY <1>1, <2>2, <2>3, Replaced DEF AskNext, TypeOK
  <1>2. ASSUME FindDue(r) PROVE TypeOK'
    <2>1. req[r] \in SelectRequest
      BY <1>2, Shapes DEF FindDue
    <2>2. CASE Goto(r, AfterNothingDue)
      <3>1. [req[r] EXCEPT !.at = "unseen"] \in SelectRequest
        BY <2>1 DEF SelectRequest
      <3>2. req' = [req EXCEPT ![r] = [req[r] EXCEPT !.at = "unseen"]]
        BY <2>2 DEF Goto, AfterNothingDue
      <3>3. QED
        BY <1>2, <3>1, <3>2, Replaced DEF FindDue, TypeOK
    <2>3. ASSUME NEW p \in Problems, Serve(r, p, "due") PROVE TypeOK'
      <3> DEFINE x == [req[r] EXCEPT !.at = "answered", !.problem = p, !.source = "due"]
      <3>1. x \in SelectRequest
        BY <2>1 DEF SelectRequest
      <3>2. req' = [req EXCEPT ![r] = x]
        BY <2>3 DEF Serve
      <3> HIDE DEF x
      <3>3. QED
        BY <1>2, <3>1, <3>2, Replaced DEF FindDue, TypeOK
    <2>4. QED
      BY <1>2, <2>2, <2>3 DEF FindDue, Soonest, DueIn, Seen, Drillable, Eligible
  <1>3. ASSUME FindUnseen(r) PROVE TypeOK'
    <2>1. req[r] \in SelectRequest
      BY <1>3, Shapes DEF FindUnseen
    <2>2. CASE Goto(r, "ahead")
      <3>1. [req[r] EXCEPT !.at = "ahead"] \in SelectRequest
        BY <2>1 DEF SelectRequest
      <3>2. req' = [req EXCEPT ![r] = [req[r] EXCEPT !.at = "ahead"]]
        BY <2>2 DEF Goto
      <3>3. QED
        BY <1>3, <3>1, <3>2, Replaced DEF FindUnseen, TypeOK
    <2>3. ASSUME NEW p \in Problems, Serve(r, p, "unseen") PROVE TypeOK'
      <3> DEFINE x == [req[r] EXCEPT !.at = "answered", !.problem = p, !.source = "unseen"]
      <3>1. x \in SelectRequest
        BY <2>1 DEF SelectRequest
      <3>2. req' = [req EXCEPT ![r] = x]
        BY <2>3 DEF Serve
      <3> HIDE DEF x
      <3>3. QED
        BY <1>3, <3>1, <3>2, Replaced DEF FindUnseen, TypeOK
    <2>4. QED
      BY <1>3, <2>2, <2>3 DEF FindUnseen, Drillable, Eligible
  <1>4. ASSUME FindAhead(r) PROVE TypeOK'
    <2>1. req[r] \in SelectRequest
      BY <1>4, Shapes DEF FindAhead
    <2>2. ASSUME NEW p \in Problems \cup {None}, NEW s \in {"not-found", "review-ahead"},
                 Serve(r, p, s)
          PROVE  TypeOK'
      <3> DEFINE x == [req[r] EXCEPT !.at = "answered", !.problem = p, !.source = s]
      <3>1. x \in SelectRequest
        BY <2>1 DEF SelectRequest
      <3>2. req' = [req EXCEPT ![r] = x]
        BY <2>2 DEF Serve
      <3> HIDE DEF x
      <3>3. QED
        BY <1>4, <3>1, <3>2, Replaced DEF FindAhead, TypeOK
    <2>3. QED
      BY <1>4, <2>2 DEF FindAhead, Soonest, Seen, Drillable, Eligible
  <1>5. QED
    BY <1>1, <1>2, <1>3, <1>4 DEF Selecting

LEMMA GradingTyped ==
    ASSUME TypeOK, NEW r \in Requests, Grading(r), UNCHANGED kinds
    PROVE  TypeOK'
  <1>1. ASSUME NEW op \in {"drill", "commit"}, NEW p \in Problems, NEW at \in {"judge", "bands"},
               NEW composite \in 0..One, BeginReview(r, op, p, at, composite)
        PROVE  TypeOK'
    <2> DEFINE x == [op |-> op, at |-> at, problem |-> p, now |-> 0,
                     composite |-> composite, rating |-> Again,
                     read |-> None, seen |-> {override}]
    <2>1. x \in ReviewRequest
      BY DEF ReviewRequest, TypeOK, Again, Easy
    <2>2. req' = [req EXCEPT ![r] = x]
      BY <1>1 DEF BeginReview
    <2>3. begun' = begun + 1 /\ UNCHANGED <<clock, told, card, override, attempts, commits>>
      BY <1>1 DEF BeginReview
    <2>4. overlaps' \in [Problems -> Nat]
      BY <1>1 DEF BeginReview, TypeOK
    <2> HIDE DEF x
    <2>5. QED
      BY <2>1, <2>2, <2>3, <2>4, Replaced DEF TypeOK
  <1>2. ASSUME NEW p \in Problems, BeginDrill(r, p) PROVE TypeOK'
    <2>1. 0 \in 0..One
      BY DEF One
    <2>2. BeginReview(r, "drill", p, "judge", 0)
      BY <1>2 DEF BeginDrill
    <2>3. QED
      BY <1>1, <2>1, <2>2
  <1>3. ASSUME NEW p \in Problems, NEW tier \in Tiers, BeginCommit(r, p, tier) PROVE TypeOK'
    BY <1>1, <1>3, TierScores DEF BeginCommit
  <1>4. ASSUME JudgeRationale(r) PROVE TypeOK'
    <2>1. req[r] \in ReviewRequest
      BY <1>4, Shapes DEF JudgeRationale
    <2>2. PICK a \in Answers, v \in {"yes", "partial", "no"} :
             req' = [req EXCEPT ![r].at = "bands",
                                ![r].composite = CompositeScore(a.correctness, a.speed,
                                                                RationaleScore(v))]
      BY <1>4 DEF JudgeRationale
    <2> DEFINE c == CompositeScore(a.correctness, a.speed, RationaleScore(v))
               x == [req[r] EXCEPT !.at = "bands", !.composite = c]
    <2>3. c \in 0..One
      BY AnswerComposite
    <2>4. req' = [req EXCEPT ![r] = x]
      BY <2>2
    <2> HIDE DEF c
    <2>5. x \in ReviewRequest
      BY <2>1, <2>3 DEF ReviewRequest
    <2> HIDE DEF x
    <2>6. QED
      BY <1>4, <2>4, <2>5, Replaced DEF JudgeRationale, TypeOK
  <1>5. ASSUME ReadBands(r) PROVE TypeOK'
    <2>1. req[r] \in ReviewRequest
      BY <1>5, Shapes DEF ReadBands, Reviewing
    <2> DEFINE g == ToFsrsRating(req[r].composite, EffectiveThresholds)
               x == [req[r] EXCEPT !.at = "card", !.now = clock, !.rating = g]
    <2>2. g \in Again..Easy
      BY RatingRange
    <2>3. req' = [req EXCEPT ![r] = x]
      BY <1>5 DEF ReadBands
    <2> HIDE DEF g
    <2>4. x \in ReviewRequest
      BY <2>1, <2>2 DEF ReviewRequest, TypeOK
    <2> HIDE DEF x
    <2>5. QED
      BY <1>5, <2>3, <2>4, Replaced DEF ReadBands, TypeOK
  <1>6. ASSUME ReadCard(r) PROVE TypeOK'
    <2>1. req[r] \in ReviewRequest
      BY <1>6, Shapes DEF ReadCard, Reviewing
    <2> DEFINE x == [req[r] EXCEPT !.at = "write", !.read = card[req[r].problem]]
    <2>2. req' = [req EXCEPT ![r] = x]
      BY <1>6 DEF ReadCard
    <2>3. card[req[r].problem] \in Cards \cup {None}
      BY <2>1 DEF ReviewRequest, TypeOK
    <2>4. x \in ReviewRequest
      BY <2>1, <2>3 DEF ReviewRequest
    <2> HIDE DEF x
    <2>5. QED
      BY <1>6, <2>2, <2>4, Replaced DEF ReadCard, TypeOK
  <1>7. ASSUME Record(r) PROVE TypeOK'
    <2>1. req[r] \in ReviewRequest
      BY <1>7, Shapes DEF Record, Reviewing
    <2> DEFINE p == req[r].problem
               c == NextCard(req[r].read, req[r].now, req[r].rating)
    <2>2. p \in Problems
      BY <2>1 DEF ReviewRequest
    <2>3. c \in Cards
      <3>1. req[r].now \in Nat /\ req[r].rating \in Nat
        BY <2>1 DEF ReviewRequest, Again, Easy
      <3>2. req[r].read # None => req[r].read.reps \in Nat
        BY <2>1 DEF ReviewRequest, Cards
      <3>3. QED
        BY <3>1, <3>2 DEF NextCard, Interval, Card, Cards
    <2>4. req' = [req EXCEPT ![r] = Idle]
      BY <1>7 DEF Record
    <2>5. req' \in [Requests -> {Idle} \cup SelectRequest \cup ReviewRequest \cup BadgeRequest]
      BY <2>4, Replaced
    <2>6. card' = [card EXCEPT ![p] = c]
      BY <1>7 DEF Record, Upsert
    <2>7. attempts' \in [Problems -> Nat] /\ commits' \in [Problems -> Nat]
      BY <1>7, <2>2 DEF Record, TypeOK
    <2> HIDE DEF p, c
    <2>8. card' \in [Problems -> Cards \cup {None}]
      BY <2>2, <2>3, <2>6 DEF TypeOK
    <2>9. QED
      BY <1>7, <2>5, <2>7, <2>8 DEF Record, TypeOK
  <1>8. ASSUME ReviewFails(r) PROVE TypeOK'
    BY <1>8, Replaced DEF ReviewFails, TypeOK
  <1>9. QED
    BY <1>2, <1>3, <1>4, <1>5, <1>6, <1>7, <1>8 DEF Grading

LEMMA Countable == \A S \in SUBSET Problems : IsFiniteSet(S) /\ Cardinality(S) \in Nat
  BY FiniteProblems, FS_Subset, FS_CardinalityType

LEMMA CountedAreProblems ==
    ASSUME NEW scope, NEW now
    PROVE  DueIn(Counted(scope), now) \subseteq Problems
  BY DEF DueIn, Seen, Counted, Drillable, Eligible

LEMMA CountingTyped ==
    ASSUME TypeOK, NEW r \in Requests, Counting(r), UNCHANGED kinds
    PROVE  TypeOK'
  <1>1. ASSUME NEW scope \in Scopes \cup {"both"}, AskBadge(r, scope) PROVE TypeOK'
    <2> DEFINE x == [op |-> "badge", at |-> "count", scope |-> scope, now |-> clock,
                     due |-> 0, drill |-> 0, note |-> 0, next |-> None]
    <2>1. x \in BadgeRequest
      BY DEF BadgeRequest, TypeOK
    <2>2. req' = [req EXCEPT ![r] = x]
      BY <1>1 DEF AskBadge
    <2> HIDE DEF x
    <2>3. QED
      BY <1>1, <2>1, <2>2, Replaced DEF AskBadge, TypeOK
  <1>2. ASSUME CountDue(r) PROVE TypeOK'
    <2>1. req[r] \in BadgeRequest
      BY <1>2, Shapes DEF CountDue
    <2> DEFINE S == DueIn(Counted(req[r].scope), req[r].now)
               n == Cardinality(S)
               d == Cardinality(S \cap Eligible)
               m == Cardinality(S \cap NoteFlow)
               x == [req[r] EXCEPT !.at = "next", !.due = n, !.drill = d, !.note = m]
    <2>2. n \in Nat /\ d \in Nat /\ m \in Nat
      BY Countable, CountedAreProblems
    <2>3. req' = [req EXCEPT ![r] = x]
      BY <1>2 DEF CountDue
    <2> HIDE DEF n, d, m
    <2>4. x \in BadgeRequest
      BY <2>1, <2>2 DEF BadgeRequest
    <2> HIDE DEF x
    <2>5. QED
      BY <1>2, <2>3, <2>4, Replaced DEF CountDue, TypeOK
  <1>3. ASSUME FindNextDue(r) PROVE TypeOK'
    <2>1. req[r] \in BadgeRequest
      BY <1>3, Shapes DEF FindNextDue
    <2>2. CASE Goto(r, "answered")
      <3>1. [req[r] EXCEPT !.at = "answered"] \in BadgeRequest
        BY <2>1 DEF BadgeRequest
      <3>2. req' = [req EXCEPT ![r] = [req[r] EXCEPT !.at = "answered"]]
        BY <2>2 DEF Goto
      <3>3. QED
        BY <1>3, <3>1, <3>2, Replaced DEF FindNextDue, TypeOK
    <2>3. ASSUME NEW p \in Seen(Problems),
                 req' = [req EXCEPT ![r].at = "answered", ![r].next = card[p].due]
          PROVE  TypeOK'
      <3> DEFINE x == [req[r] EXCEPT !.at = "answered", !.next = card[p].due]
      <3>1. card[p].due \in Nat
        BY DEF Seen, TypeOK, Cards
      <3>2. x \in BadgeRequest
        BY <2>1, <3>1 DEF BadgeRequest
      <3>3. req' = [req EXCEPT ![r] = x]
        BY <2>3
      <3> HIDE DEF x
      <3>4. QED
        BY <1>3, <3>2, <3>3, Replaced DEF FindNextDue, TypeOK
    <2>4. QED
      BY <1>3, <2>2, <2>3
      DEF FindNextDue, Soonest, Upcoming, Seen, Counted, Drillable, Eligible
  <1>4. QED
    BY <1>1, <1>2, <1>3 DEF Counting

\* Editing the bands adds the new ones to what each running review has seen.
LEMMA OverrideTyped ==
    ASSUME TypeOK, NEW bands \in Bands, SetOverride(bands), UNCHANGED kinds
    PROVE  TypeOK'
  <1>1. ASSUME NEW r \in Requests
        PROVE  req'[r] \in {Idle} \cup SelectRequest \cup ReviewRequest \cup BadgeRequest
    <2>1. CASE Reviewing(r)
      <3>1. req[r] \in ReviewRequest
        BY <2>1, Shapes DEF Reviewing
      <3>2. [req[r] EXCEPT !.seen = @ \cup {bands}] \in ReviewRequest
        BY <3>1 DEF ReviewRequest
      <3>3. QED
        BY <2>1, <3>2 DEF SetOverride
    <2>2. CASE ~Reviewing(r)
      BY <2>2 DEF SetOverride, TypeOK
    <2>3. QED
      BY <2>1, <2>2
  <1>2. req' = [r \in Requests |-> req'[r]]
    BY DEF SetOverride
  <1>3. QED
    BY <1>1, <1>2 DEF SetOverride, TypeOK

LEMMA TypeKept ==
    ASSUME TypeOK, [Next]_vars
    PROVE  TypeOK'
  <1>1. CASE UNCHANGED vars
    BY <1>1 DEF vars, TypeOK
  <1>2. CASE Next
    <2>1. UNCHANGED kinds
      BY <1>2 DEF Next
    <2>2. ASSUME NEW r \in Requests, Selecting(r) \/ Grading(r) \/ Counting(r) PROVE TypeOK'
      BY <2>1, <2>2, SelectingTyped, GradingTyped, CountingTyped
    <2>3. ASSUME NEW bands \in Bands, SetOverride(bands) PROVE TypeOK'
      BY <2>1, <2>3, OverrideTyped
    <2>4. ASSUME NEW p \in Problems, WriteTell(p) PROVE TypeOK'
      BY <2>1, <2>4 DEF WriteTell, TypeOK
    <2>5. ASSUME Tick PROVE TypeOK'
      BY <2>1, <2>5 DEF Tick, TypeOK
    <2>6. QED
      BY <1>2, <2>2, <2>3, <2>4, <2>5 DEF Next, PutThresholds, ClearThresholds, Bands
  <1>3. QED
    BY <1>1, <1>2

\* Type correctness: cards always have a review behind them, composites and
\* ratings stay in their ranges.
THEOREM TypeCorrect == Spec => []TypeOK
  <1>1. Init => TypeOK
    BY DEF Init, TypeOK, Bands
  <1>2. QED
    BY <1>1, TypeKept, PTL DEF Spec

-----------------------------------------------------------------------------
(* Selection. *)

\* What the await reached says of what was on offer when the request arrived.
Fits(r) ==
    req[r].op = "next" =>
        /\ req[r].offer \subseteq Drillable(req[r].scope)
        /\ req[r].at = "ahead" => \A p \in req[r].offer : card[p] # None
        /\ req[r].at = "answered" =>
              /\ req[r].source = "review-ahead" => \A p \in req[r].offer : card[p] # None
              /\ req[r].source = "not-found" => req[r].offer = {}
              /\ req[r].problem # None => req[r].problem \in Drillable(req[r].scope)

SelectionInv == \A r \in Requests : Fits(r)

\* No step forgets a card or a tell.
LEMMA NothingForgotten ==
    ASSUME TypeOK, [Next]_vars
    PROVE  /\ told \subseteq told'
           /\ \A p \in Problems : card[p] # None => card'[p] # None
  <1>1. CASE UNCHANGED vars
    BY <1>1 DEF vars
  <1>2. ASSUME NEW r \in Requests, Record(r)
        PROVE  told \subseteq told' /\ \A p \in Problems : card[p] # None => card'[p] # None
    <2>1. req[r] \in ReviewRequest
      BY <1>2, Shapes DEF Record, Reviewing
    <2> DEFINE c == NextCard(req[r].read, req[r].now, req[r].rating)
    <2>2. c # None
      <3>1. req[r].now \in Nat /\ req[r].rating \in Nat
        BY <2>1 DEF ReviewRequest, Again, Easy
      <3>2. req[r].read # None => req[r].read.reps \in Nat
        BY <2>1 DEF ReviewRequest, Cards
      <3>3. c \in [due : Nat, reps : Nat]
        BY <3>1, <3>2 DEF NextCard, Interval, Card
      <3>4. QED
        BY <3>3
    <2>3. card' = [card EXCEPT ![req[r].problem] = c] /\ told' = told
      BY <1>2 DEF Record, Upsert
    <2> HIDE DEF c
    <2>4. QED
      BY <2>2, <2>3 DEF TypeOK
  <1>3. ASSUME NEW r \in Requests, Selecting(r) \/ Counting(r)
        PROVE  told' = told /\ card' = card
    BY <1>3 DEF Selecting, AskNext, FindDue, FindUnseen, FindAhead,
                Counting, AskBadge, CountDue, FindNextDue
  <1>4. ASSUME NEW r \in Requests, Grading(r), ~Record(r)
        PROVE  told' = told /\ card' = card
    BY <1>4 DEF Grading, BeginDrill, BeginCommit, BeginReview, JudgeRationale,
                ReadBands, ReadCard, ReviewFails
  <1>5. ASSUME NEW bands, SetOverride(bands)
        PROVE  told' = told /\ card' = card
    BY <1>5 DEF SetOverride
  <1>6. ASSUME NEW p \in Problems, WriteTell(p)
        PROVE  told \subseteq told' /\ card' = card
    BY <1>6 DEF WriteTell
  <1>7. ASSUME Tick PROVE told' = told /\ card' = card
    BY <1>7 DEF Tick
  <1>8. QED
    BY <1>1, <1>2, <1>3, <1>4, <1>5, <1>6, <1>7 DEF Next, PutThresholds, ClearThresholds

\* A request that does not move keeps what was established for it.
LEMMA FitsKept ==
    ASSUME TypeOK, [Next]_vars, NEW r \in Requests, Fits(r), req'[r] = req[r]
    PROVE  Fits(r)'
  <1>1. /\ told \subseteq told'
        /\ \A p \in Problems : card[p] # None => card'[p] # None
    BY NothingForgotten
  <1>2. \A scope : Drillable(scope) \subseteq Drillable(scope)'
    BY <1>1 DEF Drillable, Eligible
  <1>3. req[r].op = "next" => req[r].offer \subseteq Problems
    BY Shapes DEF SelectRequest
  <1>4. QED
    BY <1>1, <1>2, <1>3 DEF Fits

\* A step of the selection establishes it.
LEMMA SelectingFits ==
    ASSUME TypeOK, NEW r \in Requests, Fits(r), Selecting(r)
    PROVE  Fits(r)'
  <1>1. UNCHANGED <<told, card>>
    BY DEF Selecting, AskNext, FindDue, FindUnseen, FindAhead
  <1>2. \A scope : Drillable(scope)' = Drillable(scope)
    BY <1>1 DEF Drillable, Eligible
  <1>3. ASSUME NEW scope \in Scopes, AskNext(r, scope) PROVE Fits(r)'
    <2>1. /\ req'[r].at = "due" /\ req'[r].offer = Drillable(scope)
          /\ req'[r].scope = scope
      BY <1>3 DEF AskNext, TypeOK
    <2>2. QED
      BY <1>2, <2>1 DEF Fits
  <1>4. ASSUME FindDue(r) PROVE Fits(r)'
    <2>1. req[r] \in SelectRequest
      BY <1>4, Shapes DEF FindDue
    <2>2. CASE Goto(r, AfterNothingDue)
      <3>1. req'[r] = [req[r] EXCEPT !.at = "unseen"]
        BY <2>2 DEF Goto, AfterNothingDue, TypeOK
      <3>2. QED
        BY <1>2, <1>4, <2>1, <3>1 DEF Fits, FindDue, SelectRequest
    <2>3. ASSUME NEW p \in Drillable(req[r].scope), Serve(r, p, "due") PROVE Fits(r)'
      <3>1. req'[r] = [req[r] EXCEPT !.at = "answered", !.problem = p, !.source = "due"]
        BY <2>3 DEF Serve, TypeOK
      <3>2. QED
        BY <1>2, <1>4, <2>1, <2>3, <3>1 DEF Fits, FindDue, SelectRequest
    <2>4. QED
      BY <1>4, <2>2, <2>3 DEF FindDue, Soonest, DueIn, Seen
  <1>5. ASSUME FindUnseen(r) PROVE Fits(r)'
    <2>1. req[r] \in SelectRequest
      BY <1>5, Shapes DEF FindUnseen
    <2> DEFINE S == Drillable(req[r].scope)
    <2>2. CASE S = Seen(S) /\ Goto(r, "ahead")
      <3>1. req'[r] = [req[r] EXCEPT !.at = "ahead"]
        BY <2>2 DEF Goto, TypeOK
      <3>2. \A p \in req[r].offer : card[p] # None
        BY <1>5, <2>2 DEF Fits, FindUnseen, Seen
      <3>3. QED
        BY <1>1, <1>2, <1>5, <2>1, <3>1, <3>2 DEF Fits, FindUnseen, SelectRequest
    <2>3. ASSUME NEW p \in S, Serve(r, p, "unseen") PROVE Fits(r)'
      <3>1. req'[r] = [req[r] EXCEPT !.at = "answered", !.problem = p, !.source = "unseen"]
        BY <2>3 DEF Serve, TypeOK
      <3>2. QED
        BY <1>2, <1>5, <2>1, <2>3, <3>1 DEF Fits, FindUnseen, SelectRequest
    <2>4. QED
      BY <1>5, <2>2, <2>3 DEF FindUnseen
  <1>6. ASSUME FindAhead(r) PROVE Fits(r)'
    <2>1. req[r] \in SelectRequest /\ req[r].at = "ahead"
      BY <1>6, Shapes DEF FindAhead
    <2> DEFINE S == Seen(Drillable(req[r].scope))
    <2>2. CASE S = {} /\ Serve(r, None, "not-found")
      <3>1. req'[r] = [req[r] EXCEPT !.at = "answered", !.problem = None, !.source = "not-found"]
        BY <2>2 DEF Serve, TypeOK
      <3>2. req[r].offer = {}
        BY <1>6, <2>1, <2>2 DEF Fits, FindAhead, Seen
      <3>3. QED
        BY <1>2, <1>6, <2>1, <3>1, <3>2 DEF Fits, FindAhead, SelectRequest
    <2>3. ASSUME NEW p \in S, Serve(r, p, "review-ahead") PROVE Fits(r)'
      <3>1. req'[r] = [req[r] EXCEPT !.at = "answered", !.problem = p, !.source = "review-ahead"]
        BY <2>3 DEF Serve, TypeOK
      <3>2. p \in Drillable(req[r].scope)
        BY DEF Seen
      <3>3. QED
        BY <1>1, <1>2, <1>6, <2>1, <3>1, <3>2 DEF Fits, FindAhead, SelectRequest
    <2>4. QED
      BY <1>6, <2>2, <2>3 DEF FindAhead, Soonest
  <1>7. QED
    BY <1>3, <1>4, <1>5, <1>6 DEF Selecting

\* A step of one slot leaves the others alone, and grading or counting never
\* leaves a selection in its slot.
LEMMA SlotsAreSeparate ==
    ASSUME TypeOK, NEW r \in Requests, Selecting(r) \/ Grading(r) \/ Counting(r)
    PROVE  \A q \in Requests : q # r => req'[q] = req[q]
  <1>1. ASSUME Selecting(r) PROVE \A q \in Requests : q # r => req'[q] = req[q]
    BY <1>1 DEF TypeOK, Selecting, AskNext, FindDue, FindUnseen, FindAhead, Serve, Goto
  <1>2. ASSUME Grading(r) PROVE \A q \in Requests : q # r => req'[q] = req[q]
    <2>1. CASE \/ \E p \in Problems : BeginDrill(r, p)
               \/ \E p \in Problems, tier \in Tiers : BeginCommit(r, p, tier)
      BY <2>1 DEF TypeOK, BeginDrill, BeginCommit, BeginReview
    <2>2. CASE JudgeRationale(r)
      BY <2>2 DEF TypeOK, JudgeRationale
    <2>3. CASE ReadBands(r)
      BY <2>3 DEF TypeOK, ReadBands
    <2>4. CASE ReadCard(r)
      BY <2>4 DEF TypeOK, ReadCard
    <2>5. CASE Record(r) \/ ReviewFails(r)
      BY <2>5 DEF TypeOK, Record, ReviewFails
    <2>6. QED
      BY <1>2, <2>1, <2>2, <2>3, <2>4, <2>5 DEF Grading
  <1>3. ASSUME Counting(r) PROVE \A q \in Requests : q # r => req'[q] = req[q]
    BY <1>3 DEF TypeOK, Counting, AskBadge, CountDue, FindNextDue, Goto
  <1>4. QED
    BY <1>1, <1>2, <1>3

LEMMA GradingIsNoSelection ==
    ASSUME TypeOK, NEW r \in Requests, Grading(r)
    PROVE  req'[r].op # "next"
  <1>1. CASE \/ \E p \in Problems : BeginDrill(r, p)
             \/ \E p \in Problems, tier \in Tiers : BeginCommit(r, p, tier)
    BY <1>1 DEF TypeOK, BeginDrill, BeginCommit, BeginReview
  <1>2. ASSUME Reviewing(r), NEW at, NEW c,
               req' = [req EXCEPT ![r].at = at, ![r].composite = c]
        PROVE  req'[r].op # "next"
    <2>1. req[r] \in ReviewRequest
      BY <1>2, Shapes DEF Reviewing
    <2>2. req'[r] = [req[r] EXCEPT !.at = at, !.composite = c]
      BY <1>2 DEF TypeOK
    <2>3. QED
      BY <2>1, <2>2 DEF ReviewRequest
  <1>3. CASE JudgeRationale(r)
    BY <1>2, <1>3 DEF JudgeRationale, Reviewing
  <1>4. CASE ReadBands(r)
    <2>1. req[r] \in ReviewRequest
      BY <1>4, Shapes DEF ReadBands, Reviewing
    <2>2. QED
      BY <1>4, <2>1 DEF ReadBands, TypeOK, ReviewRequest
  <1>5. CASE ReadCard(r)
    <2>1. req[r] \in ReviewRequest
      BY <1>5, Shapes DEF ReadCard, Reviewing
    <2>2. QED
      BY <1>5, <2>1 DEF ReadCard, TypeOK, ReviewRequest
  <1>6. CASE Record(r) \/ ReviewFails(r)
    BY <1>6 DEF Record, ReviewFails, TypeOK, Idle
  <1>7. QED
    BY <1>1, <1>3, <1>4, <1>5, <1>6 DEF Grading

LEMMA CountingIsNoSelection ==
    ASSUME TypeOK, NEW r \in Requests, Counting(r)
    PROVE  req'[r].op = "badge"
  <1>1. ASSUME NEW scope, AskBadge(r, scope) PROVE req'[r].op = "badge"
    BY <1>1 DEF AskBadge, TypeOK
  <1>2. ASSUME CountDue(r) PROVE req'[r].op = "badge"
    <2>1. req[r] \in BadgeRequest
      BY <1>2, Shapes DEF CountDue
    <2>2. QED
      BY <1>2, <2>1 DEF CountDue, TypeOK, BadgeRequest
  <1>3. ASSUME FindNextDue(r) PROVE req'[r].op = "badge"
    <2>1. req[r] \in BadgeRequest
      BY <1>3, Shapes DEF FindNextDue
    <2>2. QED
      BY <1>3, <2>1 DEF FindNextDue, Goto, TypeOK, BadgeRequest
  <1>4. QED
    BY <1>1, <1>2, <1>3 DEF Counting

\* The bands do not concern a selection.
LEMMA OverrideLeavesSelections ==
    ASSUME TypeOK, NEW bands, SetOverride(bands), NEW r \in Requests
    PROVE  req'[r] = req[r] \/ (Reviewing(r) /\ req'[r] = [req[r] EXCEPT !.seen = @ \cup {bands}])
  BY DEF SetOverride

LEMMA SelectionInvariance == Spec => [](TypeOK /\ SelectionInv)
  <1>1. Init => SelectionInv
    BY DEF Init, SelectionInv, Fits, Idle
  <1>2. TypeOK /\ SelectionInv /\ [Next]_vars => SelectionInv'
    <2> SUFFICES ASSUME TypeOK, SelectionInv, [Next]_vars, NEW q \in Requests
                 PROVE  Fits(q)'
      BY DEF SelectionInv
    <2>1. Fits(q)
      BY DEF SelectionInv
    <2>2. CASE UNCHANGED req
      BY <2>1, <2>2, FitsKept
    <2>3. ASSUME NEW r \in Requests, Selecting(r) \/ Grading(r) \/ Counting(r)
          PROVE  Fits(q)'
      <3>1. CASE q # r
        BY <2>1, <2>3, <3>1, SlotsAreSeparate, FitsKept
      <3>2. CASE q = r /\ Selecting(r)
        BY <2>1, <3>2, SelectingFits
      <3>3. CASE q = r /\ (Grading(r) \/ Counting(r))
        BY <3>3, GradingIsNoSelection, CountingIsNoSelection DEF Fits
      <3>4. QED
        BY <2>3, <3>1, <3>2, <3>3
    <2>4. ASSUME NEW bands, SetOverride(bands)
          PROVE  Fits(q)'
      <3>1. CASE req'[q] = req[q]
        BY <2>1, <3>1, FitsKept
      <3>2. CASE Reviewing(q) /\ req'[q] = [req[q] EXCEPT !.seen = @ \cup {bands}]
        <4>1. req[q] \in ReviewRequest
          BY <3>2, Shapes DEF Reviewing
        <4>2. req'[q].op # "next"
          BY <3>2, <4>1 DEF ReviewRequest
        <4>3. QED
          BY <4>2 DEF Fits
      <3>3. QED
        BY <2>4, <3>1, <3>2, OverrideLeavesSelections
    <2>5. CASE \/ \E p \in Problems : WriteTell(p)
               \/ Tick
               \/ UNCHANGED vars
      BY <2>2, <2>5 DEF WriteTell, Tick, vars
    <2>6. QED
      BY <2>3, <2>4, <2>5 DEF Next, PutThresholds, ClearThresholds
  <1>3. QED
    BY <1>1, <1>2, TypeCorrect, PTL DEF Spec

\* Whatever reviews, tells and edits run between its queries, the selection
\* answers 404 only for an empty offer.
THEOREM NotFoundMeansNothing == Spec => []NeverEmptyHanded
  <1>1. SelectionInv => NeverEmptyHanded
    BY DEF SelectionInv, Fits, Chosen, NeverEmptyHanded
  <1>2. QED
    BY <1>1, SelectionInvariance, PTL

\* What is shown ahead of its time is shown because nothing on offer was left
\* unseen.
THEOREM NothingUnseenWasLeft == Spec => []AheadOnlyWhenAllSeen
  <1>1. SelectionInv => AheadOnlyWhenAllSeen
    BY DEF SelectionInv, Fits, Chosen, AheadOnlyWhenAllSeen
  <1>2. QED
    BY <1>1, SelectionInvariance, PTL

\* What is served is eligible and in the deck that was asked for.
THEOREM ServedAsAsked == Spec => []ServedIsInScope
  <1>1. TypeOK /\ SelectionInv => ServedIsInScope
    BY DEF SelectionInv, Fits, Chosen, ServedIsInScope, Drillable, Eligible, InScope
  <1>2. QED
    BY <1>1, SelectionInvariance, PTL

-----------------------------------------------------------------------------
(* Reviews. *)

LEMMA SelectingIsNoReview ==
    ASSUME TypeOK, NEW r \in Requests, Selecting(r)
    PROVE  req'[r].op = "next" /\ UNCHANGED <<card, attempts, commits>>
  <1>1. ASSUME NEW scope, AskNext(r, scope) PROVE req'[r].op = "next"
    BY <1>1 DEF AskNext, TypeOK
  <1>2. CASE FindDue(r) \/ FindUnseen(r) \/ FindAhead(r)
    <2>1. req[r] \in SelectRequest
      BY <1>2, Shapes DEF FindDue, FindUnseen, FindAhead
    <2>2. ASSUME NEW at, Goto(r, at) PROVE req'[r].op = "next"
      BY <2>1, <2>2 DEF Goto, TypeOK, SelectRequest
    <2>3. ASSUME NEW p, NEW source, Serve(r, p, source) PROVE req'[r].op = "next"
      BY <2>1, <2>3 DEF Serve, TypeOK, SelectRequest
    <2>4. QED
      BY <1>2, <2>2, <2>3 DEF FindDue, FindUnseen, FindAhead
  <1>3. UNCHANGED <<card, attempts, commits>>
    BY DEF Selecting, AskNext, FindDue, FindUnseen, FindAhead
  <1>4. QED
    BY <1>1, <1>2, <1>3 DEF Selecting

-----------------------------------------------------------------------------
(* One request at a time. *)

\* What a step may do to a slot.
LEMMA StepOf ==
    ASSUME TypeOK, [Next]_vars, NEW q \in Requests
    PROVE  \/ req'[q] = req[q]
           \/ Selecting(q) \/ Grading(q) \/ Counting(q)
           \/ Reviewing(q) /\ \E b \in Bands :
                 SetOverride(b) /\ req'[q] = [req[q] EXCEPT !.seen = @ \cup {b}]
  <1>1. ASSUME NEW r \in Requests, Selecting(r) \/ Grading(r) \/ Counting(r), q # r
        PROVE  req'[q] = req[q]
    BY <1>1, SlotsAreSeparate
  <1>2. ASSUME NEW b \in Bands, SetOverride(b)
        PROVE  \/ req'[q] = req[q]
               \/ Reviewing(q) /\ req'[q] = [req[q] EXCEPT !.seen = @ \cup {b}]
    BY <1>2, OverrideLeavesSelections
  <1>3. ASSUME \/ \E p \in Problems : WriteTell(p)
               \/ Tick
               \/ UNCHANGED vars
        PROVE  req'[q] = req[q]
    BY <1>3 DEF WriteTell, Tick, vars
  <1>4. QED
    BY <1>1, <1>2, <1>3 DEF Next, PutThresholds, ClearThresholds, Bands

\* The bands change by an edit only, which every review under way sees.
LEMMA BandsChange ==
    ASSUME TypeOK, [Next]_vars
    PROVE  UNCHANGED override \/ \E b \in Bands : SetOverride(b)
  <1>1. ASSUME NEW r \in Requests, Selecting(r) \/ Grading(r) \/ Counting(r)
        PROVE  UNCHANGED override
    BY <1>1 DEF Selecting, AskNext, FindDue, FindUnseen, FindAhead, Grading, BeginDrill,
                BeginCommit, BeginReview, JudgeRationale, ReadBands, ReadCard, Record,
                ReviewFails, Counting, AskBadge, CountDue, FindNextDue
  <1>2. QED
    BY <1>1 DEF Next, PutThresholds, ClearThresholds, WriteTell, Tick, Bands, vars

Rated(q) ==
    Reviewing(q) =>
        /\ override \in req[q].seen
        /\ req[q].at \in {"card", "write"} =>
              \E b \in req[q].seen : req[q].rating = ToFsrsRating(req[q].composite, Effective(b))

RatedInv == \A q \in Requests : Rated(q)

\* The steps of a review keep the bands it was rated by among those it saw.
LEMMA GradingRates ==
    ASSUME TypeOK, NEW q \in Requests, Rated(q), Grading(q)
    PROVE  Rated(q)'
  <1>1. UNCHANGED override
    BY DEF Grading, BeginDrill, BeginCommit, BeginReview, JudgeRationale, ReadBands, ReadCard,
           Record, ReviewFails
  <1>2. ASSUME NEW op, NEW p, NEW at \in {"judge", "bands"}, NEW c, BeginReview(q, op, p, at, c)
        PROVE  Rated(q)'
    BY <1>1, <1>2 DEF BeginReview, Rated, TypeOK
  <1>3. ASSUME Reviewing(q) PROVE req[q] \in ReviewRequest
    BY <1>3, Shapes DEF Reviewing
  <1>4. CASE JudgeRationale(q)
    BY <1>1, <1>3, <1>4 DEF JudgeRationale, Rated, Reviewing, TypeOK, ReviewRequest
  <1>5. CASE ReadBands(q)
    <2>1. /\ req'[q].seen = req[q].seen /\ req'[q].composite = req[q].composite
          /\ req'[q].rating = ToFsrsRating(req[q].composite, Effective(override))
          /\ Reviewing(q)
      BY <1>3, <1>5 DEF ReadBands, EffectiveThresholds, TypeOK, ReviewRequest
    <2>2. QED
      BY <1>1, <2>1 DEF Rated
  <1>6. CASE ReadCard(q)
    <2>1. /\ req'[q].seen = req[q].seen /\ req'[q].composite = req[q].composite
          /\ req'[q].rating = req[q].rating
          /\ Reviewing(q) /\ req[q].at = "card"
      BY <1>3, <1>6 DEF ReadCard, TypeOK, ReviewRequest
    <2>2. QED
      BY <1>1, <2>1 DEF Rated
  <1>7. CASE Record(q) \/ ReviewFails(q)
    BY <1>7 DEF Record, ReviewFails, Rated, Reviewing, Idle, TypeOK
  <1>8. QED
    BY <1>2, <1>4, <1>5, <1>6, <1>7 DEF Grading, BeginDrill, BeginCommit

\* Every review is rated by bands that were in force while it ran, however the
\* learner edits them meanwhile.
THEOREM RatingsFollowTheBands == Spec => []RatedByBandsInForce
  <1>1. Init => RatedInv
    BY DEF Init, RatedInv, Rated, Reviewing, Idle
  <1>2. TypeOK /\ RatedInv /\ [Next]_vars => RatedInv'
    <2> SUFFICES ASSUME TypeOK, RatedInv, [Next]_vars, NEW q \in Requests PROVE Rated(q)'
      BY DEF RatedInv
    <2>1. Rated(q)
      BY DEF RatedInv
    <2>2. CASE Grading(q)
      BY <2>1, <2>2, GradingRates
    <2>3. CASE Selecting(q) \/ Counting(q)
      BY <2>3, SelectingIsNoReview, CountingIsNoSelection DEF Rated, Reviewing
    <2>4. CASE req'[q] = req[q]
      <3>1. CASE UNCHANGED override
        BY <2>1, <2>4, <3>1 DEF Rated, Reviewing
      <3>2. ASSUME NEW b \in Bands, SetOverride(b) PROVE Rated(q)'
        <4>1. ASSUME Reviewing(q) PROVE b \in req'[q].seen
          <5>1. req[q] \in ReviewRequest
            BY <4>1, Shapes DEF Reviewing
          <5>2. req'[q] = [req[q] EXCEPT !.seen = @ \cup {b}]
            BY <3>2, <4>1 DEF SetOverride
          <5>3. QED
            BY <5>1, <5>2 DEF ReviewRequest
        <4>2. override' = b
          BY <3>2 DEF SetOverride
        <4>3. QED
          BY <2>1, <2>4, <4>1, <4>2 DEF Rated, Reviewing
      <3>3. QED
        BY <3>1, <3>2, BandsChange
    <2>5. ASSUME Reviewing(q), NEW b \in Bands, SetOverride(b),
                 req'[q] = [req[q] EXCEPT !.seen = @ \cup {b}]
          PROVE  Rated(q)'
      <3>1. req[q] \in ReviewRequest
        BY <2>5, Shapes DEF Reviewing
      <3>2. /\ req'[q].seen = req[q].seen \cup {b} /\ req'[q].composite = req[q].composite
            /\ req'[q].rating = req[q].rating /\ req'[q].at = req[q].at
        BY <2>5, <3>1 DEF ReviewRequest
      <3>3. override' = b
        BY <2>5 DEF SetOverride
      <3>4. QED
        BY <2>1, <2>5, <3>2, <3>3 DEF Rated
    <2>6. QED
      BY <2>2, <2>3, <2>4, <2>5, StepOf
  <1>3. RatedInv => RatedByBandsInForce
    BY DEF RatedInv, Rated, RatedByBandsInForce
  <1>4. QED
    BY <1>1, <1>2, <1>3, TypeCorrect, PTL DEF Spec

-----------------------------------------------------------------------------
(* Reviews of a problem that overlap may count as one, but as no more. *)

RepsOf(c) == IF c = None THEN 0 ELSE c.reps

\* A card counts no review that was not recorded, and is there from the first.
CardBacked(p) == RepsOf(card[p]) <= Answered(p) /\ (card[p] = None <=> Answered(p) = 0)

\* What a review read is no more than what has been recorded.
ReadBacked(q) ==
    Reviewing(q) /\ req[q].at = "write" => RepsOf(req[q].read) <= Answered(req[q].problem)

BackedInv == (\A p \in Problems : CardBacked(p)) /\ (\A q \in Requests : ReadBacked(q))

LEMMA OnlyRecordsCount ==
    ASSUME TypeOK, [Next]_vars
    PROVE  UNCHANGED <<card, attempts, commits>> \/ \E r \in Requests : Record(r)
  <1>1. ASSUME NEW r \in Requests, Selecting(r) \/ Counting(r)
        PROVE  UNCHANGED <<card, attempts, commits>>
    BY <1>1 DEF Selecting, AskNext, FindDue, FindUnseen, FindAhead, Counting, AskBadge, CountDue,
                FindNextDue
  <1>2. ASSUME NEW r \in Requests, Grading(r), ~Record(r)
        PROVE  UNCHANGED <<card, attempts, commits>>
    BY <1>2 DEF Grading, BeginDrill, BeginCommit, BeginReview, JudgeRationale, ReadBands,
                ReadCard, ReviewFails
  <1>3. QED
    BY <1>1, <1>2 DEF Next, PutThresholds, ClearThresholds, SetOverride, WriteTell, Tick, vars

\* What a record does to the counts.
LEMMA RecordCounts ==
    ASSUME TypeOK, NEW r \in Requests, Record(r)
    PROVE  /\ req[r].problem \in Problems /\ Reviewing(r) /\ req[r].at = "write"
           /\ \E c \in Cards : /\ c.reps = RepsOf(req[r].read) + 1
                               /\ card' = [card EXCEPT ![req[r].problem] = c]
           /\ \A p \in Problems :
                 Answered(p)' = Answered(p) + (IF p = req[r].problem THEN 1 ELSE 0)
  <1> DEFINE p == req[r].problem
             c == NextCard(req[r].read, req[r].now, req[r].rating)
  <1>1. req[r] \in ReviewRequest /\ Reviewing(r) /\ req[r].at = "write"
    BY Shapes DEF Record, Reviewing
  <1>2. p \in Problems /\ req[r].now \in Nat /\ req[r].rating \in Nat
    BY <1>1 DEF ReviewRequest, Again, Easy
  <1>3. c \in Cards /\ c.reps = RepsOf(req[r].read) + 1
    <2>1. req[r].read # None => req[r].read.reps \in Nat
      BY <1>1 DEF ReviewRequest, Cards
    <2>2. c = [due |-> req[r].now + req[r].rating, reps |-> RepsOf(req[r].read) + 1]
      BY DEF NextCard, Interval, Card, RepsOf
    <2>3. QED
      BY <1>2, <2>1, <2>2 DEF RepsOf, Cards
  <1>4. card' = [card EXCEPT ![p] = c]
    BY DEF Record, Upsert
  <1>5. \A q \in Problems : Answered(q)' = Answered(q) + (IF q = p THEN 1 ELSE 0)
    BY <1>2 DEF Record, TypeOK, Answered
  <1>6. QED
    BY <1>1, <1>2, <1>3, <1>4, <1>5

LEMMA CardsStayBacked ==
    ASSUME TypeOK, BackedInv, [Next]_vars, NEW p \in Problems
    PROVE  CardBacked(p)' /\ Answered(p) \in Nat /\ Answered(p) <= Answered(p)'
  <1>1. CardBacked(p) /\ Answered(p) \in Nat
    BY DEF BackedInv, Answered, TypeOK
  <1>2. CASE UNCHANGED <<card, attempts, commits>>
    BY <1>1, <1>2 DEF CardBacked, Answered
  <1>3. ASSUME NEW r \in Requests, Record(r)
        PROVE  CardBacked(p)' /\ Answered(p) <= Answered(p)'
    <2>1. Answered(p)' = Answered(p) + (IF p = req[r].problem THEN 1 ELSE 0)
      BY <1>3, RecordCounts
    <2>2. CASE p = req[r].problem
      <3>1. ReadBacked(r) /\ Reviewing(r) /\ req[r].at = "write"
        BY <1>3, RecordCounts DEF BackedInv
      <3>2. PICK c \in Cards : /\ c.reps = RepsOf(req[r].read) + 1
                               /\ card' = [card EXCEPT ![req[r].problem] = c]
        BY <1>3, RecordCounts
      <3>3. card'[p] = c /\ c # None
        BY <2>2, <3>2, NoneIsNone DEF TypeOK, Cards
      <3>4. RepsOf(req[r].read) <= Answered(p)
        BY <2>2, <3>1 DEF ReadBacked
      <3>5. RepsOf(c) = RepsOf(req[r].read) + 1 /\ c.reps \in Nat
        BY <3>2, <3>3 DEF RepsOf, Cards
      <3>6. RepsOf(req[r].read) \in Int
        <4>1. req[r] \in ReviewRequest
          BY <3>1, Shapes DEF Reviewing
        <4>2. QED
          BY <4>1 DEF RepsOf, ReviewRequest, Cards
      <3>7. QED
        BY <1>1, <2>1, <2>2, <3>3, <3>4, <3>5, <3>6 DEF CardBacked
    <2>3. CASE p # req[r].problem
      <3>1. card'[p] = card[p]
        BY <1>3, <2>3, RecordCounts DEF TypeOK
      <3>2. QED
        BY <1>1, <2>1, <2>3, <3>1 DEF CardBacked
    <2>4. QED
      BY <2>2, <2>3
  <1>4. QED
    BY <1>1, <1>2, <1>3, OnlyRecordsCount DEF CardBacked, Answered

\* The steps of a review read the card as it is.
LEMMA GradingReads ==
    ASSUME TypeOK, BackedInv, NEW q \in Requests, Grading(q)
    PROVE  Reviewing(q)' /\ req'[q].at = "write" =>
              /\ Reviewing(q) /\ req[q].at = "card" /\ req'[q].problem = req[q].problem
              /\ req'[q].read = card[req[q].problem] /\ UNCHANGED <<card, attempts, commits>>
  <1>1. ASSUME NEW op, NEW p, NEW at \in {"judge", "bands"}, NEW c, BeginReview(q, op, p, at, c)
        PROVE  req'[q].at # "write"
    BY <1>1 DEF BeginReview, TypeOK
  <1>2. ASSUME Reviewing(q) PROVE req[q] \in ReviewRequest
    BY <1>2, Shapes DEF Reviewing
  <1>3. CASE JudgeRationale(q) \/ ReadBands(q)
    BY <1>2, <1>3 DEF JudgeRationale, ReadBands, Reviewing, TypeOK, ReviewRequest
  <1>4. CASE ReadCard(q)
    BY <1>2, <1>4 DEF ReadCard, TypeOK, ReviewRequest
  <1>5. CASE Record(q) \/ ReviewFails(q)
    BY <1>5 DEF Record, ReviewFails, Reviewing, Idle, TypeOK
  <1>6. QED
    BY <1>1, <1>3, <1>4, <1>5 DEF Grading, BeginDrill, BeginCommit

LEMMA ReadsStayBacked ==
    ASSUME TypeOK, BackedInv, [Next]_vars, NEW q \in Requests
    PROVE  ReadBacked(q)'
  <1> SUFFICES ASSUME Reviewing(q)', req'[q].at = "write"
               PROVE  RepsOf(req[q].read)' <= Answered(req[q].problem)'
    BY DEF ReadBacked
  <1>1. ASSUME Reviewing(q), req[q].at = "write",
               req'[q].read = req[q].read, req'[q].problem = req[q].problem
        PROVE  RepsOf(req[q].read)' <= Answered(req[q].problem)'
    <2>1. req[q] \in ReviewRequest
      BY <1>1, Shapes DEF Reviewing
    <2>2. PICK p \in Problems : p = req[q].problem
      BY <2>1 DEF ReviewRequest
    <2>3. RepsOf(req[q].read) <= Answered(p)
      BY <1>1, <2>2 DEF BackedInv, ReadBacked
    <2>4. Answered(p) \in Nat /\ Answered(p) <= Answered(p)'
      BY CardsStayBacked
    <2>5. Answered(p)' \in Nat /\ RepsOf(req[q].read) \in Int
      BY <2>1, TypeKept DEF Answered, TypeOK, RepsOf, ReviewRequest, Cards
    <2>6. RepsOf(req[q].read) <= Answered(p)'
      BY <2>3, <2>4, <2>5
    <2>7. RepsOf(req[q].read)' = RepsOf(req[q].read) /\ Answered(req[q].problem)' = Answered(p)'
      BY <1>1, <2>2 DEF RepsOf, Answered
    <2>8. QED
      BY <2>6, <2>7
  <1>2. CASE Grading(q)
    <2>1. /\ Reviewing(q) /\ req'[q].problem = req[q].problem
          /\ req'[q].read = card[req[q].problem] /\ UNCHANGED <<card, attempts, commits>>
      BY <1>2, GradingReads
    <2>2. PICK p \in Problems : p = req[q].problem
      BY <2>1, Shapes DEF Reviewing, ReviewRequest
    <2>3. RepsOf(card[p]) <= Answered(p)
      BY DEF BackedInv, CardBacked
    <2>4. RepsOf(req[q].read)' = RepsOf(card[p]) /\ Answered(req[q].problem)' = Answered(p)
      BY <2>1, <2>2 DEF RepsOf, Answered
    <2>5. QED
      BY <2>3, <2>4
  <1>3. CASE Selecting(q) \/ Counting(q)
    BY <1>3, SelectingIsNoReview, CountingIsNoSelection DEF Reviewing
  <1>4. CASE req'[q] = req[q]
    BY <1>1, <1>4 DEF Reviewing
  <1>5. ASSUME Reviewing(q), NEW b \in Bands, req'[q] = [req[q] EXCEPT !.seen = @ \cup {b}]
        PROVE  RepsOf(req[q].read)' <= Answered(req[q].problem)'
    <2>1. req[q] \in ReviewRequest
      BY <1>5, Shapes DEF Reviewing
    <2>2. req'[q].read = req[q].read /\ req'[q].problem = req[q].problem /\ req'[q].at = req[q].at
      BY <1>5, <2>1 DEF ReviewRequest
    <2>3. QED
      BY <1>1, <1>5, <2>2
  <1>6. QED
    BY <1>2, <1>3, <1>4, <1>5, StepOf

LEMMA BackedInvariance == Spec => []BackedInv
  <1>1. Init => BackedInv
    BY DEF Init, BackedInv, CardBacked, ReadBacked, Reviewing, Idle, RepsOf, Answered
  <1>2. TypeOK /\ BackedInv /\ [Next]_vars => BackedInv'
    BY CardsStayBacked, ReadsStayBacked DEF BackedInv
  <1>3. QED
    BY <1>1, <1>2, TypeCorrect, PTL DEF Spec

\* The reviews under way stay the same, and go on reading what is there.
Proceeds ==
    /\ UNCHANGED <<card, attempts, commits, overlaps>>
    /\ \A p \in Problems : UnderReview(p)' = UnderReview(p)
    /\ \A p \in Problems, q \in Requests : q \in UnderReview(p) /\ req'[q].at = "write" =>
          \/ req[q].at = "write" /\ req'[q].read = req[q].read
          \/ req'[q].read = card[p]

\* One more review of p begins.
Joins(r, p) ==
    /\ UNCHANGED <<card, attempts, commits>>
    /\ overlaps' = [overlaps EXCEPT ![p] = IF UnderReview(p) = {} THEN @ ELSE @ + 1]
    /\ r \notin UnderReview(p) /\ UnderReview(p)' = UnderReview(p) \cup {r}
    /\ \A o \in Problems \ {p} : UnderReview(o)' = UnderReview(o)
    /\ req'[r].at # "write" /\ \A q \in Requests \ {r} : req'[q] = req[q]

\* A review of p ends.
Leaves(r, p) ==
    /\ UNCHANGED overlaps
    /\ r \in UnderReview(p) /\ UnderReview(p)' = UnderReview(p) \ {r}
    /\ \A o \in Problems \ {p} : UnderReview(o)' = UnderReview(o)
    /\ \A q \in Requests \ {r} : req'[q] = req[q]
    /\ Record(r) \/ UNCHANGED <<card, attempts, commits>>

\* Nothing else begins or ends a review.
LEMMA NoReviewMoves ==
    ASSUME TypeOK, UNCHANGED <<card, attempts, commits, overlaps>>,
           \A q \in Requests : \/ req'[q] = req[q]
                               \/ ~Reviewing(q) /\ ~Reviewing(q)'
                               \/ /\ Reviewing(q) /\ Reviewing(q)'
                                  /\ req'[q].problem = req[q].problem
                                  /\ req'[q].at = "write" =>
                                        \/ req[q].at = "write" /\ req'[q].read = req[q].read
                                        \/ req'[q].read = card[req[q].problem]
    PROVE  Proceeds
  <1>1. \A p \in Problems : UnderReview(p)' = UnderReview(p)
    BY DEF UnderReview, Reviewing
  <1>2. ASSUME NEW p \in Problems, NEW q \in Requests, q \in UnderReview(p), req'[q].at = "write"
        PROVE  \/ req[q].at = "write" /\ req'[q].read = req[q].read
               \/ req'[q].read = card[p]
    BY <1>2 DEF UnderReview
  <1>3. QED
    BY <1>1, <1>2 DEF Proceeds

LEMMA GradingMoves ==
    ASSUME TypeOK, NEW r \in Requests, Grading(r)
    PROVE  Proceeds \/ \E p \in Problems : Joins(r, p) \/ Leaves(r, p)
  <1>1. \A q \in Requests : q # r => req'[q] = req[q]
    BY SlotsAreSeparate
  <1>2. ASSUME NEW op \in {"drill", "commit"}, NEW p \in Problems, NEW at \in {"judge", "bands"},
               NEW c, BeginReview(r, op, p, at, c)
        PROVE  Joins(r, p)
    <2>1. req'[r].op = op /\ req'[r].problem = p /\ req'[r].at = at
      BY <1>2 DEF BeginReview, TypeOK
    <2>2. ~Reviewing(r)
      BY <1>2, Shapes DEF BeginReview, Free, Reviewing, ReviewRequest
    <2>3. \A o \in Problems : UnderReview(o)' = UnderReview(o) \cup (IF o = p THEN {r} ELSE {})
      BY <1>1, <2>1, <2>2 DEF UnderReview, Reviewing
    <2>4. QED
      BY <1>1, <1>2, <2>1, <2>2, <2>3 DEF Joins, BeginReview, UnderReview
  <1>3. ASSUME Record(r) \/ ReviewFails(r)
        PROVE  \E p \in Problems : Leaves(r, p)
    <2>1. req[r] \in ReviewRequest /\ Reviewing(r)
      BY <1>3, Shapes DEF Record, ReviewFails, Reviewing
    <2>2. PICK p \in Problems : p = req[r].problem
      BY <2>1 DEF ReviewRequest
    <2>3. ~Reviewing(r)'
      BY <1>3 DEF Record, ReviewFails, Reviewing, Idle, TypeOK
    <2>4. \A o \in Problems : UnderReview(o)' = UnderReview(o) \ (IF o = p THEN {r} ELSE {})
      BY <1>1, <2>1, <2>2, <2>3 DEF UnderReview, Reviewing
    <2>5. QED
      BY <1>1, <1>3, <2>1, <2>2, <2>4 DEF Leaves, Record, ReviewFails, UnderReview
  <1>4. ASSUME JudgeRationale(r) \/ ReadBands(r) \/ ReadCard(r)
        PROVE  Proceeds
    <2>1. UNCHANGED <<card, attempts, commits, overlaps>>
      BY <1>4 DEF JudgeRationale, ReadBands, ReadCard
    <2>2. req[r] \in ReviewRequest /\ Reviewing(r)
      BY <1>4, Shapes DEF JudgeRationale, ReadBands, ReadCard, Reviewing
    <2>3. /\ req'[r].op = req[r].op /\ req'[r].problem = req[r].problem
          /\ req'[r].at = "write" => req'[r].read = card[req[r].problem]
      <3>1. CASE JudgeRationale(r)
        BY <2>2, <3>1 DEF JudgeRationale, TypeOK, ReviewRequest
      <3>2. CASE ReadBands(r)
        BY <2>2, <3>2 DEF ReadBands, TypeOK, ReviewRequest
      <3>3. CASE ReadCard(r)
        BY <2>2, <3>3 DEF ReadCard, TypeOK, ReviewRequest
      <3>4. QED
        BY <1>4, <3>1, <3>2, <3>3
    <2>4. Reviewing(r)'
      BY <2>2, <2>3 DEF Reviewing
    <2>5. QED
      BY <1>1, <2>1, <2>2, <2>3, <2>4, NoReviewMoves
  <1>5. QED
    BY <1>2, <1>3, <1>4 DEF Grading, BeginDrill, BeginCommit

LEMMA ReviewMoves ==
    ASSUME TypeOK, [Next]_vars
    PROVE  Proceeds \/ \E r \in Requests, p \in Problems : Joins(r, p) \/ Leaves(r, p)
  <1>1. ASSUME UNCHANGED <<card, attempts, commits, overlaps, req>> PROVE Proceeds
    BY <1>1, NoReviewMoves
  <1>2. ASSUME NEW r \in Requests, Selecting(r) \/ Counting(r) PROVE Proceeds
    <2>1. UNCHANGED <<card, attempts, commits, overlaps>>
      BY <1>2 DEF Selecting, AskNext, FindDue, FindUnseen, FindAhead, Counting, AskBadge,
                  CountDue, FindNextDue
    <2>2. ~Reviewing(r)'
      BY <1>2, SelectingIsNoReview, CountingIsNoSelection DEF Reviewing
    <2>3. ~Reviewing(r)
      BY <1>2, Shapes
      DEF Selecting, AskNext, FindDue, FindUnseen, FindAhead, Counting, AskBadge,
          CountDue, FindNextDue, Free, Reviewing, ReviewRequest
    <2>4. \A q \in Requests : q # r => req'[q] = req[q]
      BY <1>2, SlotsAreSeparate
    <2>5. QED
      BY <2>1, <2>2, <2>3, <2>4, NoReviewMoves
  <1>3. ASSUME NEW bands, SetOverride(bands) PROVE Proceeds
    <2>1. UNCHANGED <<card, attempts, commits, overlaps>>
      BY <1>3 DEF SetOverride
    <2>2. ASSUME NEW q \in Requests, req'[q] # req[q]
          PROVE  /\ Reviewing(q) /\ Reviewing(q)'
                 /\ req'[q].problem = req[q].problem
                 /\ req'[q].at = req[q].at /\ req'[q].read = req[q].read
      <3>1. Reviewing(q) /\ req'[q] = [req[q] EXCEPT !.seen = @ \cup {bands}]
        BY <1>3, <2>2, OverrideLeavesSelections
      <3>2. req[q] \in ReviewRequest
        BY <3>1, Shapes DEF Reviewing
      <3>3. QED
        BY <3>1, <3>2 DEF Reviewing, ReviewRequest
    <2>3. QED
      BY <2>1, <2>2, NoReviewMoves
  <1>4. CASE \/ \E p \in Problems : WriteTell(p)
             \/ Tick
             \/ UNCHANGED vars
    BY <1>1, <1>4 DEF WriteTell, Tick, vars
  <1>5. QED
    BY <1>2, <1>3, <1>4, GradingMoves DEF Next, PutThresholds, ClearThresholds

\* Two reviews of one problem are under way only if one began beside the other.
Apart ==
    \A p \in Problems : overlaps[p] = 0 =>
        \A r, q \in UnderReview(p) : r = q

LEMMA ApartStep == ASSUME TypeOK, Apart, [Next]_vars PROVE Apart'
  <1>1. CASE Proceeds
    BY <1>1 DEF Proceeds, Apart
  <1>2. ASSUME NEW r \in Requests, NEW p \in Problems, Joins(r, p) PROVE Apart'
    <2> SUFFICES ASSUME NEW o \in Problems, overlaps'[o] = 0, NEW x \in UnderReview(o)',
                        NEW y \in UnderReview(o)'
                 PROVE  x = y
      BY DEF Apart
    <2>1. CASE o = p
      <3>1. overlaps[p] \in Nat
        BY DEF TypeOK
      <3>2. UnderReview(p) = {}
        BY <1>2, <2>1, <3>1 DEF Joins, TypeOK
      <3>3. QED
        BY <1>2, <2>1, <3>2 DEF Joins
    <2>2. CASE o # p
      BY <1>2, <2>2 DEF Joins, Apart, TypeOK
    <2>3. QED
      BY <2>1, <2>2
  <1>3. ASSUME NEW r \in Requests, NEW p \in Problems, Leaves(r, p) PROVE Apart'
    BY <1>3 DEF Leaves, Apart
  <1>4. QED
    BY <1>1, <1>2, <1>3, ReviewMoves

LEMMA ReviewsApart == Spec => []Apart
  <1>1. Init => Apart
    BY DEF Init, Apart, UnderReview, Reviewing, Idle
  <1>2. TypeOK /\ Apart /\ [Next]_vars => Apart'
    BY ApartStep
  <1>3. QED
    BY <1>1, <1>2, TypeCorrect, PTL DEF Spec

-----------------------------------------------------------------------------
(* Reviews are counted. *)

\* The answers of a problem, recorded or still to come.
Load(p) == Answered(p) + Cardinality(UnderReview(p))

\* What is recorded is counted but for the overlaps, and so will be, one review
\* of the burst excepted, all that the reviews under way may still record,
\* whichever of them writes next.
Covered(p) ==
    /\ Answered(p) <= Reps(p) + overlaps[p]
    /\ UnderReview(p) # {} => Load(p) <= Reps(p) + overlaps[p] + 1
    /\ \A q \in UnderReview(p) :
          req[q].at = "write" => Load(p) <= RepsOf(req[q].read) + overlaps[p] + 1

CoveredInv == \A p \in Problems : Covered(p)

LEMMA Numbers ==
    ASSUME TypeOK, NEW p \in Problems
    PROVE  /\ Reps(p) \in Nat /\ Reps(p) = RepsOf(card[p]) /\ overlaps[p] \in Nat
           /\ Answered(p) \in Nat /\ Load(p) \in Nat
           /\ IsFiniteSet(UnderReview(p)) /\ Cardinality(UnderReview(p)) \in Nat
           /\ \A q \in UnderReview(p) : RepsOf(req[q].read) \in Nat
  <1>1. IsFiniteSet(UnderReview(p)) /\ Cardinality(UnderReview(p)) \in Nat
    BY FiniteRequests, FS_Subset, FS_CardinalityType DEF UnderReview
  <1>2. Reps(p) \in Nat /\ Reps(p) = RepsOf(card[p]) /\ overlaps[p] \in Nat /\ Answered(p) \in Nat
    BY DEF TypeOK, Reps, RepsOf, Cards, Answered
  <1>3. ASSUME NEW q \in UnderReview(p) PROVE RepsOf(req[q].read) \in Nat
    <2>1. q \in Requests /\ req[q] \in ReviewRequest
      BY <1>3, Shapes DEF UnderReview, Reviewing
    <2>2. req[q].read \in Cards \cup {None}
      BY <2>1 DEF ReviewRequest
    <2>3. QED
      BY <2>2 DEF RepsOf, Cards
  <1>4. QED
    BY <1>1, <1>2, <1>3 DEF Load

\* A problem no step of this kind touches stays covered.
LEMMA CoveredKept ==
    ASSUME TypeOK, NEW p \in Problems, Covered(p),
           card'[p] = card[p], overlaps'[p] = overlaps[p], Answered(p)' = Answered(p),
           UnderReview(p)' = UnderReview(p),
           \A q \in UnderReview(p) : req'[q].at = "write" =>
              \/ req[q].at = "write" /\ req'[q].read = req[q].read
              \/ req'[q].read = card[p]
    PROVE  Covered(p)'
  <1>1. Reps(p)' = Reps(p) /\ Load(p)' = Load(p)
    BY DEF Reps, Load
  <1>2. ASSUME NEW q \in UnderReview(p), req'[q].at = "write"
        PROVE  Load(p) <= RepsOf(req'[q].read) + overlaps[p] + 1
    <2>1. CASE req[q].at = "write" /\ req'[q].read = req[q].read
      BY <1>2, <2>1 DEF Covered
    <2>2. CASE req'[q].read = card[p]
      <3>1. UnderReview(p) # {} /\ Reps(p) = RepsOf(card[p])
        BY <1>2, Numbers
      <3>2. QED
        BY <2>2, <3>1 DEF Covered
    <2>3. QED
      BY <1>2, <2>1, <2>2
  <1>3. /\ Answered(p)' <= Reps(p)' + overlaps'[p]
        /\ UnderReview(p)' # {} => Load(p)' <= Reps(p)' + overlaps'[p] + 1
    BY <1>1 DEF Covered
  <1>4. \A q \in UnderReview(p)' :
           req'[q].at = "write" => Load(p)' <= RepsOf(req'[q].read) + overlaps'[p] + 1
    BY <1>1, <1>2
  <1>5. QED
    BY <1>3, <1>4 DEF Covered, RepsOf

\* The review that begins joins no other, or is counted as an overlap.
LEMMA JoinCovers ==
    ASSUME TypeOK, NEW p \in Problems, Covered(p), NEW r \in Requests, Joins(r, p)
    PROVE  Covered(p)'
  <1> DEFINE F == UnderReview(p)
             n == Cardinality(F)
  <1>1. /\ Reps(p) \in Nat /\ overlaps[p] \in Nat /\ Answered(p) \in Nat /\ n \in Nat
        /\ IsFiniteSet(F) /\ \A q \in F : RepsOf(req[q].read) \in Nat
    BY Numbers
  <1>2. F' = F \cup {r} /\ r \notin F /\ Cardinality(F') = n + 1
    BY <1>1, FS_AddElement DEF Joins
  <1>3. Reps(p)' = Reps(p) /\ Answered(p)' = Answered(p) /\ Load(p)' = Load(p) + 1
    BY <1>1, <1>2 DEF Joins, Reps, Answered, Load
  <1>4. Load(p) = Answered(p) + n
    BY DEF Load
  <1>5. \A q \in F : req'[q] = req[q]
    BY <1>2 DEF Joins, UnderReview
  <1>6. req'[r].at # "write"
    BY DEF Joins
  <1>7. Answered(p) <= Reps(p) + overlaps[p]
    BY DEF Covered
  <1>8. CASE F = {}
    <2>1. n = 0 /\ overlaps'[p] = overlaps[p]
      BY <1>8, FS_EmptySet DEF Joins, TypeOK
    <2>2. Load(p)' <= Reps(p) + overlaps[p] + 1
      BY <1>1, <1>3, <1>4, <1>7, <2>1
    <2>3. \A q \in F' : req'[q].at # "write"
      BY <1>2, <1>6, <1>8
    <2> HIDE DEF F, n
    <2>4. QED
      BY <1>3, <1>7, <2>1, <2>2, <2>3 DEF Covered, F
  <1>9. CASE F # {}
    <2>1. overlaps'[p] = overlaps[p] + 1
      BY <1>9 DEF Joins, TypeOK
    <2>2. Load(p) <= Reps(p) + overlaps[p] + 1
      BY <1>9 DEF Covered
    <2>3. Load(p)' <= Reps(p) + overlaps'[p] + 1 /\ Answered(p) <= Reps(p) + overlaps'[p]
      BY <1>1, <1>3, <1>4, <1>7, <2>1, <2>2
    <2>4. ASSUME NEW q \in F', req'[q].at = "write"
          PROVE  Load(p)' <= RepsOf(req'[q].read) + overlaps'[p] + 1
      <3>1. q \in F /\ req'[q] = req[q]
        BY <1>2, <1>5, <1>6, <2>4
      <3>2. Load(p) <= RepsOf(req[q].read) + overlaps[p] + 1 /\ RepsOf(req[q].read) \in Nat
        BY <1>1, <2>4, <3>1 DEF Covered
      <3>3. QED
        BY <1>1, <1>3, <1>4, <2>1, <3>1, <3>2
    <2> HIDE DEF n
    <2>5. QED
      BY <1>3, <2>3, <2>4 DEF Covered, RepsOf
  <1>10. QED
    BY <1>8, <1>9

\* A review that ends in nothing leaves the others as they were; one that is
\* recorded counts one more than it read.
LEMMA LeaveCovers ==
    ASSUME TypeOK, NEW p \in Problems, Covered(p), NEW r \in Requests, Leaves(r, p)
    PROVE  Covered(p)'
  <1> DEFINE F == UnderReview(p)
             n == Cardinality(F)
  <1>1. /\ Reps(p) \in Nat /\ overlaps[p] \in Nat /\ Answered(p) \in Nat /\ n \in Nat
        /\ IsFiniteSet(F) /\ \A q \in F : RepsOf(req[q].read) \in Nat
    BY Numbers
  <1>2. F' = F \ {r} /\ r \in F /\ Cardinality(F') = n - 1
    BY <1>1, FS_RemoveElement DEF Leaves
  <1>3. n >= 1
    BY <1>1, <1>2, FS_EmptySet, FS_CardinalityType
  <1>4. \A q \in F' : q \in F /\ req'[q] = req[q]
    BY <1>2 DEF Leaves, UnderReview
  <1>5. Load(p) = Answered(p) + n /\ Load(p)' = Answered(p)' + (n - 1)
    BY <1>2 DEF Load
  <1>6. overlaps'[p] = overlaps[p]
    BY DEF Leaves
  <1>7. \A q \in F : req[q].at = "write" => Load(p) <= RepsOf(req[q].read) + overlaps[p] + 1
    BY DEF Covered
  <1>8. Answered(p) <= Reps(p) + overlaps[p] /\ Load(p) <= Reps(p) + overlaps[p] + 1
    BY <1>2 DEF Covered
  <1>9. CASE UNCHANGED <<card, attempts, commits>>
    <2>1. Reps(p)' = Reps(p) /\ Answered(p)' = Answered(p)
      BY <1>9 DEF Reps, Answered
    <2>2. Load(p)' <= Load(p) /\ Load(p)' \in Int /\ Load(p) \in Int
      BY <1>1, <1>5, <2>1
    <2>3. Load(p)' <= Reps(p)' + overlaps'[p] + 1
      BY <1>1, <1>6, <1>8, <2>1, <2>2
    <2>4. ASSUME NEW q \in F', req'[q].at = "write"
          PROVE  Load(p)' <= RepsOf(req'[q].read) + overlaps'[p] + 1
      BY <1>1, <1>4, <1>6, <1>7, <2>2, <2>4
    <2> HIDE DEF n
    <2>5. QED
      BY <1>6, <1>8, <2>1, <2>3, <2>4 DEF Covered, RepsOf
  <1>10. CASE Record(r)
    <2>1. /\ req[r].problem = p /\ req[r].at = "write"
          /\ Answered(p)' = Answered(p) + 1
          /\ \E c \in Cards : /\ c.reps = RepsOf(req[r].read) + 1
                              /\ card' = [card EXCEPT ![p] = c]
      BY <1>2, <1>10, RecordCounts DEF UnderReview
    <2>2. Reps(p)' = RepsOf(req[r].read) + 1
      BY <2>1, NoneIsNone DEF Reps, TypeOK, Cards
    <2>3. Load(p) <= RepsOf(req[r].read) + overlaps[p] + 1 /\ RepsOf(req[r].read) \in Nat
      BY <1>1, <1>2, <1>7, <2>1
    <2>4. Load(p)' = Load(p)
      BY <1>1, <1>5, <2>1
    <2>5. /\ Answered(p)' <= Reps(p)' + overlaps'[p]
          /\ Load(p)' <= Reps(p)' + overlaps'[p] + 1
      BY <1>1, <1>3, <1>5, <1>6, <2>1, <2>2, <2>3, <2>4
    <2>6. ASSUME NEW q \in F', req'[q].at = "write"
          PROVE  Load(p)' <= RepsOf(req'[q].read) + overlaps'[p] + 1
      BY <1>4, <1>6, <1>7, <2>4, <2>6
    <2> HIDE DEF n
    <2>7. QED
      BY <2>5, <2>6 DEF Covered, RepsOf
  <1>11. QED
    BY <1>9, <1>10 DEF Leaves

LEMMA CoveredStep == ASSUME TypeOK, CoveredInv, [Next]_vars PROVE CoveredInv'
  <1> SUFFICES ASSUME NEW o \in Problems PROVE Covered(o)'
    BY DEF CoveredInv
  <1>1. Covered(o)
    BY DEF CoveredInv
  <1>2. CASE Proceeds
    <2>1. \A q \in UnderReview(o) : q \in Requests
      BY DEF UnderReview
    <2>2. QED
      BY <1>1, <1>2, <2>1, CoveredKept DEF Proceeds, Answered
  <1>3. ASSUME NEW r \in Requests, NEW p \in Problems, Joins(r, p) PROVE Covered(o)'
    <2>1. CASE o = p
      BY <1>1, <1>3, <2>1, JoinCovers
    <2>2. CASE o # p
      <3>1. \A q \in UnderReview(o) : q \in Requests /\ (q = r \/ req'[q] = req[q])
        BY <1>3 DEF UnderReview, Joins
      <3>2. /\ card'[o] = card[o] /\ overlaps'[o] = overlaps[o] /\ Answered(o)' = Answered(o)
            /\ UnderReview(o)' = UnderReview(o) /\ req'[r].at # "write"
        BY <1>3, <2>2 DEF Joins, Answered, TypeOK
      <3>3. QED
        BY <1>1, <3>1, <3>2, CoveredKept
    <2>3. QED
      BY <2>1, <2>2
  <1>4. ASSUME NEW r \in Requests, NEW p \in Problems, Leaves(r, p) PROVE Covered(o)'
    <2>1. CASE o = p
      BY <1>1, <1>4, <2>1, LeaveCovers
    <2>2. CASE o # p
      <3>1. r \notin UnderReview(o)
        BY <1>4, <2>2 DEF Leaves, UnderReview
      <3>2. \A q \in UnderReview(o) : req'[q] = req[q]
        BY <1>4, <3>1 DEF Leaves, UnderReview
      <3>3. card'[o] = card[o] /\ Answered(o)' = Answered(o)
        <4>1. ASSUME Record(r) PROVE card'[o] = card[o] /\ Answered(o)' = Answered(o)
          <5>1. req[r].problem = p
            BY <1>4 DEF Leaves, UnderReview
          <5>2. Answered(o)' = Answered(o) + 0 /\ card'[o] = card[o]
            BY <2>2, <4>1, <5>1, RecordCounts DEF TypeOK
          <5>3. QED
            BY <5>2, Numbers
        <4>2. QED
          BY <1>4, <4>1 DEF Leaves, Answered
      <3>4. overlaps'[o] = overlaps[o] /\ UnderReview(o)' = UnderReview(o)
        BY <1>4, <2>2 DEF Leaves
      <3>5. QED
        BY <1>1, <3>2, <3>3, <3>4, CoveredKept
    <2>3. QED
      BY <2>1, <2>2
  <1>5. QED
    BY <1>2, <1>3, <1>4, ReviewMoves

\* Whatever overlaps and whatever fails, a card counts no review that was not
\* recorded, and every recorded answer but for at most one per overlap; the
\* answers of a learner who never grades a problem twice at once all count.
THEOREM ReviewsAreCounted == Spec => []EveryAnswerIsAReview
  <1>1. Init => CoveredInv
    <2>1. ASSUME Init, NEW p \in Problems
          PROVE  Answered(p) = 0 /\ Reps(p) = 0 /\ overlaps[p] = 0 /\ UnderReview(p) = {}
      BY <2>1 DEF Init, Answered, Reps, UnderReview, Reviewing, Idle
    <2>2. QED
      BY <2>1 DEF CoveredInv, Covered
  <1>2. TypeOK /\ CoveredInv /\ [Next]_vars => CoveredInv'
    BY CoveredStep
  <1>3. BackedInv /\ CoveredInv => EveryAnswerIsAReview
    BY DEF BackedInv, CardBacked, CoveredInv, Covered, EveryAnswerIsAReview, Reps, RepsOf
  <1>4. QED
    BY <1>1, <1>2, <1>3, BackedInvariance, TypeCorrect, PTL DEF Spec

-----------------------------------------------------------------------------
(* The badge. *)

Badge(q) ==
    (req[q].op = "badge" /\ req[q].at \in {"next", "answered"}) =>
        /\ req[q].due = req[q].drill + req[q].note
        /\ (req[q].at = "next" /\ req[q].due > 0) => Seen(Counted(req[q].scope)) # {}
        /\ (req[q].at = "answered" /\ req[q].due > 0) => req[q].next # None

BadgeInv == \A q \in Requests : Badge(q)

\* What is due is in one flow or the other.
LEMMA FlowsSplit ==
    ASSUME NEW S \in SUBSET Problems
    PROVE  Cardinality(S) = Cardinality(S \cap Eligible) + Cardinality(S \cap NoteFlow)
  <1> DEFINE A == S \cap Eligible
             B == S \cap NoteFlow
  <1>1. IsFiniteSet(A) /\ IsFiniteSet(B) /\ Cardinality(A) \in Nat /\ Cardinality(B) \in Nat
    BY Countable
  <1>2. S = A \cup B /\ A \cap B = {}
    BY DEF NoteFlow
  <1> HIDE DEF A, B
  <1>3. Cardinality(S) = Cardinality(A) + Cardinality(B) - 0
    BY <1>1, <1>2, FS_Union, FS_EmptySet
  <1>4. QED
    BY <1>1, <1>3 DEF A, B

\* A step of a review leaves a review, or nothing, in its slot.
LEMMA GradingIsNoBadge ==
    ASSUME TypeOK, NEW r \in Requests, Grading(r)
    PROVE  req'[r].op # "badge"
  <1>1. CASE \/ \E p \in Problems : BeginDrill(r, p)
             \/ \E p \in Problems, tier \in Tiers : BeginCommit(r, p, tier)
    BY <1>1 DEF TypeOK, BeginDrill, BeginCommit, BeginReview
  <1>2. CASE JudgeRationale(r) \/ ReadBands(r) \/ ReadCard(r)
    <2>1. req[r] \in ReviewRequest
      BY <1>2, Shapes DEF JudgeRationale, ReadBands, ReadCard, Reviewing
    <2>2. req'[r].op = req[r].op
      <3>1. CASE JudgeRationale(r)
        BY <2>1, <3>1 DEF JudgeRationale, TypeOK, ReviewRequest
      <3>2. CASE ReadBands(r)
        BY <2>1, <3>2 DEF ReadBands, TypeOK, ReviewRequest
      <3>3. CASE ReadCard(r)
        BY <2>1, <3>3 DEF ReadCard, TypeOK, ReviewRequest
      <3>4. QED
        BY <1>2, <3>1, <3>2, <3>3
    <2>3. QED
      BY <2>1, <2>2 DEF ReviewRequest
  <1>3. CASE Record(r) \/ ReviewFails(r)
    BY <1>3 DEF Record, ReviewFails, TypeOK, Idle
  <1>4. QED
    BY <1>1, <1>2, <1>3 DEF Grading

\* The steps of a badge keep its answer honest.
LEMMA CountingIsHonest ==
    ASSUME TypeOK, NEW q \in Requests, Badge(q), Counting(q)
    PROVE  Badge(q)'
  <1>1. UNCHANGED <<told, card>>
    BY DEF Counting, AskBadge, CountDue, FindNextDue
  <1>2. \A scope : Counted(scope)' = Counted(scope) /\ Seen(Counted(scope))' = Seen(Counted(scope))
    BY <1>1 DEF Counted, Drillable, Eligible, Seen
  <1>3. ASSUME NEW scope, AskBadge(q, scope) PROVE Badge(q)'
    BY <1>3 DEF AskBadge, Badge, TypeOK
  <1>4. CASE CountDue(q)
    <2> DEFINE S == DueIn(Counted(req[q].scope), req[q].now)
    <2>1. req[q] \in BadgeRequest
      BY <1>4, Shapes DEF CountDue
    <2>2. S \in SUBSET Problems /\ S \subseteq Seen(Counted(req[q].scope))
      BY <2>1, CountedAreProblems DEF DueIn, Seen
    <2>3. Cardinality(S) = Cardinality(S \cap Eligible) + Cardinality(S \cap NoteFlow)
      BY <2>2, FlowsSplit
    <2>4. Cardinality(S) > 0 => Seen(Counted(req[q].scope)) # {}
      BY <2>2, FS_EmptySet
    <2>5. req' = [req EXCEPT ![q].at = "next", ![q].due = Cardinality(S),
                             ![q].drill = Cardinality(S \cap Eligible),
                             ![q].note = Cardinality(S \cap NoteFlow)]
      BY <1>4 DEF CountDue
    <2> HIDE DEF S
    <2>6. /\ req'[q].at = "next" /\ req'[q].due = Cardinality(S) /\ req'[q].scope = req[q].scope
          /\ req'[q].drill = Cardinality(S \cap Eligible)
          /\ req'[q].note = Cardinality(S \cap NoteFlow)
      BY <2>1, <2>5 DEF TypeOK, BadgeRequest
    <2>7. QED
      BY <1>2, <2>3, <2>4, <2>6 DEF Badge
  <1>5. CASE FindNextDue(q)
    <2> DEFINE S == Upcoming(Counted(req[q].scope), req[q].now)
    <2>1. req[q] \in BadgeRequest /\ req[q].at = "next"
      BY <1>5, Shapes DEF FindNextDue
    <2>2. CASE S = {} /\ Goto(q, "answered")
      <3>1. req'[q] = [req[q] EXCEPT !.at = "answered"]
        BY <2>2 DEF Goto, TypeOK
      <3>2. ~(req[q].due > 0) /\ req[q].due = req[q].drill + req[q].note
        BY <1>5, <2>1, <2>2 DEF Badge, Upcoming, FindNextDue
      <3>3. QED
        BY <2>1, <3>1, <3>2 DEF Badge, BadgeRequest
    <2>3. ASSUME NEW p \in S,
                 req' = [req EXCEPT ![q].at = "answered", ![q].next = card[p].due]
          PROVE  Badge(q)'
      <3>1. p \in Problems /\ card[p] # None
        BY DEF Upcoming, Seen, Counted, Drillable, Eligible
      <3>2. card[p].due # None
        BY <3>1 DEF TypeOK, Cards
      <3>3. req'[q] = [req[q] EXCEPT !.at = "answered", !.next = card[p].due]
        BY <2>3 DEF TypeOK
      <3>4. req[q].due = req[q].drill + req[q].note
        BY <1>5, <2>1 DEF Badge, FindNextDue
      <3>5. QED
        BY <2>1, <3>2, <3>3, <3>4 DEF Badge, BadgeRequest
    <2>4. QED
      BY <1>5, <2>2, <2>3 DEF FindNextDue, Soonest
  <1>6. QED
    BY <1>3, <1>4, <1>5 DEF Counting

\* A badge with something due names the next due date, and its two flows share
\* what it counts, whatever reviews and tells come between its queries.
THEOREM BadgesAreHonest == Spec => []BadgeHonest
  <1>1. Init => BadgeInv
    BY DEF Init, BadgeInv, Badge, Idle
  <1>2. TypeOK /\ BadgeInv /\ [Next]_vars => BadgeInv'
    <2> SUFFICES ASSUME TypeOK, BadgeInv, [Next]_vars, NEW q \in Requests PROVE Badge(q)'
      BY DEF BadgeInv
    <2>1. Badge(q)
      BY DEF BadgeInv
    <2>2. CASE Counting(q)
      BY <2>1, <2>2, CountingIsHonest
    <2>3. CASE Selecting(q)
      BY <2>3, SelectingIsNoReview DEF Badge
    <2>4. CASE Grading(q)
      BY <2>4, GradingIsNoBadge DEF Badge
    <2>5. CASE req'[q] = req[q]
      <3>1. /\ told \subseteq told'
            /\ \A p \in Problems : card[p] # None => card'[p] # None
        BY NothingForgotten
      <3>2. \A scope : Counted(scope) \subseteq Counted(scope)'
        BY <3>1 DEF Counted, Drillable, Eligible
      <3>3. req[q].op = "badge" =>
              Seen(Counted(req[q].scope)) \subseteq (Seen(Counted(req[q].scope)))'
        <4> SUFFICES ASSUME req[q].op = "badge", NEW p \in Seen(Counted(req[q].scope))
                     PROVE  p \in (Seen(Counted(req[q].scope)))'
          OBVIOUS
        <4>1. p \in Problems /\ card[p] # None /\ p \in Counted(req[q].scope)
          BY DEF Seen, Counted, Drillable, Eligible
        <4>2. QED
          BY <2>5, <3>1, <3>2, <4>1 DEF Seen
      <3>4. QED
        BY <2>1, <2>5, <3>3 DEF Badge
    <2>6. ASSUME Reviewing(q), NEW b \in Bands, req'[q] = [req[q] EXCEPT !.seen = @ \cup {b}]
          PROVE  Badge(q)'
      <3>1. req[q] \in ReviewRequest
        BY <2>6, Shapes DEF Reviewing
      <3>2. req'[q].op # "badge"
        BY <2>6, <3>1 DEF ReviewRequest
      <3>3. QED
        BY <3>2 DEF Badge
    <2>7. QED
      BY <2>2, <2>3, <2>4, <2>5, <2>6, StepOf
  <1>3. BadgeInv => BadgeHonest
    BY DEF BadgeInv, Badge, BadgeHonest, Badged
  <1>4. QED
    BY <1>1, <1>2, <1>3, TypeCorrect, PTL DEF Spec

-----------------------------------------------------------------------------
(* Due cards first. *)

\* The reviews of a problem that took their time before the learner asked have
\* all been written.
Recent(p, now) ==
    \A x \in Requests :
        (Reviewing(x) /\ req[x].problem = p /\ req[x].at \in {"card", "write"}) =>
            now <= req[x].now

\* A card that was due when the learner asked still is, or was reviewed since.
StillDue(p, now) ==
    /\ card[p] # None
    /\ overlaps[p] = 0 => card[p].due <= now \/ Recent(p, now)
NoLongerDue(p, now) ==
    /\ card[p] # None
    /\ overlaps[p] = 0 => now < card[p].due /\ Recent(p, now)

Passing(q) == \/ req[q].at \in {"unseen", "ahead"}
              \/ req[q].at = "answered" /\ req[q].source # "due"

Owes(q) ==
    req[q].op = "next" =>
        /\ req[q].now <= clock
        /\ req[q].owed \subseteq Drillable(req[q].scope)
        /\ req[q].at = "due" => \A p \in req[q].owed : StillDue(p, req[q].now)
        /\ Passing(q) => \A p \in req[q].owed : NoLongerDue(p, req[q].now)

OwesInv == \A q \in Requests : Owes(q)

\* A review that is under way was so before, or has just begun; the time it
\* takes is the clock's when it reads the bands.
LEMMA ReviewsAge ==
    ASSUME TypeOK, [Next]_vars, NEW x \in Requests, Reviewing(x)', req'[x].at \in {"card", "write"}
    PROVE  /\ Reviewing(x) /\ req'[x].problem = req[x].problem
           /\ \/ req[x].at \in {"card", "write"} /\ req'[x].now = req[x].now
              \/ req'[x].now = clock
  <1>1. CASE req'[x] = req[x]
    BY <1>1 DEF Reviewing
  <1>2. CASE Selecting(x) \/ Counting(x)
    BY <1>2, SelectingIsNoReview, CountingIsNoSelection DEF Reviewing
  <1>3. CASE Reviewing(x) /\ \E b \in Bands : req'[x] = [req[x] EXCEPT !.seen = @ \cup {b}]
    <2>1. req[x] \in ReviewRequest
      BY <1>3, Shapes DEF Reviewing
    <2>2. QED
      BY <1>3, <2>1 DEF ReviewRequest
  <1>4. CASE Grading(x)
    <2>1. ASSUME NEW op, NEW p, NEW at \in {"judge", "bands"}, NEW c, BeginReview(x, op, p, at, c)
          PROVE  FALSE
      BY <2>1 DEF BeginReview, TypeOK
    <2>2. ASSUME Reviewing(x) PROVE req[x] \in ReviewRequest
      BY <2>2, Shapes DEF Reviewing
    <2>3. CASE JudgeRationale(x)
      <3>1. req[x] \in ReviewRequest
        BY <2>2, <2>3 DEF JudgeRationale, Reviewing
      <3>2. req'[x].at = "bands"
        BY <2>3, <3>1 DEF JudgeRationale, TypeOK, ReviewRequest
      <3>3. QED
        BY <3>2
    <2>4. CASE ReadBands(x)
      BY <2>2, <2>4 DEF ReadBands, TypeOK, ReviewRequest
    <2>5. CASE ReadCard(x)
      BY <2>2, <2>5 DEF ReadCard, TypeOK, ReviewRequest
    <2>6. CASE Record(x) \/ ReviewFails(x)
      BY <2>6 DEF Record, ReviewFails, Reviewing, Idle, TypeOK
    <2>7. QED
      BY <1>4, <2>1, <2>3, <2>4, <2>5, <2>6 DEF Grading, BeginDrill, BeginCommit
  <1>5. QED
    BY <1>1, <1>2, <1>3, <1>4, StepOf

LEMMA TimePasses ==
    ASSUME TypeOK, [Next]_vars
    PROVE  clock \in Nat /\ clock' \in Nat /\ clock <= clock'
  <1>1. clock \in Nat /\ clock' \in Nat
    BY TypeKept DEF TypeOK
  <1>2. ASSUME NEW r \in Requests, Selecting(r) \/ Grading(r) \/ Counting(r) PROVE clock' = clock
    BY <1>2 DEF Selecting, AskNext, FindDue, FindUnseen, FindAhead, Grading, BeginDrill,
                BeginCommit, BeginReview, JudgeRationale, ReadBands, ReadCard, Record,
                ReviewFails, Counting, AskBadge, CountDue, FindNextDue
  <1>3. ASSUME ~Tick PROVE clock' = clock
    BY <1>2, <1>3 DEF Next, PutThresholds, ClearThresholds, SetOverride, WriteTell, vars
  <1>4. CASE Tick
    BY <1>1, <1>4 DEF Tick
  <1>5. QED
    BY <1>1, <1>3, <1>4

LEMMA RecentKept ==
    ASSUME TypeOK, [Next]_vars, NEW p, NEW now \in Nat, now <= clock, Recent(p, now)
    PROVE  Recent(p, now)'
  <1> SUFFICES ASSUME NEW x \in Requests, Reviewing(x)', req'[x].problem = p,
                      req'[x].at \in {"card", "write"}
               PROVE  now <= req'[x].now
    BY DEF Recent
  <1>1. /\ Reviewing(x) /\ req[x].problem = p
        /\ \/ req[x].at \in {"card", "write"} /\ req'[x].now = req[x].now
           \/ req'[x].now = clock
    BY ReviewsAge
  <1>2. QED
    BY <1>1 DEF Recent

\* What overlapped stays so.
LEMMA OverlapsGrow ==
    ASSUME TypeOK, [Next]_vars, NEW p \in Problems, overlaps'[p] = 0
    PROVE  overlaps[p] = 0
  <1>1. overlaps[p] \in Nat
    BY DEF TypeOK
  <1>2. ASSUME NEW r \in Requests, NEW o \in Problems, Joins(r, o) PROVE overlaps[p] = 0
    BY <1>1, <1>2 DEF Joins, TypeOK
  <1>3. QED
    BY <1>2, ReviewMoves DEF Proceeds, Leaves

\* A card whose reviews never overlapped changes when a review of it is written,
\* and then no other of that problem is under way.
LEMMA CardsChange ==
    ASSUME TypeOK, Apart, [Next]_vars, NEW p \in Problems, card'[p] # card[p], overlaps[p] = 0
    PROVE  \E x \in Requests :
              /\ Reviewing(x) /\ req[x].problem = p /\ req[x].at = "write"
              /\ req[x].now < card'[p].due
              /\ \A y \in Requests : ~(Reviewing(y)' /\ req'[y].problem = p)
  <1>1. PICK x \in Requests : Record(x)
    <2>1. ASSUME NEW r \in Requests, Grading(r), ~Record(r) PROVE card' = card
      BY <2>1 DEF Grading, BeginDrill, BeginCommit, BeginReview, JudgeRationale,
                  ReadBands, ReadCard, ReviewFails
    <2>2. ASSUME NEW r \in Requests, Selecting(r) \/ Counting(r) PROVE card' = card
      BY <2>2 DEF Selecting, AskNext, FindDue, FindUnseen, FindAhead,
                  Counting, AskBadge, CountDue, FindNextDue
    <2>3. QED
      BY <2>1, <2>2 DEF Next, PutThresholds, ClearThresholds, SetOverride, WriteTell, Tick, vars
  <1>2. req[x] \in ReviewRequest /\ Reviewing(x)
    BY <1>1, Shapes DEF Record, Reviewing
  <1> DEFINE c == NextCard(req[x].read, req[x].now, req[x].rating)
  <1>3. /\ card' = [card EXCEPT ![req[x].problem] = c]
        /\ req' = [req EXCEPT ![x] = Idle] /\ req[x].at = "write"
    BY <1>1 DEF Record, Upsert
  <1>4. c.due = req[x].now + req[x].rating
    BY DEF NextCard, Card, Interval
  <1>5. req[x].now \in Nat /\ req[x].rating \in Nat /\ req[x].rating > 0
    BY <1>2 DEF ReviewRequest, Again, Easy
  <1> HIDE DEF c
  <1>6. req[x].problem = p /\ card'[p] = c
    BY <1>3 DEF TypeOK
  <1>7. ASSUME NEW y \in Requests, Reviewing(y)', req'[y].problem = p PROVE FALSE
    <2>1. y # x
      BY <1>3, <1>7 DEF Reviewing, Idle, TypeOK
    <2>2. req'[y] = req[y]
      BY <1>3, <2>1 DEF TypeOK
    <2>3. QED
      BY <1>2, <1>6, <1>7, <2>1, <2>2 DEF Apart, UnderReview, Reviewing
  <1>8. QED
    BY <1>2, <1>3, <1>4, <1>5, <1>6, <1>7

\* What is owed stays owed, or was reviewed at a later time.
LEMMA OwedKept ==
    ASSUME TypeOK, Apart, [Next]_vars, NEW p \in Problems, NEW now \in Nat, now <= clock
    PROVE  /\ StillDue(p, now) => StillDue(p, now)'
           /\ NoLongerDue(p, now) => NoLongerDue(p, now)'
  <1>1. card[p] # None => card'[p] # None
    BY NothingForgotten
  <1>2. Recent(p, now) => Recent(p, now)'
    BY RecentKept
  <1>3. CASE card'[p] = card[p]
    BY <1>1, <1>2, <1>3, OverlapsGrow DEF StillDue, NoLongerDue
  <1>4. CASE card'[p] # card[p] /\ overlaps'[p] = 0
    <2> overlaps[p] = 0
      BY <1>4, OverlapsGrow
    <2>1. PICK x \in Requests :
              /\ Reviewing(x) /\ req[x].problem = p /\ req[x].at = "write"
              /\ req[x].now < card'[p].due
              /\ \A y \in Requests : ~(Reviewing(y)' /\ req'[y].problem = p)
      BY <1>4, CardsChange
    <2>2. Recent(p, now)'
      BY <2>1 DEF Recent
    <2>3. ASSUME NoLongerDue(p, now) PROVE now < card'[p].due
      <3>1. now <= req[x].now
        BY <2>1, <2>3 DEF NoLongerDue, Recent
      <3>2. req[x].now \in Nat
        BY <2>1, Shapes DEF Reviewing, ReviewRequest
      <3>3. card[p] # None => card'[p] \in Cards
        BY <1>1, TypeKept DEF TypeOK
      <3>4. card'[p].due \in Nat
        BY <2>3, <3>3 DEF NoLongerDue, Cards
      <3>5. QED
        BY <2>1, <3>1, <3>2, <3>4
    <2>4. QED
      BY <1>1, <2>2, <2>3 DEF StillDue, NoLongerDue
  <1>5. CASE overlaps'[p] # 0
    BY <1>1, <1>5 DEF StillDue, NoLongerDue
  <1>6. QED
    BY <1>3, <1>4, <1>5

\* The selection passes over what it owes only once that is no longer due.
OwedSame(q) == /\ req'[q].now = req[q].now
               /\ req'[q].owed = req[q].owed
               /\ req'[q].scope = req[q].scope

LEMMA SelectingOwes ==
    ASSUME TypeOK, NEW q \in Requests, Owes(q), Selecting(q)
    PROVE  Owes(q)'
  <1>1. UNCHANGED <<told, card, clock, overlaps>>
    BY DEF Selecting, AskNext, FindDue, FindUnseen, FindAhead
  <1>2. \A scope : Drillable(scope)' = Drillable(scope)
    BY <1>1 DEF Drillable, Eligible
  <1>3. ASSUME NEW p, NEW now, Recent(p, now) PROVE Recent(p, now)'
    <2> SUFFICES ASSUME NEW x \in Requests, Reviewing(x)'
                 PROVE  req'[x] = req[x]
      BY <1>3 DEF Recent, Reviewing
    <2>1. x # q
      BY SelectingIsNoReview DEF Reviewing
    <2>2. QED
      BY <2>1, SlotsAreSeparate
  <1>4. \A p, now : /\ StillDue(p, now) => StillDue(p, now)'
                   /\ NoLongerDue(p, now) => NoLongerDue(p, now)'
    BY <1>1, <1>3 DEF StillDue, NoLongerDue
  <1>5. ASSUME NEW scope \in Scopes, AskNext(q, scope) PROVE Owes(q)'
    <2> DEFINE S == {p \in Seen(Drillable(scope)) : card[p].due <= clock}
    <2>1. req'[q] = [op |-> "next", at |-> "due", scope |-> scope, now |-> clock,
                     problem |-> None, source |-> "none",
                     offer |-> Drillable(scope), owed |-> S]
      BY <1>5 DEF AskNext, TypeOK
    <2>2. S \subseteq Drillable(scope) /\ \A p \in S : StillDue(p, clock)
      BY DEF Seen, StillDue
    <2> HIDE DEF S
    <2>3. clock <= clock
      BY DEF TypeOK
    <2>4. /\ req'[q].at = "due" /\ req'[q].now = clock /\ req'[q].owed = S
          /\ req'[q].scope = scope
      BY <2>1
    <2>5. ~Passing(q)'
      BY <2>4 DEF Passing
    <2>6. \A p \in S : StillDue(p, clock)'
      <3> SUFFICES ASSUME NEW p \in S PROVE StillDue(p, clock)'
        OBVIOUS
      <3>1. card[p] # None /\ card[p].due <= clock
        BY DEF S, Seen
      <3>2. QED
        BY <1>1, <3>1 DEF StillDue
    <2>7. QED
      BY <1>1, <1>2, <2>2, <2>3, <2>4, <2>5, <2>6 DEF Owes
  <1>6. ASSUME req[q] \in SelectRequest, OwedSame(q), req'[q].at # "due",
               Passing(q)' => \A b \in req[q].owed : NoLongerDue(b, req[q].now)
        PROVE  Owes(q)'
    <2>1. /\ req'[q].now = req[q].now /\ req'[q].owed = req[q].owed
          /\ req'[q].scope = req[q].scope /\ req[q].op = "next"
      BY <1>6 DEF SelectRequest, OwedSame
    <2>2. req[q].now <= clock /\ req[q].owed \subseteq Drillable(req[q].scope)
      BY <2>1 DEF Owes
    <2>3. PICK n \in Nat : n = req[q].now
      <3>1. req[q].now \in Nat
        BY <1>6 DEF SelectRequest
      <3>2. QED
        BY <3>1, Zenon
    <2>4. Passing(q)' => \A b \in req'[q].owed : NoLongerDue(b, n)'
      <3> SUFFICES ASSUME Passing(q)', NEW b \in req[q].owed PROVE NoLongerDue(b, n)'
        BY <2>1
      <3>1. NoLongerDue(b, n)
        BY <1>6, <2>3
      <3>2. QED
        BY <1>1, <1>3, <3>1 DEF NoLongerDue
    <2>5. n = req'[q].now
      BY <2>1, <2>3
    <2>6. Passing(q)' => (\A b \in req[q].owed : NoLongerDue(b, req[q].now))'
      BY <2>4, <2>5 DEF NoLongerDue, Recent
    <2>7. QED
      BY <1>1, <1>2, <1>6, <2>1, <2>2, <2>6 DEF Owes
  <1>7. CASE FindDue(q)
    <2> DEFINE S == DueIn(Drillable(req[q].scope), req[q].now)
    <2>1. req[q] \in SelectRequest /\ req[q].at = "due" /\ req[q].op = "next"
      BY <1>7, Shapes DEF FindDue
    <2>2. CASE S = {} /\ Goto(q, AfterNothingDue)
      <3>1. req'[q] = [req[q] EXCEPT !.at = "unseen"]
        BY <2>2 DEF Goto, AfterNothingDue, TypeOK
      <3>2. ASSUME NEW b \in req[q].owed PROVE NoLongerDue(b, req[q].now)
        <4>1. StillDue(b, req[q].now) /\ b \in Drillable(req[q].scope)
          BY <2>1, <3>2 DEF Owes
        <4>2. b \in Problems
          BY <2>1, <3>2 DEF SelectRequest
        <4>3. card[b].due \in Nat /\ req[q].now \in Nat
          BY <2>1, <4>1, <4>2 DEF StillDue, TypeOK, Cards, SelectRequest
        <4>4. ~(card[b].due <= req[q].now)
          BY <2>2, <4>1 DEF DueIn, Seen, StillDue
        <4>5. QED
          BY <4>1, <4>3, <4>4 DEF StillDue, NoLongerDue
      <3>3. OwedSame(q) /\ req'[q].at # "due"
        BY <2>1, <3>1 DEF OwedSame, SelectRequest
      <3>4. QED
        BY <1>6, <2>1, <3>2, <3>3
    <2>3. ASSUME NEW p, Serve(q, p, "due") PROVE Owes(q)'
      <3>1. req'[q] = [req[q] EXCEPT !.at = "answered", !.problem = p, !.source = "due"]
        BY <2>3 DEF Serve, TypeOK
      <3>2. ~Passing(q)' /\ OwedSame(q) /\ req'[q].at # "due"
        BY <2>1, <3>1 DEF Passing, OwedSame, SelectRequest
      <3>3. QED
        BY <1>6, <2>1, <3>2
    <2>4. QED
      BY <1>7, <2>2, <2>3 DEF FindDue
  <1>8. CASE FindUnseen(q) \/ FindAhead(q)
    <2>1. req[q] \in SelectRequest /\ req[q].at \in {"unseen", "ahead"} /\ req[q].op = "next"
      BY <1>8, Shapes DEF FindUnseen, FindAhead
    <2>2. \A b \in req[q].owed : NoLongerDue(b, req[q].now)
      BY <2>1 DEF Owes, Passing
    <2>3. ASSUME NEW p, NEW source, Serve(q, p, source) PROVE Owes(q)'
      <3>1. req'[q] = [req[q] EXCEPT !.at = "answered", !.problem = p, !.source = source]
        BY <2>3 DEF Serve, TypeOK
      <3>2. OwedSame(q) /\ req'[q].at # "due"
        BY <2>1, <3>1 DEF OwedSame, SelectRequest
      <3>3. QED
        BY <1>6, <2>1, <2>2, <3>2
    <2>4. ASSUME Goto(q, "ahead") PROVE Owes(q)'
      <3>1. req'[q] = [req[q] EXCEPT !.at = "ahead"]
        BY <2>4 DEF Goto, TypeOK
      <3>2. OwedSame(q) /\ req'[q].at # "due"
        BY <2>1, <3>1 DEF OwedSame, SelectRequest
      <3>3. QED
        BY <1>6, <2>1, <2>2, <3>2
    <2>5. QED
      BY <1>8, <2>3, <2>4 DEF FindUnseen, FindAhead
  <1>9. QED
    BY <1>5, <1>7, <1>8 DEF Selecting

\* A card that was due when the learner asked is passed over only for another
\* due card or because it was reviewed meanwhile, unless two reviews of its own
\* overlapped; those of other problems interleave freely.
THEOREM DueCardsComeFirst == Spec => []DueFirst
  <1>1. Init => OwesInv
    BY DEF Init, OwesInv, Owes, Idle
  <1>2. TypeOK /\ Apart /\ OwesInv /\ [Next]_vars => OwesInv'
    <2> SUFFICES ASSUME TypeOK, Apart, OwesInv, [Next]_vars, NEW q \in Requests
                 PROVE  Owes(q)'
      BY DEF OwesInv
    <2>1. Owes(q)
      BY DEF OwesInv
    <2>2. CASE Selecting(q)
      BY <2>1, <2>2, SelectingOwes
    <2>3. CASE Grading(q) \/ Counting(q)
      BY <2>3, GradingIsNoSelection, CountingIsNoSelection DEF Owes
    <2>4. CASE req'[q] = req[q]
      <3> SUFFICES ASSUME req[q].op = "next" PROVE Owes(q)'
        BY <2>4 DEF Owes
      <3>1. req[q] \in SelectRequest
        BY Shapes
      <3>2. PICK n \in Nat : n = req[q].now /\ n = req'[q].now
        BY <2>4, <3>1 DEF SelectRequest
      <3>3. n <= clock
        BY <2>1, <3>2 DEF Owes
      <3>4. clock \in Nat /\ clock' \in Nat /\ clock <= clock'
        BY TimePasses
      <3>5. req[q].owed \subseteq Problems
        BY <3>1 DEF SelectRequest
      <3>6. \A p \in req[q].owed : /\ StillDue(p, n) => StillDue(p, n)'
                                   /\ NoLongerDue(p, n) => NoLongerDue(p, n)'
        BY <3>3, <3>5, OwedKept
      <3>7. req[q].owed \subseteq Drillable(req[q].scope)'
        <4>1. told \subseteq told'
          BY NothingForgotten
        <4>2. \A scope : Drillable(scope) \subseteq Drillable(scope)'
          BY <4>1 DEF Drillable, Eligible
        <4>3. QED
          BY <2>1, <2>4, <4>2 DEF Owes
      <3>8. req'[q].at = "due" => (\A p \in req[q].owed : StillDue(p, req[q].now))'
        <4>1. req'[q].at = "due" => \A p \in req[q].owed : StillDue(p, n)
          BY <2>1, <2>4, <3>2 DEF Owes
        <4>2. req'[q].at = "due" => \A p \in req'[q].owed : StillDue(p, n)'
          BY <2>4, <3>6, <4>1
        <4>3. QED
          BY <3>2, <4>2 DEF StillDue, Recent
      <3>9. Passing(q)' => (\A p \in req[q].owed : NoLongerDue(p, req[q].now))'
        <4>1. Passing(q)' => \A p \in req[q].owed : NoLongerDue(p, n)
          BY <2>1, <2>4, <3>2 DEF Owes, Passing
        <4>2. Passing(q)' => \A p \in req'[q].owed : NoLongerDue(p, n)'
          BY <2>4, <3>6, <4>1
        <4>3. QED
          BY <3>2, <4>2 DEF NoLongerDue, Recent
      <3>10. req'[q].now <= clock'
        BY <3>2, <3>3, <3>4
      <3>11. (req[q].owed \subseteq Drillable(req[q].scope))'
        BY <2>4, <3>7
      <3>12. QED
        BY <3>8, <3>9, <3>10, <3>11 DEF Owes
    <2>5. ASSUME Reviewing(q), NEW b \in Bands, req'[q] = [req[q] EXCEPT !.seen = @ \cup {b}]
          PROVE  Owes(q)'
      <3>1. req[q] \in ReviewRequest
        BY <2>5, Shapes DEF Reviewing
      <3>2. req'[q].op # "next"
        BY <2>5, <3>1 DEF ReviewRequest
      <3>3. QED
        BY <3>2 DEF Owes
    <2>6. QED
      BY <2>2, <2>3, <2>4, <2>5, StepOf
  <1>3. TypeOK /\ OwesInv => DueFirst
    <2> SUFFICES ASSUME TypeOK, OwesInv, NEW r \in Requests, Chosen(r),
                        req[r].source # "due", NEW p \in req[r].owed,
                        overlaps[p] = 0
                 PROVE  card[p].due > req[r].now
      BY DEF DueFirst
    <2>1. req[r] \in SelectRequest
      BY Shapes DEF Chosen
    <2>2. NoLongerDue(p, req[r].now)
      BY DEF OwesInv, Owes, Passing, Chosen
    <2>3. p \in Problems /\ req[r].now \in Nat
      BY <2>1 DEF SelectRequest
    <2>4. card[p].due \in Nat
      BY <2>2, <2>3 DEF NoLongerDue, TypeOK, Cards
    <2>5. QED
      BY <2>2, <2>3, <2>4 DEF NoLongerDue
  <1>4. QED
    BY <1>1, <1>2, <1>3, TypeCorrect, ReviewsApart, PTL DEF Spec

=============================================================================
