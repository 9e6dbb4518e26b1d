-------------------------------- MODULE Bank --------------------------------
(***************************************************************************)
(* The tables decks, problems, tells and problem_patterns with everything   *)
(* that writes them: the deck routes, the worker that resolves a problem's  *)
(* source, the script that drafts tells, and the seed, which brings the     *)
(* curated bank to a release of the fixtures in one transaction.            *)
(*                                                                          *)
(* Releases may be seeded in any order and any number of times, as deploys  *)
(* and rollbacks do, while requests are in flight.  Two seeds do not        *)
(* interleave: the first statement of each locks the rows of the decks      *)
(* that every release has.  Titles, descriptions and difficulties are left  *)
(* out: no statement decides by them.                                       *)
(***************************************************************************)
EXTENDS Naturals, FiniteSets

CONSTANTS
    Users,
    DeckNames,      \* names a learner may give a deck
    DeckSlugs,
    DeckSlugOf,     \* slugify of a deck's name
    Inputs,         \* links, slugs and texts a learner may add
    SourceOf,       \* what an input is taken for: "link", "slug" or "text"
    Slugs,
    SlugOf,         \* the slug an input normalises to
    About,          \* the problem an input is about, in whatever form
    Texts,          \* statements
    TextOf,         \* what an input says (text) or what its page may yield (link)
    Fetchable,      \* links the worker agrees to fetch
    Patterns,
    Releases,       \* versions of the fixtures and the taxonomy
    DecksOf,        \* slugs of SYSTEM_DECKS in a release
    FixturesOf,     \* slugs of PROBLEM_FIXTURES in a release
    PatternOf,      \* the canonical pattern of a fixture in a release
    AlsoAccepted,   \* its alternatives
    HomeOf,         \* the slug of the deck of a pattern's category
    StatementOf,    \* the statement of a fixture
    Requests,       \* requests, each sent at most once
    Mixes,          \* kinds of work done side by side in one behaviour
    FirstDecks,     \* personal decks there are before the first seed
    MaxRows,        \* bound on the rows of problems ever inserted
    None

Ids == 1 .. MaxRows
Sources == {"curated", "link", "slug", "text"}

\* owner None: a system deck.  A deck is named by its owner and slug, which
\* decks_system_slug_idx and decks_owner_slug_idx keep unique.
Deck == [owner : Users \cup {None}, slug : DeckSlugs]

\* copy > 1 is the suffix of a slug that was taken: two-sum-2.
Slug == [base : Slugs, copy : Nat]

\* ref is the input a personal problem was added with (source_ref, source_url).
ProblemRow == [deck : Deck, slug : Slug, source : Sources, ref : Inputs \cup {None},
               statement : Texts \cup {None}, pattern : Patterns \cup {None}]

ASSUME NoneIsNobody ==
    None \notin Users \cup Inputs \cup Texts \cup Patterns \cup Releases \cup ProblemRow \cup Ids
                  \cup {"seed", "gemini"}
ASSUME InputsAreRead ==
    /\ DeckSlugOf \in [DeckNames -> DeckSlugs]
    /\ SourceOf \in [Inputs -> {"link", "slug", "text"}]
    /\ SlugOf \in [Inputs -> Slugs]
    /\ TextOf \in [Inputs -> Texts]
    /\ Fetchable \subseteq Inputs
ASSUME ReleasesAreRead ==
    /\ DecksOf \in [Releases -> SUBSET DeckSlugs]
    /\ FixturesOf \in [Releases -> SUBSET Slugs]
    /\ \A R \in Releases : IsFiniteSet(FixturesOf[R])
    /\ PatternOf \in [Releases -> [Slugs -> Patterns]]
    /\ AlsoAccepted \in [Releases -> [Slugs -> SUBSET Patterns]]
    /\ HomeOf \in [Releases -> [Patterns -> DeckSlugs]]
    /\ StatementOf \in [Releases -> [Slugs -> Texts]]
\* The deck whose row two seeds lock in turn.
ASSUME ReleasesShareADeck == \E s \in DeckSlugs : \A R \in Releases : s \in DecksOf[R]
\* Every pattern of a fixture has a category that has a deck: decks.ts throws
\* otherwise, and fixtures.test.ts checks it.
ASSUME FixturesHaveDecks ==
    \A R \in Releases : \A s \in FixturesOf[R] : HomeOf[R][PatternOf[R][s]] \in DecksOf[R]
ASSUME RowsBound == MaxRows \in Nat
ASSUME FirstDecksArePersonal == FirstDecks \subseteq [owner : Users, slug : DeckSlugs]
ASSUME MixesOfKinds == Mixes \subseteq SUBSET {"add", "create", "again", "open", "tells"}

VARIABLES
    decks,      \* the rows of decks
    problem,    \* problems: None or the row with each id
    serial,     \* the last id given
    tell,       \* tells.source of each problem, None without a tell
    accepts,    \* problem_patterns of each problem
    req,        \* the request in each slot, with the evaluation it queued
    pending,    \* what the tell script has still to do
    seeded,     \* history: the release seeded last
    kinds       \* the mix of this behaviour

table == <<decks, problem, serial, tell, accepts>>
vars == <<table, req, pending, seeded, kinds>>

Stage == {"idle", "refused", "failed",
          "find", "slugs", "insert", "record",     \* adding a problem
          "create", "created",           \* creating a deck
          "rows", "shown",                         \* opening a deck
          "queued", "store", "done"}               \* resolving the source

Recorded == {"queued", "store", "done"}

\* row is the problem a request works on, needs its withSourceResolution, text
\* what the source yielded.  known is history: the row that carried the slug
\* of the input in the deck when the request arrived.
Request == [at : Stage, user : Users \cup {None}, deck : Deck \cup {None},
            input : Inputs \cup {None}, slug : Slug \cup {None}, row : Ids \cup {None},
            needs : BOOLEAN, text : Texts \cup {None}, rows : SUBSET Ids,
            known : Ids \cup {None}]

TypeOK ==
    /\ decks \subseteq Deck
    /\ problem \in [Ids -> ProblemRow \cup {None}]
    /\ serial \in 0 .. MaxRows
    /\ tell \in [Ids -> {None, "seed", "gemini"}]
    /\ accepts \in [Ids -> SUBSET Patterns]
    /\ req \in [Requests -> Request]
    /\ pending \subseteq Ids
    /\ seeded \in Releases \cup {None}
    /\ kinds \in Mixes

NoRequest == [at |-> "idle", user |-> None, deck |-> None, input |-> None, slug |-> None,
              row |-> None, needs |-> FALSE, text |-> None, rows |-> {}, known |-> None]

Init ==
    /\ decks = FirstDecks
    /\ problem = [i \in Ids |-> None]
    /\ serial = 0
    /\ tell = [i \in Ids |-> None]
    /\ accepts = [i \in Ids |-> {}]
    /\ req = [r \in Requests |-> NoRequest]
    /\ pending = {}
    /\ seeded = None
    /\ kinds \in Mixes

-----------------------------------------------------------------------------
(* What the routes look up. *)

Rows == {i \in Ids : problem[i] # None}

RowsIn(d) == {i \in Rows : problem[i].deck = d}

VisibleToUser(d, u) == d.owner \in {None, u}

\* The partial index problems_deck_slug_idx: no second row of a slug in a deck.
Carries(i, d, slug) == problem[i] # None /\ problem[i].deck = d /\ problem[i].slug = slug
Taken(d, slug) == \E i \in Ids : Carries(i, d, slug)

\* Mutant: the raw input is stored as the statement.
IdentityRaw(x) ==
    [source |-> SourceOf[x],
     slug |-> [base |-> SlugOf[x], copy |-> 1],
     statement |-> IF SourceOf[x] = "text" THEN x ELSE None]

\* Free text is the statement; a link or a slug has nothing to say yet.
Identity(x) ==
    [source |-> SourceOf[x],
     slug |-> [base |-> SlugOf[x], copy |-> 1],
     statement |-> IF SourceOf[x] = "text" THEN TextOf[x] ELSE None]

NeedsSourceResolution(row) == row.source \in {"link", "slug"} /\ row.statement = None

RowOf(d, slug) ==
    IF Taken(d, slug) THEN CHOOSE i \in Ids : Carries(i, d, slug) ELSE None

\* Mutant: the lookup also compares the kind of input.
ExistingOfSource(d, x) ==
    {i \in Ids : Carries(i, d, Identity(x).slug) /\ problem[i].source = SourceOf[x]}

\* The existing problem an add is another attempt at.
Existing(d, x) == {i \in Ids : Carries(i, d, Identity(x).slug)}

\* The desired slug, or the first suffix that is free.
IsFirstFree(d, desired, k) ==
    /\ ~Taken(d, [desired EXCEPT !.copy = k])
    /\ \A j \in 1 .. (k - 1) : Taken(d, [desired EXCEPT !.copy = j])

UniqueSlugInDeck(d, desired) ==
    {[desired EXCEPT !.copy = k] : k \in {k \in 1 .. MaxRows + 1 : IsFirstFree(d, desired, k)}}

-----------------------------------------------------------------------------
(* Requests. *)

\* A handler starts with the read that may refuse it (404, 403, 409).
Begin(r, kind, ok, request) ==
    /\ req[r].at = "idle" /\ kind \in kinds
    /\ req' = [req EXCEPT ![r] = IF ok THEN request ELSE [NoRequest EXCEPT !.at = "refused"]]
    /\ UNCHANGED <<table, pending, seeded, kinds>>

Finish(r, how) == req' = [req EXCEPT ![r].at = how]

\* POST /decks/:deckId/problems, the deck loaded: not found, read-only, or mine.
MayAdd(d, u) == d \in decks /\ VisibleToUser(d, u) /\ d.owner # None

AskAdd(r, u, d, x) ==
    Begin(r, "add", MayAdd(d, u),
          [NoRequest EXCEPT !.at = "find", !.user = u, !.deck = d, !.input = x,
                            !.known = RowOf(d, Identity(x).slug)])

\* Re-adding the same problem is a repeat encounter.
FindExisting(r) ==
    /\ req[r].at = "find"
    /\ \/ \E i \in Existing(req[r].deck, req[r].input) :
             req' = [req EXCEPT ![r].at = "record", ![r].row = i,
                                ![r].needs = NeedsSourceResolution(problem[i])]
       \/ /\ Existing(req[r].deck, req[r].input) = {}
          /\ Finish(r, "slugs")
    /\ UNCHANGED <<table, pending, seeded, kinds>>

ChooseSlug(r) ==
    /\ req[r].at = "slugs"
    /\ \E slug \in UniqueSlugInDeck(req[r].deck, Identity(req[r].input).slug) :
          req' = [req EXCEPT ![r].at = "insert", ![r].slug = slug]
    /\ UNCHANGED <<table, pending, seeded, kinds>>

\* The insert, which the index refuses when the slug was taken meanwhile.
InsertProblem(r) ==
    /\ req[r].at = "insert"
    /\ LET id == Identity(req[r].input)
           row == [deck |-> req[r].deck, slug |-> req[r].slug, source |-> id.source,
                   ref |-> req[r].input, statement |-> id.statement, pattern |-> None]
       IN  IF Taken(req[r].deck, req[r].slug)
           THEN Finish(r, "failed") /\ UNCHANGED <<problem, serial>>
           ELSE /\ serial < MaxRows
                /\ serial' = serial + 1
                /\ problem' = [problem EXCEPT ![serial + 1] = row]
                /\ req' = [req EXCEPT ![r].at = "record", ![r].row = serial + 1,
                                      ![r].needs = NeedsSourceResolution(row)]
    /\ UNCHANGED <<decks, tell, accepts, pending, seeded, kinds>>

\* POST /problems/:problemId/submissions, the problem read with its deck.
MayAttempt(i, u) == problem[i] # None /\ VisibleToUser(problem[i].deck, u)

AskAgain(r, u, i) ==
    Begin(r, "again", MayAttempt(i, u),
          [NoRequest EXCEPT !.at = "record", !.user = u, !.row = i,
                            !.needs = NeedsSourceResolution(problem[i])])

\* createSubmission: the attempt refers to the problem, and its evaluation has
\* a resolve stage if it needs one and could be enqueued.
Record(r) ==
    /\ req[r].at = "record"
    /\ \/ problem[req[r].row] # None /\ Finish(r, "done")
       \/ problem[req[r].row] # None /\ req[r].needs /\ Finish(r, "queued")
       \/ problem[req[r].row] = None /\ Finish(r, "failed")
    /\ UNCHANGED <<table, pending, seeded, kinds>>

\* POST /decks: the lookup by owner and slug.
AskCreate(r, u, n) ==
    LET d == [owner |-> u, slug |-> DeckSlugOf[n]]
    IN  Begin(r, "create", d \notin decks,
              [NoRequest EXCEPT !.at = "create", !.user = u, !.deck = d])

\* decks_owner_slug_idx: the insert of a deck there is fails.
DeckIsNew(d) == d \notin decks

InsertDeck(r) ==
    /\ req[r].at = "create"
    /\ \/ DeckIsNew(req[r].deck) /\ decks' = decks \cup {req[r].deck} /\ Finish(r, "created")
       \/ ~DeckIsNew(req[r].deck) /\ Finish(r, "failed") /\ UNCHANGED decks
    /\ UNCHANGED <<problem, serial, tell, accepts, pending, seeded, kinds>>

\* GET /decks/:deckId: the deck, then the problems in it.
AskOpen(r, u, d) ==
    Begin(r, "open", d \in decks /\ VisibleToUser(d, u),
          [NoRequest EXCEPT !.at = "rows", !.user = u, !.deck = d])

ShowRows(r) ==
    /\ req[r].at = "rows"
    /\ req' = [req EXCEPT ![r].at = "shown", ![r].rows = RowsIn(req[r].deck)]
    /\ UNCHANGED <<table, pending, seeded, kinds>>

\* A rejected statement, or the death of the process: no step is undone.
Fail(r) ==
    /\ req[r].at \in {"find", "slugs", "insert", "record", "create", "rows"}
    /\ Finish(r, "failed")
    /\ UNCHANGED <<table, pending, seeded, kinds>>

-----------------------------------------------------------------------------
(* The resolve stage of an attempt, and the script that drafts tells. *)

\* The fetch of a link may time out or find an error, and a page may carry no
\* description.
ResolveFromLink(row) == IF row.ref \in Fetchable THEN {None, TextOf[row.ref]} ELSE {None}

\* Mutant: any problem of that slug will do.
TrustedAnySource(i, j) == j # i /\ problem[j] # None /\ problem[j].slug = problem[i].slug

\* A row a slug may take its text from: another one of that slug, curated.
Trusted(i, j) == /\ j # i
                 /\ problem[j] # None
                 /\ problem[j].slug = problem[i].slug
                 /\ problem[j].source = "curated"

ResolveFromSlug(i) ==
    LET curated == {j \in Ids : Trusted(i, j)}
    IN  IF curated = {} THEN {None} ELSE {problem[j].statement : j \in curated}

\* The source of a row and its slug never change, so the two reads of the
\* stage are one step.
Resolve(r) ==
    /\ req[r].at = "queued"
    /\ LET i == req[r].row
       IN  IF problem[i] = None
           THEN Finish(r, "done")
           ELSE \E t \in IF problem[i].source = "link"
                         THEN ResolveFromLink(problem[i]) ELSE ResolveFromSlug(i) :
                  req' = [req EXCEPT ![r].at = "store", ![r].text = t]
    /\ UNCHANGED <<table, pending, seeded, kinds>>

\* What was found is written over what is there, and nothing if nothing was.
StoreSource(r) ==
    /\ req[r].at = "store"
    /\ problem' = [i \in Ids |->
          IF i = req[r].row /\ problem[i] # None /\ req[r].text # None
          THEN [problem[i] EXCEPT !.statement = req[r].text] ELSE problem[i]]
    /\ Finish(r, "done")
    /\ UNCHANGED <<decks, serial, tell, accepts, pending, seeded, kinds>>

\* A failure between the two: the job is retried.
RetryResolve(r) ==
    /\ req[r].at = "store"
    /\ req' = [req EXCEPT ![r].at = "queued", ![r].text = None]
    /\ UNCHANGED <<table, pending, seeded, kinds>>

\* Curated problems with a pattern, something to read, and no tell.
LacksTell(i) == /\ problem[i] # None
                /\ problem[i].pattern # None
                /\ tell[i] = None
                /\ problem[i].source = "curated"
                /\ problem[i].statement # None

\* The script reads them once, up to its limit, and then asks the model for each.
StartTells ==
    /\ "tells" \in kinds /\ pending = {}
    /\ \E some \in SUBSET {i \in Ids : LacksTell(i)} : some # {} /\ pending' = some
    /\ UNCHANGED <<table, req, seeded, kinds>>

\* onConflictDoNothing: a tell that appeared meanwhile stays.
Drafted(i) == IF tell[i] = None THEN "gemini" ELSE tell[i]

WriteTell(i) ==
    /\ i \in pending
    /\ pending' = pending \ {i}
    /\ \/ problem[i] # None /\ tell' = [tell EXCEPT ![i] = Drafted(i)]
       \/ UNCHANGED tell                  \* no answer, a dry run, a failed insert
    /\ UNCHANGED <<decks, problem, serial, accepts, req, seeded, kinds>>

-----------------------------------------------------------------------------
(* The seed: a sequence of upserts over the whole bank, one transaction. *)

SystemDeck(s) == [owner |-> None, slug |-> s]
SystemDecks(R) == {SystemDeck(s) : s \in DecksOf[R]}

\* systemDeckSlugForPattern of a fixture's pattern.
TargetDeck(R, s) == SystemDeck(HomeOf[R][PatternOf[R][s]])

Fixture(R, s) ==
    [deck |-> TargetDeck(R, s), slug |-> [base |-> s, copy |-> 1], source |-> "curated",
     ref |-> None, statement |-> StatementOf[R][s], pattern |-> PatternOf[R][s]]

\* The primary pattern and every alternative.
Accepted(R, s) == {PatternOf[R][s]} \cup AlsoAccepted[R][s]

\* Does a row carry the slug of a fixture, and is it where the upsert finds it?
IsFixture(R, row) == row # None /\ row.slug.copy = 1 /\ row.slug.base \in FixturesOf[R]
InRelease(R, row) == IsFixture(R, row) /\ row.deck = TargetDeck(R, row.slug.base)

\* Mutants: nothing is moved; rows of any source are.
RelocatedNever(R, row) == row
RelocatedAnySource(R, row) ==
    IF IsFixture(R, row) THEN [row EXCEPT !.deck = TargetDeck(R, row.slug.base)] ELSE row

\* Curated rows of a fixture that sit in another deck are moved first.
Relocated(R, row) ==
    IF IsFixture(R, row) /\ row.source = "curated"
    THEN [row EXCEPT !.deck = TargetDeck(R, row.slug.base)] ELSE row

\* What the upsert sets of a row there is: the source stays as it was.
Refreshed(R, row) ==
    IF InRelease(R, row)
    THEN [row EXCEPT !.statement = StatementOf[R][row.slug.base],
                     !.pattern = PatternOf[R][row.slug.base]]
    ELSE row

\* Fixtures the upsert inserts, and the ids they are given.
Found(R, s) == \E i \in Ids : LET row == Relocated(R, problem[i])
                              IN  InRelease(R, row) /\ row.slug.base = s
Missing(R) == {s \in FixturesOf[R] : ~Found(R, s)}
Numberings(new) == {at \in [new -> (serial + 1) .. (serial + Cardinality(new))] :
                       \A s, t \in new : at[s] = at[t] => s = t}

Upserted(R, at) ==
    [i \in Ids |-> IF \E s \in DOMAIN at : at[s] = i
                   THEN Fixture(R, CHOOSE s \in DOMAIN at : at[s] = i)
                   ELSE Refreshed(R, Relocated(R, problem[i]))]

\* problems_deck_slug_idx refuses a relocation onto a slug that is taken.
Clashes(rows) ==
    \E i, j \in Ids : /\ i # j /\ rows[i] # None /\ rows[j] # None
                      /\ rows[i].deck = rows[j].deck /\ rows[i].slug = rows[j].slug

TellAfter(R, row, i) == IF InRelease(R, row) THEN "seed" ELSE tell[i]

\* Mutant: not cleared first.
AcceptsKept(R, row, i) ==
    IF InRelease(R, row) THEN accepts[i] \cup Accepted(R, row.slug.base) ELSE accepts[i]

\* Cleared first, so that an alternative a fixture dropped is dropped.
AcceptsAfter(R, row, i) ==
    IF InRelease(R, row) THEN Accepted(R, row.slug.base) ELSE accepts[i]

\* Mutants: whatever they hold; judged by where the rows were before.
RetiredAnyway(R, rows) == {d \in decks : d.owner = None /\ d.slug \notin DecksOf[R]}
RetiredBefore(R, rows) ==
    {d \in decks : /\ d.owner = None
                   /\ d.slug \notin DecksOf[R]
                   /\ \A i \in Rows : problem[i].deck # d}

\* System decks without a category, once they hold nothing.
Retired(R, rows) ==
    {d \in decks : /\ d.owner = None
                   /\ d.slug \notin DecksOf[R]
                   /\ \A i \in Ids : rows[i] # None => rows[i].deck # d}

\* ON DELETE CASCADE from decks to problems.
Cascade(rows, gone) ==
    [i \in Ids |-> IF rows[i] # None /\ rows[i].deck \in gone THEN None ELSE rows[i]]

\* The bank once rows are upserted and decks retired.
Result(R, rows, gone) ==
    [decks |-> (decks \cup SystemDecks(R)) \ gone,
     problem |-> Cascade(rows, gone),
     tell |-> [i \in Ids |-> TellAfter(R, rows[i], i)],
     accepts |-> [i \in Ids |-> AcceptsAfter(R, rows[i], i)]]

Outcomes(R) ==
    {Result(R, rows, Retired(R, rows)) :
        rows \in {all \in {Upserted(R, at) : at \in Numberings(Missing(R))} : ~Clashes(all)}}

Seed(R) ==
    LET inserted == Cardinality(Missing(R))
    IN  /\ serial + inserted <= MaxRows
        /\ serial' = serial + inserted
        /\ \E new \in Outcomes(R) : /\ decks' = new.decks
                                    /\ problem' = new.problem
                                    /\ tell' = new.tell
                                    /\ accepts' = new.accepts
        /\ seeded' = R
        /\ UNCHANGED <<req, pending, kinds>>

\* An operator adds to the bank by hand a problem that is not in it, and leaves
\* its tell to the script.
Ingest(R, s) ==
    /\ "tells" \in kinds
    /\ seeded = R
    /\ serial < MaxRows
    /\ \A i \in Rows : problem[i].source = "curated" => problem[i].slug.base # s
    /\ TargetDeck(R, s) \in decks
    /\ serial' = serial + 1
    /\ problem' = [problem EXCEPT ![serial + 1] = Fixture(R, s)]
    /\ UNCHANGED <<decks, tell, accepts, req, pending, seeded, kinds>>

-----------------------------------------------------------------------------

Ask(r) ==
    \E u \in Users :
        \/ \E d \in Deck, x \in Inputs : AskAdd(r, u, d, x)
        \/ \E i \in Ids : AskAgain(r, u, i)
        \/ \E n \in DeckNames : AskCreate(r, u, n)
        \/ \E d \in Deck : AskOpen(r, u, d)

Proceed(r) ==
    \/ FindExisting(r) \/ ChooseSlug(r) \/ InsertProblem(r) \/ Record(r)
    \/ InsertDeck(r) \/ ShowRows(r) \/ Fail(r)
    \/ Resolve(r) \/ StoreSource(r) \/ RetryResolve(r)

Curate ==
    \/ StartTells
    \/ \E i \in Ids : WriteTell(i)
    \/ \E R \in Releases : Seed(R) \/ \E s \in Slugs : Ingest(R, s)

Next == (\E r \in Requests : Ask(r) \/ Proceed(r)) \/ Curate

Spec == Init /\ [][Next]_vars

-----------------------------------------------------------------------------
(* Properties. *)

\* A fixture has one row, in whatever deck: a release that moves its pattern to
\* another category moves the row and the history on it, and copies neither.
OneRowPerFixture ==
    \A i, j \in Rows :
        (problem[i].source = "curated" /\ problem[j].source = "curated"
            /\ problem[i].slug = problem[j].slug) => i = j

\* After a seed, and whatever requests, scripts and evaluations do until the
\* next, every fixture sits in its category's deck with its statement, its
\* pattern, the patterns it accepts and no other, and its own tell.
BankMatchesRelease ==
    seeded # None =>
        /\ SystemDecks(seeded) \subseteq decks
        /\ \A s \in FixturesOf[seeded] :
              \E i \in Rows : /\ problem[i] = Fixture(seeded, s)
                             /\ accepts[i] = Accepted(seeded, s)
                             /\ tell[i] = "seed"

\* Seeding the release that is there again changes nothing, whatever happened
\* since the first time ("Idempotent", seed.ts:5).
RerunChangesNothing ==
    seeded # None =>
        Outcomes(seeded) = {[decks |-> decks, problem |-> problem, tell |-> tell, accepts |-> accepts]}

\* Problems learners added stay out of the bank: in a deck of their own, with
\* no pattern and no tell, so that the blind drill never shows one; and what
\* is in a system deck is curated.
PersonalStaysHome ==
    \A i \in Rows :
        IF problem[i].source = "curated"
        THEN problem[i].deck.owner = None
        ELSE problem[i].deck.owner # None /\ problem[i].pattern = None /\ tell[i] = None

\* A statement comes from the problem's own source: the text it was added with,
\* its page, or a curated problem of its slug; never from another learner's
\* problem of that slug.
StatementIsItsOwn ==
    \A i \in Rows :
        LET row == problem[i] IN
        /\ row.source = "text" => row.statement = TextOf[row.ref]
        /\ row.source = "link" =>
              row.statement \in {None} \cup (IF row.ref \in Fetchable THEN {TextOf[row.ref]} ELSE {})
        /\ row.source = "slug" =>
              row.statement \in {None} \cup {StatementOf[R][row.slug.base] : R \in Releases}

\* An add of a problem that was in the deck when the request arrived is another
\* attempt at that problem, whatever else runs before it is recorded.
RepeatFindsItsRow ==
    \A r \in Requests :
        (req[r].known # None /\ req[r].at \in Recorded) => req[r].row = req[r].known

\* A problem has one row in a deck, whether it was added as a link, as a slug or
\* as a text, but for the suffixed copies that adds at once may leave behind;
\* and an add ends at a row of the problem it is about, though contests share
\* the indexes of their problems (problemInput.ts:56).
OneProblemOneRow ==
    /\ \A i, j \in Rows :
          (/\ problem[i].source # "curated" /\ problem[j].source # "curated"
           /\ problem[i].deck = problem[j].deck
           /\ About[problem[i].ref] = About[problem[j].ref]
           /\ problem[i].slug.copy = 1 /\ problem[j].slug.copy = 1) => i = j
    /\ \A r \in Requests :
          (req[r].at \in Recorded /\ req[r].input # None) =>
              About[problem[req[r].row].ref] = About[req[r].input]

\* Nobody attempts, or is shown, a problem in another learner's deck.
OwnProblemsOnly ==
    \A r \in Requests :
        \A i \in req[r].rows \cup (IF req[r].at \in Recorded THEN {req[r].row} ELSE {}) :
            problem[i] # None => problem[i].deck.owner \in {None, req[r].user}

\* Of two requests for a deck of one name one is told it created it.
DeckCreatedOnce ==
    \A q, r \in Requests :
        (q # r /\ req[q].at = "created" /\ req[r].at = "created") => req[q].deck # req[r].deck

\* Nothing an attempt was recorded at is ever deleted or renamed: retiring a
\* deck, moving a row and seeding over it all keep its history.
HistoryKept ==
    [][\A r \in Requests :
          req[r].at \in Recorded =>
              /\ problem[req[r].row] # None
              /\ problem'[req[r].row] # None
              /\ problem'[req[r].row].slug = problem[req[r].row].slug]_vars

\* A curator's tell is never replaced by one the script drafted while the seed
\* ran.
CuratorsTellStands ==
    [][\A i \in Ids : tell[i] = "seed" => tell'[i] = "seed"]_vars

=============================================================================
