----------------------------- MODULE BankProofs -----------------------------
(***************************************************************************)
(* The bank for any learners, inputs, releases and requests.                *)
(*                                                                          *)
(* The predicates of the invariant take the tables as arguments, so that    *)
(* what a step does to the rows (Lasting) is stated once over the tables    *)
(* before and after it, and what the requests hold follows from that.       *)
(***************************************************************************)
EXTENDS Bank, FiniteSetTheorems, TLAPS

\* What a row may say, by where it came from.
OwnStatement(row, t) ==
    /\ row.source = "text" => t = TextOf[row.ref]
    /\ row.source = "link" =>
          t \in {None} \cup (IF row.ref \in Fetchable THEN {TextOf[row.ref]} ELSE {})
    /\ row.source = "slug" => t \in {None} \cup {StatementOf[R][row.slug.base] : R \in Releases}
    /\ row.source = "curated" => t \in {StatementOf[R][row.slug.base] : R \in Releases}

\* Curated rows are in system decks under the slug of a fixture, all others in
\* a learner's deck, without a pattern, and under the slug of what was added.
Home(row) ==
    /\ IF row.source = "curated"
       THEN row.deck.owner = None /\ row.ref = None /\ row.slug.copy = 1
       ELSE /\ row.deck.owner # None /\ row.pattern = None /\ row.ref \in Inputs
            /\ row.slug.base = SlugOf[row.ref]
    /\ OwnStatement(row, row.statement)

Homed(P) == \A i \in Ids : P[i] # None => Home(P[i])

Curated(row) == row # None /\ row.source = "curated"

OneRow(P) ==
    \A i, j \in Ids : (Curated(P[i]) /\ Curated(P[j]) /\ P[i].slug = P[j].slug) => i = j

\* Ids that were not given are used nowhere.
Unused(P, T, A, n) == \A i \in Ids : i > n => P[i] = None /\ T[i] = None /\ A[i] = {}

Untold(P, T) == \A i \in Ids : (P[i] # None /\ P[i].source # "curated") => T[i] = None

AllCurated(P, todo) == \A i \in todo : Curated(P[i])

TableOK(P, T, A, n, todo) ==
    /\ Unused(P, T, A, n)
    /\ ~Clashes(P)
    /\ Homed(P)
    /\ OneRow(P)
    /\ Untold(P, T)
    /\ AllCurated(P, todo)

\* What a row keeps for ever; a learner's row keeps its deck, too.
Kept(old, new) ==
    /\ new # None
    /\ new.slug = old.slug /\ new.source = old.source /\ new.ref = old.ref
    /\ old.source # "curated" => new.deck = old.deck

Lasting(P, Q) == \A i \in Ids : P[i] # None => Kept(P[i], Q[i])

CarriesIn(P, i, d, slug) == P[i] # None /\ P[i].deck = d /\ P[i].slug = slug

\* Learners' decks are never deleted.
DecksLast(D, E) == \A d \in D : d.owner # None => d \in E

Adding == {"find", "slugs", "insert"}
Held == {"record"} \cup Recorded

\* What a request q in flight relies on, in decks D with problems P.
Relies(q, P, D) ==
    /\ q.at \in Adding => /\ q.user \in Users /\ q.deck \in Deck /\ q.input \in Inputs
                          /\ q.deck.owner = q.user
    /\ q.at = "insert" => q.slug \in Slug /\ q.slug.base = SlugOf[q.input]
    /\ q.at \in Held => /\ q.row \in Ids /\ P[q.row] # None
                        /\ P[q.row].deck.owner \in {None, q.user}
    /\ (q.at \in {"queued", "store"} \/ (q.at = "record" /\ q.needs)) =>
          P[q.row].source \in {"link", "slug"}
    /\ q.at = "store" => OwnStatement(P[q.row], q.text)
    /\ q.at = "create" => q.deck \in Deck /\ q.deck.owner \in Users
    /\ q.at = "created" => q.deck \in D /\ q.deck.owner # None
    /\ q.at = "rows" => q.deck \in Deck /\ q.deck.owner \in {None, q.user}
    /\ \A i \in q.rows : P[i] # None /\ P[i].deck.owner \in {None, q.user}

\* The row that was there when the request arrived is the one it ends at.
Remembers(q, P) ==
    q.known # None =>
        /\ q.at = "find" => CarriesIn(P, q.known, q.deck, Identity(q.input).slug)
        /\ q.at \notin {"slugs", "insert"}
        /\ q.at \in Held => q.row = q.known

Fine(q, P, D) == Relies(q, P, D) /\ Remembers(q, P)

AllFine == \A r \in Requests : Fine(req[r], problem, decks)

TablesOK == TableOK(problem, tell, accepts, serial, pending)

Inv == TypeOK /\ TablesOK /\ AllFine

-----------------------------------------------------------------------------
(* Values. *)

\* The identity of an input: its slug is the unsuffixed one.
LEMMA IdentityType ==
    ASSUME NEW x \in Inputs
    PROVE  /\ Identity(x).slug \in Slug /\ Identity(x).slug.copy = 1
           /\ Identity(x).slug.base = SlugOf[x]
           /\ Identity(x).source \in {"link", "slug", "text"}
           /\ Identity(x).statement \in Texts \cup {None}
           /\ Identity(x).source = "text" => Identity(x).statement = TextOf[x]
           /\ Identity(x).source # "text" => Identity(x).statement = None
  BY InputsAreRead DEF Identity, Slug

\* The home of a fixture is a system deck of its release.
LEMMA TargetType ==
    ASSUME NEW R \in Releases, NEW s \in FixturesOf[R]
    PROVE  TargetDeck(R, s) \in Deck /\ TargetDeck(R, s).owner = None
           /\ TargetDeck(R, s) \in SystemDecks(R)
  <1>1. s \in Slugs /\ PatternOf[R][s] \in Patterns /\ HomeOf[R][PatternOf[R][s]] \in DeckSlugs
    BY ReleasesAreRead
  <1>2. HomeOf[R][PatternOf[R][s]] \in DecksOf[R]
    BY FixturesHaveDecks
  <1> QED BY <1>1, <1>2 DEF TargetDeck, SystemDeck, SystemDecks, Deck

\* A fixture's row is well formed, in its home and its own.
LEMMA FixtureType ==
    ASSUME NEW R \in Releases, NEW s \in Slugs, TargetDeck(R, s) \in Deck
    PROVE  /\ Fixture(R, s) \in ProblemRow /\ Home(Fixture(R, s))
           /\ Fixture(R, s) # None /\ Curated(Fixture(R, s))
           /\ Fixture(R, s).slug = [base |-> s, copy |-> 1]
           /\ Fixture(R, s).deck = TargetDeck(R, s)
  <1>1. s \in Slugs /\ PatternOf[R][s] \in Patterns /\ StatementOf[R][s] \in Texts
    BY ReleasesAreRead
  <1>2. Fixture(R, s) \in ProblemRow
    BY <1>1 DEF Fixture, ProblemRow, Slug, Sources
  <1>3. Home(Fixture(R, s))
    BY DEF Home, Fixture, OwnStatement, TargetDeck, SystemDeck
  <1> QED BY <1>2, <1>3, NoneIsNobody DEF Fixture, Curated

-----------------------------------------------------------------------------
(* What lasting rows and decks mean for a request in flight. *)

LEMMA OwnerLasts ==
    ASSUME NEW P, NEW Q, Homed(P), Homed(Q), Lasting(P, Q),
           NEW i \in Ids, P[i] # None, NEW u, P[i].deck.owner \in {None, u}
    PROVE  Q[i] # None /\ Q[i].deck.owner \in {None, u}
  <1>1. Q[i] # None /\ Q[i].source = P[i].source /\ (P[i].source # "curated" => Q[i].deck = P[i].deck)
    BY DEF Lasting, Kept
  <1>2. Home(P[i]) /\ Home(Q[i])
    BY <1>1 DEF Homed
  <1> QED BY <1>1, <1>2 DEF Home

LEMMA OwnLasts ==
    ASSUME NEW old, NEW new, Kept(old, new), NEW t, OwnStatement(old, t)
    PROVE  OwnStatement(new, t)
  BY DEF Kept, OwnStatement

LEMMA ReliesLasts ==
    ASSUME NEW q \in Request, NEW P, NEW Q, NEW D, NEW E,
           Homed(P), Homed(Q), Lasting(P, Q), DecksLast(D, E), Relies(q, P, D)
    PROVE  Relies(q, Q, E)
  <1>1. ASSUME q.at \in Held
        PROVE  Q[q.row] # None /\ Q[q.row].deck.owner \in {None, q.user} /\ Kept(P[q.row], Q[q.row])
    <2>1. q.row \in Ids /\ P[q.row] # None /\ P[q.row].deck.owner \in {None, q.user}
      BY <1>1 DEF Relies
    <2>2. Kept(P[q.row], Q[q.row])
      BY <2>1 DEF Lasting
    <2> QED BY <2>1, <2>2, OwnerLasts
  <1>2. (q.at \in {"queued", "store"} \/ (q.at = "record" /\ q.needs)) =>
            Q[q.row].source \in {"link", "slug"}
    BY <1>1 DEF Relies, Held, Recorded, Kept
  <1>3. q.at = "store" => OwnStatement(Q[q.row], q.text)
    BY <1>1, OwnLasts DEF Relies, Held, Recorded
  <1>4. ASSUME NEW i \in q.rows PROVE Q[i] # None /\ Q[i].deck.owner \in {None, q.user}
    BY <1>4, OwnerLasts DEF Relies, Request
  <1>5. q.at = "created" => q.deck \in E /\ q.deck.owner # None
    BY DEF Relies, DecksLast
  <1> QED BY <1>1, <1>2, <1>3, <1>4, <1>5 DEF Relies

LEMMA RemembersLasts ==
    ASSUME NEW q \in Request, NEW P, NEW Q, NEW D, Homed(P), Lasting(P, Q),
           Relies(q, P, D), Remembers(q, P)
    PROVE  Remembers(q, Q)
  <1>1. ASSUME q.known # None, q.at = "find"
        PROVE  CarriesIn(Q, q.known, q.deck, Identity(q.input).slug)
    <2>1. q.known \in Ids /\ CarriesIn(P, q.known, q.deck, Identity(q.input).slug)
      BY <1>1 DEF Remembers, Request
    <2>2. q.deck.owner # None
      BY <1>1, NoneIsNobody DEF Relies, Adding
    <2>3. P[q.known] # None /\ P[q.known].source # "curated"
      BY <2>1, <2>2 DEF CarriesIn, Homed, Home
    <2> QED BY <2>1, <2>3 DEF CarriesIn, Lasting, Kept
  <1> QED BY <1>1 DEF Remembers

LEMMA FineLasts ==
    ASSUME NEW q \in Request, NEW P, NEW Q, NEW D, NEW E,
           Homed(P), Homed(Q), Lasting(P, Q), DecksLast(D, E), Fine(q, P, D)
    PROVE  Fine(q, Q, E)
  BY ReliesLasts, RemembersLasts DEF Fine

\* Steps after which the rows are what they were.
LEMMA SameRows ==
    ASSUME TablesOK
    PROVE  Homed(problem) /\ Lasting(problem, problem)
  BY DEF TablesOK, TableOK, Lasting, Kept

\* A step that leaves the tables alone and gives one request a fine form.
Quiet(r, q) ==
    /\ req' = [req EXCEPT ![r] = q]
    /\ q \in Request /\ Fine(q, problem, decks)
    /\ UNCHANGED <<table, pending, seeded, kinds>>

LEMMA QuietKeeps ==
    ASSUME Inv, NEW r \in Requests, NEW q, Quiet(r, q)
    PROVE  Inv' /\ Lasting(problem, problem')
  <1>1. TypeOK'
    BY DEF Inv, TypeOK, Quiet, table
  <1>2. TablesOK'
    BY DEF Inv, Quiet, table, TablesOK, TableOK, Unused, Clashes, Homed, OneRow, Untold,
           AllCurated
  <1>3. AllFine'
    BY DEF Inv, AllFine, Quiet, table, TypeOK
  <1>4. Lasting(problem, problem')
    BY SameRows DEF Inv, Quiet, table
  <1> QED BY <1>1, <1>2, <1>3, <1>4 DEF Inv

\* A step of the tables after which every row and every learner's deck is there
\* keeps what the requests it does not touch rely on.
LEMMA OthersFine ==
    ASSUME Inv, Homed(problem'), Lasting(problem, problem'), DecksLast(decks, decks'),
           NEW s \in Requests, req'[s] = req[s]
    PROVE  Fine(req'[s], problem', decks')
  BY FineLasts DEF Inv, TypeOK, AllFine, TablesOK, TableOK

-----------------------------------------------------------------------------
(* Steps of a request that leave the tables alone. *)

LEMMA NoRequestFine == NoRequest \in Request /\ Fine(NoRequest, problem, decks)
  <1>1. NoRequest \in Request
    BY DEF NoRequest, Request, Stage
  <1>2. Relies(NoRequest, problem, decks)
    BY DEF NoRequest, Relies, Adding, Held, Recorded
  <1>3. Remembers(NoRequest, problem)
    BY DEF NoRequest, Remembers
  <1> QED BY <1>1, <1>2, <1>3 DEF Fine

\* A handler that is refused holds nothing.
LEMMA BeginQuiet ==
    ASSUME Inv, NEW r \in Requests, NEW kind, NEW ok \in BOOLEAN, NEW q, Begin(r, kind, ok, q),
           ok => q \in Request /\ Fine(q, problem, decks)
    PROVE  Inv' /\ Lasting(problem, problem')
  <1> DEFINE n == [NoRequest EXCEPT !.at = "refused"]
  <1>1. n \in Request
    BY NoRequestFine DEF Request, Stage
  <1>2. Fine(n, problem, decks)
    BY DEF NoRequest, Fine, Relies, Remembers, Adding, Held, Recorded
  <1>3. CASE ok
    BY <1>3, QuietKeeps DEF Begin, Quiet
  <1>4. CASE ~ok
    BY <1>4, <1>1, <1>2, QuietKeeps DEF Begin, Quiet
  <1> QED BY <1>3, <1>4

LEMMA AskAddKeeps ==
    ASSUME Inv, NEW r \in Requests, NEW u \in Users, NEW d \in Deck, NEW x \in Inputs,
           AskAdd(r, u, d, x)
    PROVE  Inv' /\ Lasting(problem, problem')
  <1> DEFINE k == RowOf(d, Identity(x).slug)
             q == [NoRequest EXCEPT !.at = "find", !.user = u, !.deck = d, !.input = x, !.known = k]
  <1>1. k \in Ids \cup {None}
    BY DEF RowOf, Taken
  <1>2. k # None => CarriesIn(problem, k, d, Identity(x).slug)
    <2>1. CASE Taken(d, Identity(x).slug)
      <3>1. Carries(k, d, Identity(x).slug)
        BY <2>1 DEF RowOf, Taken
      <3> QED BY <3>1 DEF Carries, CarriesIn
    <2>2. CASE ~Taken(d, Identity(x).slug)
      BY <2>2 DEF RowOf
    <2> QED BY <2>1, <2>2
  <1> HIDE DEF k
  <1>3. /\ q.at = "find" /\ q.user = u /\ q.deck = d /\ q.input = x /\ q.slug = None
        /\ q.row = None /\ q.needs = FALSE /\ q.text = None /\ q.rows = {} /\ q.known = k
    BY DEF NoRequest
  <1>4. q \in Request
    BY NoRequestFine, <1>1, <1>3 DEF Request, Stage
  <1>5. MayAdd(d, u) => d.owner = u
    BY DEF MayAdd, VisibleToUser
  <1>6. MayAdd(d, u) => Fine(q, problem, decks)
    BY <1>2, <1>3, <1>5 DEF Fine, Relies, Remembers, Adding, Held, Recorded
  <1>7. MayAdd(d, u) \in BOOLEAN
    BY DEF MayAdd, VisibleToUser
  <1> HIDE DEF q
  <1>8. Begin(r, "add", MayAdd(d, u), q)
    BY DEF AskAdd, q, k
  <1> QED BY <1>4, <1>6, <1>7, <1>8, BeginQuiet

\* What a row waits for is the text of a link or a slug.
LEMMA NeedsSource ==
    ASSUME NEW row, NeedsSourceResolution(row)
    PROVE  row.source \in {"link", "slug"}
  BY DEF NeedsSourceResolution

LEMMA AskAgainKeeps ==
    ASSUME Inv, NEW r \in Requests, NEW u \in Users, NEW i \in Ids, AskAgain(r, u, i)
    PROVE  Inv' /\ Lasting(problem, problem')
  <1> DEFINE n == NeedsSourceResolution(problem[i])
             q == [NoRequest EXCEPT !.at = "record", !.user = u, !.row = i, !.needs = n]
  <1>1. n \in BOOLEAN
    BY DEF NeedsSourceResolution
  <1>2. n => problem[i].source \in {"link", "slug"}
    BY NeedsSource
  <1> HIDE DEF n
  <1>3. /\ q.at = "record" /\ q.user = u /\ q.deck = None /\ q.input = None /\ q.slug = None
        /\ q.row = i /\ q.needs = n /\ q.text = None /\ q.rows = {} /\ q.known = None
    BY DEF NoRequest
  <1>4. q \in Request
    BY NoRequestFine, <1>1, <1>3 DEF Request, Stage
  <1>5. MayAttempt(i, u) => Fine(q, problem, decks)
    BY <1>2, <1>3 DEF Fine, Relies, Remembers, Adding, Held, Recorded, MayAttempt, VisibleToUser
  <1>6. MayAttempt(i, u) \in BOOLEAN
    BY DEF MayAttempt, VisibleToUser
  <1> HIDE DEF q
  <1>7. Begin(r, "again", MayAttempt(i, u), q)
    BY DEF AskAgain, q, n
  <1> QED BY <1>4, <1>5, <1>6, <1>7, BeginQuiet

LEMMA AskCreateKeeps ==
    ASSUME Inv, NEW r \in Requests, NEW u \in Users, NEW n \in DeckNames, AskCreate(r, u, n)
    PROVE  Inv' /\ Lasting(problem, problem')
  <1> DEFINE d == [owner |-> u, slug |-> DeckSlugOf[n]]
             q == [NoRequest EXCEPT !.at = "create", !.user = u, !.deck = d]
  <1>1. d \in Deck /\ d.owner \in Users
    BY InputsAreRead DEF Deck
  <1>2. (d \notin decks) \in BOOLEAN
    OBVIOUS
  <1>3. Begin(r, "create", d \notin decks, q)
    BY DEF AskCreate
  <1> HIDE DEF d
  <1>4. /\ q.at = "create" /\ q.user = u /\ q.deck = d /\ q.input = None /\ q.slug = None
        /\ q.row = None /\ q.needs = FALSE /\ q.text = None /\ q.rows = {} /\ q.known = None
    BY DEF NoRequest
  <1>5. q \in Request
    BY NoRequestFine, <1>1, <1>4 DEF Request, Stage
  <1>6. Fine(q, problem, decks)
    BY <1>1, <1>4 DEF Fine, Relies, Remembers, Adding, Held, Recorded
  <1> HIDE DEF q
  <1> QED BY <1>2, <1>3, <1>5, <1>6, BeginQuiet

LEMMA AskOpenKeeps ==
    ASSUME Inv, NEW r \in Requests, NEW u \in Users, NEW d \in Deck, AskOpen(r, u, d)
    PROVE  Inv' /\ Lasting(problem, problem')
  <1> DEFINE q == [NoRequest EXCEPT !.at = "rows", !.user = u, !.deck = d]
             ok == d \in decks /\ VisibleToUser(d, u)
  <1>1. /\ q.at = "rows" /\ q.user = u /\ q.deck = d /\ q.input = None /\ q.slug = None
        /\ q.row = None /\ q.needs = FALSE /\ q.text = None /\ q.rows = {} /\ q.known = None
    BY DEF NoRequest
  <1>2. q \in Request
    BY NoRequestFine, <1>1 DEF Request, Stage
  <1>3. ok => Fine(q, problem, decks)
    BY <1>1 DEF Fine, Relies, Remembers, Adding, Held, Recorded, VisibleToUser
  <1>4. ok \in BOOLEAN
    BY DEF VisibleToUser
  <1>5. Begin(r, "open", ok, q)
    BY DEF AskOpen
  <1> HIDE DEF q, ok
  <1> QED BY <1>2, <1>3, <1>4, <1>5, BeginQuiet

LEMMA RequestTyped == ASSUME Inv, NEW r \in Requests
                      PROVE  req[r] \in Request /\ Fine(req[r], problem, decks)
  BY DEF Inv, TypeOK, AllFine

\* Two rows that carry one slug in a deck are one.
LEMMA CarrierIsOne ==
    ASSUME Inv, NEW i \in Ids, NEW j \in Ids, NEW d, NEW slug,
           CarriesIn(problem, i, d, slug), CarriesIn(problem, j, d, slug)
    PROVE  i = j
  BY DEF Inv, TablesOK, TableOK, Clashes, CarriesIn

LEMMA FindExistingKeeps ==
    ASSUME Inv, NEW r \in Requests, FindExisting(r)
    PROVE  Inv' /\ Lasting(problem, problem')
  <1> DEFINE slug == Identity(req[r].input).slug
             found == Existing(req[r].deck, req[r].input)
  <1>1. req[r] \in Request /\ Relies(req[r], problem, decks) /\ Remembers(req[r], problem)
    BY RequestTyped DEF Fine
  <1>2. req[r].at = "find" /\ UNCHANGED <<table, pending, seeded, kinds>>
    BY DEF FindExisting
  <1>3. \A j \in Ids : j \in found <=> CarriesIn(problem, j, req[r].deck, slug)
    BY DEF Existing, Carries, CarriesIn
  <1>4. req[r].known # None =>
            req[r].known \in Ids /\ CarriesIn(problem, req[r].known, req[r].deck, slug)
    BY <1>1, <1>2 DEF Remembers, Request
  <1>5. CASE found = {} /\ Finish(r, "slugs")
    <2> DEFINE q == [req[r] EXCEPT !.at = "slugs"]
    <2>1. q \in Request
      BY <1>1 DEF Request, Stage
    <2>2. Relies(q, problem, decks)
      BY <1>1, <1>2 DEF Relies, Adding, Held, Recorded
    <2>3. req[r].known = None
      BY <1>3, <1>4, <1>5
    <2>4. Remembers(q, problem)
      BY <1>1, <2>3 DEF Remembers, Request
    <2> QED BY <1>2, <1>5, <2>1, <2>2, <2>4, QuietKeeps DEF Quiet, Fine, Finish
  <1>6. ASSUME NEW i \in found,
               req' = [req EXCEPT ![r].at = "record", ![r].row = i,
                                  ![r].needs = NeedsSourceResolution(problem[i])]
        PROVE  Inv' /\ Lasting(problem, problem')
    <2> DEFINE n == NeedsSourceResolution(problem[i])
               q == [req[r] EXCEPT !.at = "record", !.row = i, !.needs = n]
    <2>1. i \in Ids /\ CarriesIn(problem, i, req[r].deck, slug)
      BY <1>3, <1>6 DEF Existing
    <2>2. n \in BOOLEAN /\ (n => problem[i].source \in {"link", "slug"})
      BY NeedsSource DEF NeedsSourceResolution
    <2>3. req' = [req EXCEPT ![r] = q]
      BY <1>6 DEF Inv, TypeOK
    <2> HIDE DEF n
    <2>4. /\ q.at = "record" /\ q.row = i /\ q.needs = n /\ q.user = req[r].user
          /\ q.known = req[r].known /\ q.rows = req[r].rows /\ q \in Request
      BY <1>1, <2>1, <2>2, ZenonT(60) DEF Request, Stage
    <2>5. problem[i] # None /\ problem[i].deck.owner = q.user
      BY <1>1, <1>2, <2>1, <2>4 DEF Relies, Adding, CarriesIn
    <2>6. Relies(q, problem, decks)
      BY <1>1, <2>1, <2>2, <2>4, <2>5 DEF Relies, Adding, Held, Recorded
    <2>7. Remembers(q, problem)
      BY <1>4, <2>1, <2>4, CarrierIsOne DEF Remembers
    <2> HIDE DEF q
    <2> QED BY <1>2, <2>3, <2>4, <2>6, <2>7, QuietKeeps DEF Quiet, Fine
  <1> QED BY <1>5, <1>6 DEF FindExisting

LEMMA ChooseSlugKeeps ==
    ASSUME Inv, NEW r \in Requests, ChooseSlug(r)
    PROVE  Inv' /\ Lasting(problem, problem')
  <1> DEFINE id == Identity(req[r].input).slug
  <1>1. req[r] \in Request /\ Relies(req[r], problem, decks) /\ Remembers(req[r], problem)
    BY RequestTyped DEF Fine
  <1>2. req[r].at = "slugs" /\ UNCHANGED <<table, pending, seeded, kinds>>
    BY DEF ChooseSlug
  <1>3. PICK slug \in UniqueSlugInDeck(req[r].deck, id) :
            req' = [req EXCEPT ![r].at = "insert", ![r].slug = slug]
    BY DEF ChooseSlug
  <1> DEFINE q == [req[r] EXCEPT !.at = "insert", !.slug = slug]
  <1>4. id \in Slug
    BY <1>1, <1>2, IdentityType DEF Relies, Adding
  <1>5. slug \in Slug /\ slug.base = id.base
    BY <1>3, <1>4, RowsBound DEF UniqueSlugInDeck, Slug
  <1>10. slug.base = SlugOf[req[r].input]
    BY <1>1, <1>2, <1>5, IdentityType DEF Relies, Adding
  <1>6. req' = [req EXCEPT ![r] = q]
    BY <1>3 DEF Inv, TypeOK
  <1>7. /\ q.at = "insert" /\ q.slug = slug /\ q.user = req[r].user /\ q.deck = req[r].deck
        /\ q.input = req[r].input /\ q.known = req[r].known /\ q.rows = req[r].rows
        /\ q \in Request
    BY <1>1, <1>5 DEF Request, Stage
  <1>8. Relies(q, problem, decks)
    BY <1>1, <1>2, <1>5, <1>7, <1>10 DEF Relies, Adding, Held, Recorded
  <1>9. Remembers(q, problem)
    BY <1>1, <1>2, <1>7 DEF Remembers
  <1> HIDE DEF q
  <1> QED BY <1>2, <1>6, <1>7, <1>8, <1>9, QuietKeeps DEF Quiet, Fine

\* A request that stops relies on nothing any more.
LEMMA StopKeeps ==
    ASSUME Inv, NEW r \in Requests, NEW how \in {"failed", "done"}, Finish(r, how),
           UNCHANGED <<table, pending, seeded, kinds>>,
           how = "done" => req[r].at \in Held
    PROVE  Inv' /\ Lasting(problem, problem')
  <1> DEFINE q == [req[r] EXCEPT !.at = how]
  <1>1. req[r] \in Request /\ Relies(req[r], problem, decks) /\ Remembers(req[r], problem)
    BY RequestTyped DEF Fine
  <1>2. /\ q.at = how /\ q.user = req[r].user /\ q.row = req[r].row /\ q.rows = req[r].rows
        /\ q.known = req[r].known /\ q \in Request
    BY <1>1 DEF Request, Stage
  <1>3. Relies(q, problem, decks)
    BY <1>1, <1>2 DEF Relies, Adding, Held, Recorded
  <1>4. Remembers(q, problem)
    BY <1>1, <1>2 DEF Remembers, Held, Recorded
  <1>5. req' = [req EXCEPT ![r] = q]
    BY DEF Finish
  <1> HIDE DEF q
  <1> QED BY <1>2, <1>3, <1>4, <1>5, QuietKeeps DEF Quiet, Fine

LEMMA RecordKeeps ==
    ASSUME Inv, NEW r \in Requests, Record(r)
    PROVE  Inv' /\ Lasting(problem, problem')
  <1> DEFINE q == [req[r] EXCEPT !.at = "queued"]
  <1>1. req[r] \in Request /\ Relies(req[r], problem, decks) /\ Remembers(req[r], problem)
    BY RequestTyped DEF Fine
  <1>2. req[r].at = "record" /\ UNCHANGED <<table, pending, seeded, kinds>>
    BY DEF Record
  <1>3. CASE Finish(r, "done")
    BY <1>2, <1>3, StopKeeps DEF Held
  <1>4. CASE Finish(r, "failed")
    BY <1>2, <1>4, StopKeeps
  <1>5. CASE req[r].needs /\ Finish(r, "queued")
    <2>1. /\ q.at = "queued" /\ q.user = req[r].user /\ q.row = req[r].row
          /\ q.rows = req[r].rows /\ q.known = req[r].known /\ q \in Request
      BY <1>1 DEF Request, Stage
    <2>2. Relies(q, problem, decks)
      BY <1>1, <1>2, <1>5, <2>1 DEF Relies, Adding, Held, Recorded
    <2>3. Remembers(q, problem)
      BY <1>1, <1>2, <2>1 DEF Remembers, Held, Recorded
    <2>4. req' = [req EXCEPT ![r] = q]
      BY <1>5 DEF Finish
    <2> HIDE DEF q
    <2> QED BY <1>2, <2>1, <2>2, <2>3, <2>4, QuietKeeps DEF Quiet, Fine
  <1> QED BY <1>3, <1>4, <1>5 DEF Record

LEMMA ShowRowsKeeps ==
    ASSUME Inv, NEW r \in Requests, ShowRows(r)
    PROVE  Inv' /\ Lasting(problem, problem')
  <1> DEFINE shown == RowsIn(req[r].deck)
             q == [req[r] EXCEPT !.at = "shown", !.rows = shown]
  <1>1. req[r] \in Request /\ Relies(req[r], problem, decks) /\ Remembers(req[r], problem)
    BY RequestTyped DEF Fine
  <1>2. req[r].at = "rows" /\ UNCHANGED <<table, pending, seeded, kinds>>
    BY DEF ShowRows
  <1>3. /\ shown \subseteq Ids
        /\ \A i \in shown : problem[i] # None /\ problem[i].deck = req[r].deck
    BY DEF RowsIn, Rows
  <1>4. req' = [req EXCEPT ![r] = q]
    BY DEF ShowRows, Inv, TypeOK
  <1> HIDE DEF shown
  <1>5. /\ q.at = "shown" /\ q.user = req[r].user /\ q.rows = shown /\ q.known = req[r].known
        /\ q \in Request
    BY <1>1, <1>3 DEF Request, Stage
  <1>6. Relies(q, problem, decks)
    BY <1>1, <1>2, <1>3, <1>5 DEF Relies, Adding, Held, Recorded
  <1>7. Remembers(q, problem)
    BY <1>1, <1>2, <1>5 DEF Remembers, Held, Recorded
  <1> HIDE DEF q
  <1> QED BY <1>2, <1>4, <1>5, <1>6, <1>7, QuietKeeps DEF Quiet, Fine

LEMMA FailKeeps ==
    ASSUME Inv, NEW r \in Requests, Fail(r)
    PROVE  Inv' /\ Lasting(problem, problem')
  BY StopKeeps DEF Fail

\* What the resolve stage finds is the row's own to say.
LEMMA ResolvedIsOwn ==
    ASSUME Inv, NEW i \in Ids, problem[i] # None, problem[i].source \in {"link", "slug"},
           NEW t \in IF problem[i].source = "link"
                     THEN ResolveFromLink(problem[i]) ELSE ResolveFromSlug(i)
    PROVE  t \in Texts \cup {None} /\ OwnStatement(problem[i], t)
  <1>1. problem[i] \in ProblemRow /\ Homed(problem)
    BY DEF Inv, TypeOK, TablesOK, TableOK
  <1>2. CASE problem[i].source = "link"
    <2>1. problem[i].ref \in Inputs
      BY <1>1, <1>2 DEF Homed, Home
    <2> QED BY <1>2, <2>1, InputsAreRead DEF ResolveFromLink, OwnStatement
  <1>3. CASE problem[i].source = "slug"
    <2>1. t = None \/ \E j \in Ids : Trusted(i, j) /\ t = problem[j].statement
      BY <1>3 DEF ResolveFromSlug
    <2>2. ASSUME NEW j \in Ids, Trusted(i, j), t = problem[j].statement
          PROVE  t \in Texts \cup {None} /\ t \in {StatementOf[R][problem[i].slug.base] : R \in Releases}
      <3>1. Home(problem[j]) /\ problem[j] \in ProblemRow
        BY <1>1, <2>2 DEF Trusted, Homed, Inv, TypeOK
      <3> QED BY <2>2, <3>1 DEF Trusted, Home, OwnStatement, ProblemRow
    <2> QED BY <1>3, <2>1, <2>2 DEF OwnStatement
  <1> QED BY <1>2, <1>3

LEMMA ResolveKeeps ==
    ASSUME Inv, NEW r \in Requests, Resolve(r)
    PROVE  Inv' /\ Lasting(problem, problem')
  <1> DEFINE i == req[r].row
  <1>1. req[r] \in Request /\ Relies(req[r], problem, decks) /\ Remembers(req[r], problem)
    BY RequestTyped DEF Fine
  <1>2. req[r].at = "queued" /\ UNCHANGED <<table, pending, seeded, kinds>>
    BY DEF Resolve
  <1>3. i \in Ids /\ problem[i] # None /\ problem[i].source \in {"link", "slug"}
    BY <1>1, <1>2 DEF Relies, Held, Recorded
  <1>4. PICK t \in IF problem[i].source = "link"
                   THEN ResolveFromLink(problem[i]) ELSE ResolveFromSlug(i) :
            req' = [req EXCEPT ![r].at = "store", ![r].text = t]
    BY <1>3 DEF Resolve
  <1>5. t \in Texts \cup {None} /\ OwnStatement(problem[i], t)
    BY <1>3, ResolvedIsOwn
  <1> DEFINE q == [req[r] EXCEPT !.at = "store", !.text = t]
  <1>6. req' = [req EXCEPT ![r] = q]
    BY <1>4 DEF Inv, TypeOK
  <1>7. /\ q.at = "store" /\ q.user = req[r].user /\ q.row = i /\ q.text = t
        /\ q.rows = req[r].rows /\ q.known = req[r].known /\ q \in Request
    BY <1>1, <1>5, ZenonT(60) DEF Request, Stage
  <1>8. Relies(q, problem, decks)
    BY <1>1, <1>2, <1>3, <1>5, <1>7 DEF Relies, Adding, Held, Recorded
  <1>9. Remembers(q, problem)
    BY <1>1, <1>2, <1>7 DEF Remembers, Held, Recorded
  <1> HIDE DEF q
  <1> QED BY <1>2, <1>6, <1>7, <1>8, <1>9, QuietKeeps DEF Quiet, Fine

LEMMA RetryResolveKeeps ==
    ASSUME Inv, NEW r \in Requests, RetryResolve(r)
    PROVE  Inv' /\ Lasting(problem, problem')
  <1> DEFINE q == [req[r] EXCEPT !.at = "queued", !.text = None]
  <1>1. req[r] \in Request /\ Relies(req[r], problem, decks) /\ Remembers(req[r], problem)
    BY RequestTyped DEF Fine
  <1>2. req[r].at = "store" /\ UNCHANGED <<table, pending, seeded, kinds>>
    BY DEF RetryResolve
  <1>3. req' = [req EXCEPT ![r] = q]
    BY DEF RetryResolve, Inv, TypeOK
  <1>4. /\ q.at = "queued" /\ q.user = req[r].user /\ q.row = req[r].row
        /\ q.rows = req[r].rows /\ q.known = req[r].known /\ q \in Request
    BY <1>1 DEF Request, Stage
  <1>5. Relies(q, problem, decks)
    BY <1>1, <1>2, <1>4 DEF Relies, Adding, Held, Recorded
  <1>6. Remembers(q, problem)
    BY <1>1, <1>2, <1>4 DEF Remembers, Held, Recorded
  <1> HIDE DEF q
  <1> QED BY <1>2, <1>3, <1>4, <1>5, <1>6, QuietKeeps DEF Quiet, Fine

-----------------------------------------------------------------------------
(* Steps that change the tables. *)

\* A new row in its home, under a slug that is free in its deck.
LEMMA NewRow ==
    ASSUME Inv, serial < MaxRows, NEW row \in ProblemRow, Home(row), ~Taken(row.deck, row.slug),
           \A i \in Ids : Curated(problem[i]) /\ Curated(row) => problem[i].slug # row.slug,
           NEW Q, Q = [problem EXCEPT ![serial + 1] = row]
    PROVE  /\ Q \in [Ids -> ProblemRow \cup {None}]
           /\ TableOK(Q, tell, accepts, serial + 1, pending)
           /\ Lasting(problem, Q)
           /\ serial + 1 \in Ids /\ Q[serial + 1] = row /\ row # None
  <1>1. serial \in Nat /\ serial + 1 \in Ids /\ problem \in [Ids -> ProblemRow \cup {None}]
    BY RowsBound DEF Inv, TypeOK, Ids
  <1>2. /\ Unused(problem, tell, accepts, serial) /\ ~Clashes(problem) /\ Homed(problem)
        /\ OneRow(problem) /\ Untold(problem, tell) /\ AllCurated(problem, pending)
    BY DEF Inv, TablesOK, TableOK
  <1>3. row # None
    BY NoneIsNobody
  <1>4. /\ problem[serial + 1] = None /\ tell[serial + 1] = None
        /\ \A i \in Ids : Q[i] = IF i = serial + 1 THEN row ELSE problem[i]
    BY <1>1, <1>2 DEF Unused
  <1>5. Unused(Q, tell, accepts, serial + 1)
    BY <1>1, <1>2, <1>4 DEF Unused, Ids
  <1>6. ~Clashes(Q)
    BY <1>1, <1>2, <1>4 DEF Clashes, Taken, Carries
  <1>7. Homed(Q)
    BY <1>2, <1>4 DEF Homed
  <1>8. OneRow(Q)
    BY <1>2, <1>4 DEF OneRow
  <1>9. Untold(Q, tell)
    BY <1>1, <1>2, <1>4 DEF Untold
  <1>10. AllCurated(Q, pending)
    BY <1>2, <1>4 DEF AllCurated, Curated, Inv, TypeOK
  <1>11. Lasting(problem, Q)
    BY <1>4 DEF Lasting, Kept
  <1> QED BY <1>1, <1>3, <1>4, <1>5, <1>6, <1>7, <1>8, <1>9, <1>10, <1>11 DEF TableOK

LEMMA InsertProblemKeeps ==
    ASSUME Inv, NEW r \in Requests, InsertProblem(r)
    PROVE  Inv' /\ Lasting(problem, problem')
  <1> DEFINE id == Identity(req[r].input)
             row == [deck |-> req[r].deck, slug |-> req[r].slug, source |-> id.source,
                     ref |-> req[r].input, statement |-> id.statement, pattern |-> None]
  <1>1. req[r] \in Request /\ Relies(req[r], problem, decks) /\ Remembers(req[r], problem)
    BY RequestTyped DEF Fine
  <1>2. /\ req[r].at = "insert"
        /\ UNCHANGED <<decks, tell, accepts, pending, seeded, kinds>>
    BY DEF InsertProblem
  <1>3. /\ req[r].input \in Inputs /\ req[r].deck \in Deck /\ req[r].slug \in Slug
        /\ req[r].deck.owner = req[r].user /\ req[r].user # None
        /\ req[r].slug.base = SlugOf[req[r].input]
    BY <1>1, <1>2, NoneIsNobody DEF Relies, Adding
  <1>4. row \in ProblemRow /\ Home(row)
    <2>1. row \in ProblemRow
      BY <1>3, IdentityType DEF ProblemRow, Sources
    <2>2. OwnStatement(row, row.statement)
      BY <1>3, IdentityType DEF OwnStatement
    <2> QED BY <1>3, <2>1, <2>2, IdentityType DEF Home
  <1>5. row.source # "curated"
    BY <1>3, IdentityType
  <1>6. CASE Taken(req[r].deck, req[r].slug)
    BY <1>2, <1>6, StopKeeps DEF InsertProblem, table
  <1>7. CASE ~Taken(req[r].deck, req[r].slug)
    <2> DEFINE n == NeedsSourceResolution(row)
               q == [req[r] EXCEPT !.at = "record", !.row = serial + 1, !.needs = n]
    <2>1. /\ serial < MaxRows /\ serial' = serial + 1
          /\ problem' = [problem EXCEPT ![serial + 1] = row]
          /\ req' = [req EXCEPT ![r] = q]
      BY <1>7 DEF InsertProblem, Inv, TypeOK
    <2>2. n \in BOOLEAN /\ (n => row.source \in {"link", "slug"})
      BY NeedsSource DEF NeedsSourceResolution
    <2>3. row.deck = req[r].deck /\ row.slug = req[r].slug /\ row.deck.owner = req[r].user
      BY <1>3
    <2> HIDE DEF row
    <2>4. /\ problem' \in [Ids -> ProblemRow \cup {None}]
          /\ TableOK(problem', tell, accepts, serial + 1, pending)
          /\ Lasting(problem, problem')
          /\ serial + 1 \in Ids /\ problem'[serial + 1] = row /\ row # None
      BY <1>4, <1>5, <1>7, <2>1, <2>3, NewRow DEF Curated
    <2> HIDE DEF n
    <2>5. /\ q.at = "record" /\ q.user = req[r].user /\ q.row = serial + 1 /\ q.needs = n
          /\ q.rows = req[r].rows /\ q.known = req[r].known /\ q \in Request
      BY <1>1, <2>2, <2>4, ZenonT(60) DEF Request, Stage
    <2> HIDE DEF q
    <2>6. Homed(problem') /\ DecksLast(decks, decks')
      BY <1>2, <2>4 DEF TableOK, DecksLast
    <2>7. Fine(req[r], problem', decks')
      BY <1>1, <2>4, <2>6, FineLasts DEF Inv, TablesOK, TableOK, Fine
    <2>8. Relies(q, problem', decks')
      BY <1>1, <2>2, <2>3, <2>4, <2>5, <2>7 DEF Fine, Relies, Adding, Held, Recorded
    <2>9. Remembers(q, problem')
      BY <1>1, <1>2, <2>5 DEF Remembers
    <2>10. ASSUME NEW s \in Requests PROVE Fine(req'[s], problem', decks')
      <3>1. CASE s = r
        BY <2>1, <2>8, <2>9, <3>1 DEF Fine, Inv, TypeOK
      <3>2. CASE s # r
        <4>1. req'[s] = req[s]
          BY <2>1, <3>2 DEF Inv, TypeOK
        <4> QED BY <2>4, <2>6, <4>1, OthersFine
      <3> QED BY <3>1, <3>2
    <2>11. TypeOK'
      <3>1. serial + 1 \in 0 .. MaxRows
        BY <2>1, RowsBound DEF Inv, TypeOK
      <3>2. req' \in [Requests -> Request]
        BY <2>1, <2>5 DEF Inv, TypeOK
      <3> QED BY <1>2, <2>1, <2>4, <3>1, <3>2 DEF Inv, TypeOK
    <2>12. TablesOK'
      BY <1>2, <2>1, <2>4 DEF TablesOK
    <2> QED BY <2>4, <2>10, <2>11, <2>12 DEF Inv, AllFine
  <1> QED BY <1>6, <1>7

LEMMA InsertDeckKeeps ==
    ASSUME Inv, NEW r \in Requests, InsertDeck(r)
    PROVE  Inv' /\ Lasting(problem, problem')
  <1> DEFINE d == req[r].deck
  <1>1. req[r] \in Request /\ Relies(req[r], problem, decks) /\ Remembers(req[r], problem)
    BY RequestTyped DEF Fine
  <1>2. /\ req[r].at = "create" /\ problem' = problem
        /\ UNCHANGED <<serial, tell, accepts, pending, seeded, kinds>>
    BY DEF InsertDeck
  <1>3. CASE Finish(r, "failed") /\ UNCHANGED decks
    BY <1>2, <1>3, StopKeeps DEF table
  <1>4. CASE decks' = decks \cup {d} /\ Finish(r, "created")
    <2> DEFINE q == [req[r] EXCEPT !.at = "created"]
    <2>1. d \in Deck /\ d.owner # None
      BY <1>1, <1>2, NoneIsNobody DEF Relies
    <2>2. /\ q.at = "created" /\ q.user = req[r].user /\ q.deck = d
          /\ q.rows = req[r].rows /\ q.known = req[r].known /\ q \in Request
      BY <1>1 DEF Request, Stage
    <2>3. req' = [req EXCEPT ![r] = q]
      BY <1>4 DEF Finish
    <2> HIDE DEF q
    <2>4. Relies(q, problem', decks')
      BY <1>1, <1>2, <1>4, <2>1, <2>2 DEF Relies, Adding, Held, Recorded
    <2>5. Remembers(q, problem')
      BY <1>1, <1>2, <2>2 DEF Remembers, Held, Recorded
    <2>6. TablesOK /\ TablesOK'
      BY <1>2 DEF Inv, TablesOK
    <2>7. Homed(problem') /\ Lasting(problem, problem') /\ DecksLast(decks, decks')
      BY <1>2, <1>4, <2>6, SameRows DEF DecksLast
    <2>8. ASSUME NEW s \in Requests PROVE Fine(req'[s], problem', decks')
      <3>1. CASE s = r
        BY <2>3, <2>4, <2>5, <3>1 DEF Fine, Inv, TypeOK
      <3>2. CASE s # r
        <4>1. req'[s] = req[s]
          BY <2>3, <3>2 DEF Inv, TypeOK
        <4> QED BY <2>7, <4>1, OthersFine
      <3> QED BY <3>1, <3>2
    <2>9. TypeOK'
      <3>1. req' \in [Requests -> Request]
        BY <2>2, <2>3 DEF Inv, TypeOK
      <3> QED BY <1>2, <1>4, <2>1, <3>1 DEF Inv, TypeOK
    <2> QED BY <2>6, <2>7, <2>8, <2>9 DEF Inv, AllFine
  <1> QED BY <1>3, <1>4 DEF InsertDeck

\* The text of a link or a slug is written into the row it was found for.
LEMMA StoreSourceKeeps ==
    ASSUME Inv, NEW r \in Requests, StoreSource(r)
    PROVE  Inv' /\ Lasting(problem, problem')
  <1> DEFINE i == req[r].row
             t == req[r].text
             q == [req[r] EXCEPT !.at = "done"]
  <1>1. req[r] \in Request /\ Relies(req[r], problem, decks) /\ Remembers(req[r], problem)
    BY RequestTyped DEF Fine
  <1>2. /\ req[r].at = "store" /\ UNCHANGED <<decks, serial, tell, accepts, pending, seeded, kinds>>
        /\ req' = [req EXCEPT ![r] = q]
    BY DEF StoreSource, Finish
  <1>3. /\ i \in Ids /\ problem[i] # None /\ problem[i].source \in {"link", "slug"}
        /\ OwnStatement(problem[i], t) /\ t \in Texts \cup {None}
        /\ problem[i].deck.owner \in {None, req[r].user}
    BY <1>1, <1>2 DEF Relies, Held, Recorded, Request
  <1> DEFINE new == [problem[i] EXCEPT !.statement = t]
  <1>4. CASE t = None
    <2>1. problem' = problem
      BY <1>4 DEF StoreSource, Inv, TypeOK
    <2> QED BY <1>2, <2>1, StopKeeps DEF Held, Recorded, Finish, table
  <1>5. CASE t # None
    <2>1. \A j \in Ids : problem'[j] = IF j = i THEN new ELSE problem[j]
      BY <1>3, <1>5 DEF StoreSource
    <2>2. problem[i] \in ProblemRow
      BY <1>3 DEF Inv, TypeOK
    <2>3. /\ new \in ProblemRow /\ new.deck = problem[i].deck /\ new.slug = problem[i].slug
          /\ new.source = problem[i].source /\ new.ref = problem[i].ref
          /\ new.pattern = problem[i].pattern /\ new.statement = t
      BY <1>3, <2>2 DEF ProblemRow
    <2> HIDE DEF new
    <2>4. new # None
      BY <2>3, NoneIsNobody
    <2>5. /\ Unused(problem, tell, accepts, serial) /\ ~Clashes(problem) /\ Homed(problem)
          /\ OneRow(problem) /\ Untold(problem, tell) /\ AllCurated(problem, pending)
      BY DEF Inv, TablesOK, TableOK
    <2>6. problem' \in [Ids -> ProblemRow \cup {None}]
      BY <2>1, <2>3 DEF Inv, TypeOK, StoreSource
    <2>7. Unused(problem', tell, accepts, serial)
      BY <1>3, <2>1, <2>5 DEF Unused
    <2>8. ~Clashes(problem')
      BY <1>3, <2>1, <2>3, <2>5 DEF Clashes
    <2>9. Homed(problem')
      <3>1. Home(problem[i])
        BY <1>3, <2>5 DEF Homed
      <3>2. OwnStatement(new, t)
        BY <1>3, <2>3 DEF OwnStatement
      <3>3. Home(new)
        BY <1>3, <2>3, <3>1, <3>2 DEF Home
      <3> QED BY <2>1, <2>5, <3>3 DEF Homed
    <2>10. OneRow(problem')
      BY <1>3, <2>1, <2>3, <2>5 DEF OneRow, Curated
    <2>11. Untold(problem', tell)
      BY <1>3, <2>1, <2>3, <2>5 DEF Untold
    <2>12. AllCurated(problem', pending)
      BY <1>3, <2>1, <2>3, <2>5 DEF AllCurated, Curated, Inv, TypeOK
    <2>13. Lasting(problem, problem')
      BY <1>3, <2>1, <2>3, <2>4 DEF Lasting, Kept
    <2>14. DecksLast(decks, decks')
      BY <1>2 DEF DecksLast
    <2>15. Fine(req[r], problem', decks')
      BY <1>1, <2>5, <2>9, <2>13, <2>14, FineLasts DEF Fine
    <2>16. /\ q.at = "done" /\ q.user = req[r].user /\ q.row = i /\ q.rows = req[r].rows
           /\ q.known = req[r].known /\ q \in Request
      BY <1>1 DEF Request, Stage
    <2> HIDE DEF q
    <2>17. Fine(q, problem', decks')
      BY <1>2, <2>15, <2>16 DEF Fine, Relies, Remembers, Adding, Held, Recorded
    <2>18. ASSUME NEW s \in Requests PROVE Fine(req'[s], problem', decks')
      <3>1. CASE s = r
        BY <1>2, <2>17, <3>1 DEF Inv, TypeOK
      <3>2. CASE s # r
        <4>1. req'[s] = req[s]
          BY <1>2, <3>2 DEF Inv, TypeOK
        <4> QED BY <2>9, <2>13, <2>14, <4>1, OthersFine
      <3> QED BY <3>1, <3>2
    <2>19. TypeOK'
      <3>1. req' \in [Requests -> Request]
        BY <1>2, <2>16 DEF Inv, TypeOK
      <3> QED BY <1>2, <2>6, <3>1 DEF Inv, TypeOK
    <2>20. TablesOK'
      BY <1>2, <2>7, <2>8, <2>9, <2>10, <2>11, <2>12 DEF TablesOK, TableOK
    <2> QED BY <2>13, <2>18, <2>19, <2>20 DEF Inv, AllFine
  <1> QED BY <1>4, <1>5

\* Steps of the curators touch no request.
LEMMA CurateKeeps ==
    ASSUME Inv, req' = req, TypeOK', TablesOK',
           Lasting(problem, problem'), DecksLast(decks, decks')
    PROVE  Inv' /\ Lasting(problem, problem')
  <1>1. Homed(problem')
    BY DEF TablesOK, TableOK
  <1>2. ASSUME NEW s \in Requests PROVE Fine(req'[s], problem', decks')
    BY <1>1, OthersFine
  <1> QED BY <1>2 DEF Inv, AllFine

LEMMA StartTellsKeeps ==
    ASSUME Inv, StartTells
    PROVE  Inv' /\ Lasting(problem, problem')
  <1>1. pending' \subseteq Ids /\ \A i \in pending' : LacksTell(i)
    BY DEF StartTells
  <1>2. UNCHANGED <<decks, problem, serial, tell, accepts, req, seeded, kinds>>
    BY DEF StartTells, table
  <1>3. TypeOK'
    BY <1>1, <1>2 DEF Inv, TypeOK
  <1>4. AllCurated(problem', pending')
    BY <1>1, <1>2 DEF AllCurated, Curated, LacksTell
  <1>5. TablesOK'
    BY <1>2, <1>4 DEF Inv, TablesOK, TableOK
  <1>6. Lasting(problem, problem') /\ DecksLast(decks, decks')
    BY <1>2, SameRows DEF Inv, DecksLast
  <1> QED BY <1>2, <1>3, <1>5, <1>6, CurateKeeps

LEMMA WriteTellKeeps ==
    ASSUME Inv, NEW i \in Ids, WriteTell(i)
    PROVE  Inv' /\ Lasting(problem, problem')
  <1>1. /\ i \in pending /\ pending' = pending \ {i}
        /\ UNCHANGED <<decks, problem, serial, accepts, req, seeded, kinds>>
    BY DEF WriteTell
  <1>2. /\ Unused(problem, tell, accepts, serial) /\ ~Clashes(problem) /\ Homed(problem)
        /\ OneRow(problem) /\ Untold(problem, tell) /\ AllCurated(problem, pending)
    BY DEF Inv, TablesOK, TableOK
  <1>3. Curated(problem[i])
    BY <1>1, <1>2 DEF AllCurated
  <1>4. /\ tell' \in [Ids -> {None, "seed", "gemini"}]
        /\ \A j \in Ids : tell'[j] = tell[j] \/ j = i
    <2>1. Drafted(i) \in {None, "seed", "gemini"}
      BY DEF Drafted, Inv, TypeOK
    <2> QED BY <2>1 DEF WriteTell, Inv, TypeOK
  <1>5. TypeOK'
    BY <1>1, <1>4 DEF Inv, TypeOK
  <1>6. Unused(problem', tell', accepts', serial')
    BY <1>1, <1>2, <1>3, <1>4 DEF Unused, Curated
  <1>7. Untold(problem', tell')
    BY <1>1, <1>2, <1>3, <1>4 DEF Untold, Curated
  <1>8. AllCurated(problem', pending')
    BY <1>1, <1>2 DEF AllCurated
  <1>9. TablesOK'
    BY <1>1, <1>2, <1>6, <1>7, <1>8 DEF TablesOK, TableOK
  <1>10. Lasting(problem, problem') /\ DecksLast(decks, decks')
    BY <1>1, SameRows DEF Inv, DecksLast
  <1> QED BY <1>1, <1>5, <1>9, <1>10, CurateKeeps

LEMMA IngestKeeps ==
    ASSUME Inv, NEW R \in Releases, NEW s \in Slugs, Ingest(R, s)
    PROVE  Inv' /\ Lasting(problem, problem')
  <1> DEFINE row == Fixture(R, s)
  <1>1. /\ serial < MaxRows /\ serial' = serial + 1
        /\ problem' = [problem EXCEPT ![serial + 1] = row]
        /\ UNCHANGED <<decks, tell, accepts, req, pending, seeded, kinds>>
        /\ \A i \in Rows : problem[i].source = "curated" => problem[i].slug.base # s
    BY DEF Ingest
  <1>2. TargetDeck(R, s) \in Deck
    BY DEF Ingest, Inv, TypeOK
  <1>3. /\ row \in ProblemRow /\ Home(row) /\ Curated(row)
        /\ row.slug = [base |-> s, copy |-> 1] /\ row.deck = TargetDeck(R, s)
    BY <1>2, FixtureType
  <1> HIDE DEF row
  <1>4. \A i \in Ids : Curated(problem[i]) => problem[i].slug # row.slug
    BY <1>1, <1>3 DEF Curated, Rows
  <1>5. ~Taken(row.deck, row.slug)
    <2> SUFFICES ASSUME NEW i \in Ids, Carries(i, row.deck, row.slug) PROVE FALSE
      BY DEF Taken
    <2>1. problem[i] # None /\ problem[i].deck.owner = None
      BY <1>3 DEF Carries, Home, Curated
    <2>2. Curated(problem[i])
      BY <2>1 DEF Inv, TablesOK, TableOK, Homed, Home, Curated
    <2> QED BY <1>4, <2>2 DEF Carries
  <1>6. /\ problem' \in [Ids -> ProblemRow \cup {None}]
        /\ TableOK(problem', tell, accepts, serial + 1, pending)
        /\ Lasting(problem, problem')
    BY <1>1, <1>3, <1>4, <1>5, NewRow
  <1>7. TypeOK'
    <2>1. serial + 1 \in 0 .. MaxRows
      BY <1>1, RowsBound DEF Inv, TypeOK
    <2> QED BY <1>1, <1>6, <2>1 DEF Inv, TypeOK
  <1>8. TablesOK'
    BY <1>1, <1>6 DEF TablesOK
  <1>9. DecksLast(decks, decks')
    BY <1>1 DEF DecksLast
  <1> QED BY <1>1, <1>6, <1>7, <1>8, <1>9, CurateKeeps

-----------------------------------------------------------------------------
(* The seed. *)

\* What a release makes of a row that is there: the row, or the fixture of its
\* slug when it is curated and the release has it.
LEMMA Refresh ==
    ASSUME NEW R \in Releases, NEW row \in ProblemRow, Home(row),
           NEW new, new = Refreshed(R, Relocated(R, row))
    PROVE  /\ new \in ProblemRow /\ Home(new) /\ Kept(row, new)
           /\ row.source # "curated" => new = row /\ ~InRelease(R, new)
           /\ (row.source = "curated" /\ row.slug.base \notin FixturesOf[R]) =>
                  new = row /\ ~InRelease(R, new)
           /\ (row.source = "curated" /\ row.slug.base \in FixturesOf[R]) =>
                  /\ new = Fixture(R, row.slug.base)
                  /\ InRelease(R, Relocated(R, row)) /\ InRelease(R, new)
                  /\ Relocated(R, row).slug = row.slug
  <1> DEFINE s == row.slug.base
             d == TargetDeck(R, s)
             moved == [row EXCEPT !.deck = d]
  <1>1. row # None /\ row.deck.owner \in Users \cup {None}
    BY NoneIsNobody DEF ProblemRow, Deck
  <1>2. CASE row.source # "curated"
    <2>1. Relocated(R, row) = row
      BY <1>2 DEF Relocated
    <2>2. ~InRelease(R, row)
      BY <1>2, TargetType DEF InRelease, IsFixture, Home
    <2>3. new = row
      BY <2>1, <2>2 DEF Refreshed
    <2> QED BY <1>1, <1>2, <2>2, <2>3 DEF Kept
  <1>3. CASE row.source = "curated" /\ s \notin FixturesOf[R]
    <2>1. ~IsFixture(R, row)
      BY <1>3 DEF IsFixture
    <2>2. Relocated(R, row) = row /\ ~InRelease(R, row)
      BY <2>1 DEF Relocated, InRelease
    <2>3. new = row
      BY <2>2 DEF Refreshed
    <2> QED BY <1>1, <1>3, <2>2, <2>3 DEF Kept
  <1>4. CASE row.source = "curated" /\ s \in FixturesOf[R]
    <2>1. IsFixture(R, row) /\ Relocated(R, row) = moved
      BY <1>1, <1>4 DEF IsFixture, Home, Relocated
    <2>2. /\ s \in Slugs /\ d \in Deck /\ d.owner = None /\ row.ref = None
          /\ row.slug = [base |-> s, copy |-> 1]
      <3>1. row.slug \in Slug
        BY DEF ProblemRow
      <3> QED BY <1>4, <3>1, TargetType, ReleasesAreRead DEF Home, Slug
    <2>3. /\ moved \in ProblemRow /\ moved.deck = d /\ moved.slug = row.slug
          /\ moved.source = "curated" /\ moved.ref = None
      BY <1>4, <2>2 DEF ProblemRow
    <2>4. moved # None
      BY <2>3, NoneIsNobody
    <2> HIDE DEF moved, d
    <2>5. InRelease(R, moved)
      BY <1>4, <2>2, <2>3, <2>4 DEF InRelease, IsFixture, d
    <2>6. new = [moved EXCEPT !.statement = StatementOf[R][s], !.pattern = PatternOf[R][s]]
      BY <2>1, <2>3, <2>5 DEF Refreshed
    <2>7. new = Fixture(R, s)
      BY <2>2, <2>3, <2>6 DEF Fixture, ProblemRow, d
    <2>8. /\ new \in ProblemRow /\ Home(new) /\ new # None
          /\ new.slug = row.slug /\ new.deck = d /\ Curated(new)
      BY <2>2, <2>7, FixtureType DEF d
    <2>9. InRelease(R, new)
      BY <1>4, <2>2, <2>8 DEF InRelease, IsFixture, d
    <2>10. new.ref = None
      BY <2>7 DEF Fixture
    <2> QED BY <1>4, <2>1, <2>2, <2>3, <2>5, <2>7, <2>8, <2>9, <2>10 DEF Kept, Curated
  <1> QED BY <1>2, <1>3, <1>4

\* What a seed of R that numbers the new fixtures by at leaves: the rows there
\* were, refreshed, and a new one for each fixture that was missing.
Seeding(R, at) ==
    /\ problem' \in [Ids -> ProblemRow \cup {None}]
    /\ serial' \in serial .. MaxRows
    /\ ~Clashes(problem')
    /\ \A s \in Missing(R) : /\ at[s] \in Ids /\ at[s] > serial /\ at[s] <= serial'
                              /\ problem'[at[s]] = Fixture(R, s)
    /\ \A s, t \in Missing(R) : at[s] = at[t] => s = t
    /\ \A i \in Ids : problem[i] # None => problem'[i] = Refreshed(R, Relocated(R, problem[i]))
    /\ \A i \in Ids : problem[i] = None =>
          problem'[i] = None \/ \E s \in Missing(R) : at[s] = i
    /\ decks' = (decks \cup SystemDecks(R)) \ Retired(R, problem')
    /\ tell' = [i \in Ids |-> TellAfter(R, problem'[i], i)]
    /\ accepts' = [i \in Ids |-> AcceptsAfter(R, problem'[i], i)]
    /\ seeded' = R /\ UNCHANGED <<req, pending, kinds>>

\* A retired deck is empty, so that nothing cascades.
LEMMA NothingCascades ==
    ASSUME NEW R, NEW rows, rows \in [Ids -> ProblemRow \cup {None}]
    PROVE  Cascade(rows, Retired(R, rows)) = rows
  BY DEF Cascade, Retired

\* A row of a fixture is typed, and a row that is there is what Refresh says.
LEMMA RefreshAt ==
    ASSUME Inv, NEW R \in Releases, NEW i \in Ids, problem[i] # None
    PROVE  /\ problem[i] \in ProblemRow /\ Home(problem[i])
           /\ Refreshed(R, Relocated(R, problem[i])) \in ProblemRow
  <1>1. problem[i] \in ProblemRow /\ Home(problem[i])
    BY DEF Inv, TypeOK, TablesOK, TableOK, Homed
  <1> QED BY <1>1, Refresh

LEMMA SeedShape ==
    ASSUME Inv, NEW R \in Releases, Seed(R)
    PROVE  \E at : Seeding(R, at)
  <1> DEFINE new == Missing(R)
             n == Cardinality(new)
  <1>1. /\ serial + n <= MaxRows /\ serial' = serial + n
        /\ seeded' = R /\ UNCHANGED <<req, pending, kinds>>
    BY DEF Seed
  <1>2. PICK at \in Numberings(new) :
            /\ ~Clashes(Upserted(R, at))
            /\ decks' = Result(R, Upserted(R, at), Retired(R, Upserted(R, at))).decks
            /\ problem' = Result(R, Upserted(R, at), Retired(R, Upserted(R, at))).problem
            /\ tell' = Result(R, Upserted(R, at), Retired(R, Upserted(R, at))).tell
            /\ accepts' = Result(R, Upserted(R, at), Retired(R, Upserted(R, at))).accepts
    BY DEF Seed, Outcomes
  <1>3. new \subseteq FixturesOf[R] /\ n \in Nat
    <2>1. new \subseteq FixturesOf[R]
      BY DEF Missing
    <2>2. IsFiniteSet(new)
      BY <2>1, ReleasesAreRead, FS_Subset
    <2> QED BY <2>1, <2>2, FS_CardinalityType
  <1>4. serial \in Nat
    BY DEF Inv, TypeOK
  <1>5. /\ at \in [new -> (serial + 1) .. (serial + n)]
        /\ \A s, t \in new : at[s] = at[t] => s = t
    BY <1>2 DEF Numberings
  <1> DEFINE rows == Upserted(R, at)
  <1> HIDE DEF n
  <1>6. \A s \in new : at[s] \in Ids /\ at[s] > serial /\ at[s] <= serial'
    BY <1>1, <1>3, <1>4, <1>5, RowsBound DEF Ids
  <1>7. DOMAIN at = new
    BY <1>5
  <1> HIDE DEF new
  <1>8. \A s \in new : rows[at[s]] = Fixture(R, s)
    <2> TAKE s \in new
    <2>1. at[s] \in Ids /\ \E t \in DOMAIN at : at[t] = at[s]
      BY <1>6, <1>7
    <2>2. (CHOOSE t \in DOMAIN at : at[t] = at[s]) = s
      BY <1>5, <1>7
    <2> QED BY <2>1, <2>2 DEF Upserted
  <1>9. ASSUME NEW i \in Ids, problem[i] # None
        PROVE  rows[i] = Refreshed(R, Relocated(R, problem[i]))
    <2>1. ~(i > serial)
      BY <1>9 DEF Inv, TablesOK, TableOK, Unused
    <2>2. ~\E s \in DOMAIN at : at[s] = i
      BY <1>6, <1>7, <2>1
    <2> QED BY <2>2 DEF Upserted
  <1>10. ASSUME NEW i \in Ids, problem[i] = None, ~\E s \in new : at[s] = i
         PROVE  rows[i] = None
    <2>1. Relocated(R, None) = None /\ Refreshed(R, None) = None
      BY DEF Relocated, Refreshed, InRelease, IsFixture
    <2> QED BY <1>7, <1>10, <2>1 DEF Upserted
  <1>11. rows \in [Ids -> ProblemRow \cup {None}]
    <2>1. ASSUME NEW s \in new PROVE Fixture(R, s) \in ProblemRow
      BY <1>3, <2>1, TargetType, FixtureType, ReleasesAreRead DEF new
    <2>2. ASSUME NEW i \in Ids PROVE rows[i] \in ProblemRow \cup {None}
      BY <1>8, <1>9, <1>10, <2>1, RefreshAt
    <2>3. rows = [i \in Ids |-> rows[i]]
      BY DEF Upserted
    <2> HIDE DEF rows
    <2> QED BY <2>2, <2>3
  <1>12. problem' = rows
    BY <1>2, <1>11, NothingCascades DEF Result
  <1>13. /\ decks' = (decks \cup SystemDecks(R)) \ Retired(R, rows)
         /\ tell' = [i \in Ids |-> TellAfter(R, rows[i], i)]
         /\ accepts' = [i \in Ids |-> AcceptsAfter(R, rows[i], i)]
    BY <1>2 DEF Result
  <1>14. serial' \in serial .. MaxRows
    BY <1>1, <1>3, <1>4, RowsBound
  <1>15. ~Clashes(rows)
    BY <1>2
  <1> HIDE DEF rows
  <1>16. Seeding(R, at)
    BY <1>1, <1>5, <1>6, <1>8, <1>9, <1>10, <1>11, <1>12, <1>13, <1>14, <1>15 DEF Seeding, new
  <1> QED BY <1>16

\* A fixture is missing only if no curated row has its slug, in any deck.
LEMMA MissingHasNoRow ==
    ASSUME Inv, NEW R \in Releases, NEW s \in Missing(R), NEW i \in Ids, Curated(problem[i])
    PROVE  problem[i].slug.base # s
  <1> SUFFICES ASSUME problem[i].slug.base = s PROVE FALSE
    OBVIOUS
  <1> DEFINE row == Relocated(R, problem[i])
  <1>1. s \in FixturesOf[R] /\ ~Found(R, s)
    BY DEF Missing
  <1>2. problem[i] \in ProblemRow /\ Home(problem[i])
    BY RefreshAt DEF Curated
  <1>3. InRelease(R, row) /\ row.slug.base = s
    BY <1>1, <1>2, Refresh DEF Curated
  <1> QED BY <1>1, <1>3 DEF Found

\* The rows after a seed: those that were there are kept and in their homes,
\* and whatever has the slug of a fixture and is curated is the fixture.
LEMMA SeededRow ==
    ASSUME Inv, NEW R \in Releases, NEW at, Seeding(R, at), NEW i \in Ids
    PROVE  /\ problem[i] # None => Kept(problem[i], problem'[i])
           /\ problem'[i] # None => Home(problem'[i])
           /\ (problem[i] # None /\ problem[i].source # "curated") => problem'[i] = problem[i]
           /\ (problem[i] # None /\ problem[i].source = "curated"
                 /\ problem[i].slug.base \notin FixturesOf[R]) => problem'[i] = problem[i]
           /\ (Curated(problem'[i]) /\ problem'[i].slug.base \in FixturesOf[R]) =>
                  problem'[i] = Fixture(R, problem'[i].slug.base) /\ InRelease(R, problem'[i])
           /\ InRelease(R, problem'[i]) =>
                  Curated(problem'[i]) /\ problem'[i].slug.base \in FixturesOf[R]
           /\ (problem[i] = None /\ problem'[i] # None) =>
                  \E s \in Missing(R) : at[s] = i /\ problem'[i] = Fixture(R, s)
  <1>1. CASE problem[i] # None
    <2>1. problem[i] \in ProblemRow /\ Home(problem[i])
      BY <1>1, RefreshAt
    <2>2. problem'[i] = Refreshed(R, Relocated(R, problem[i]))
      BY <1>1 DEF Seeding
    <2>3. Kept(problem[i], problem'[i]) /\ Home(problem'[i])
      BY <2>1, <2>2, Refresh
    <2>4. CASE problem[i].source # "curated"
      BY <1>1, <2>1, <2>2, <2>3, <2>4, Refresh DEF Curated, Kept
    <2>5. CASE problem[i].source = "curated" /\ problem[i].slug.base \notin FixturesOf[R]
      BY <1>1, <2>1, <2>2, <2>3, <2>5, Refresh DEF Curated, Kept
    <2>6. CASE problem[i].source = "curated" /\ problem[i].slug.base \in FixturesOf[R]
      BY <1>1, <2>1, <2>2, <2>3, <2>6, Refresh DEF Curated, Kept
    <2> QED BY <2>4, <2>5, <2>6
  <1>2. CASE problem[i] = None /\ problem'[i] # None
    <2>1. PICK s \in Missing(R) : at[s] = i
      BY <1>2 DEF Seeding
    <2>2. problem'[i] = Fixture(R, s) /\ s \in FixturesOf[R] /\ s \in Slugs
      BY <2>1, ReleasesAreRead DEF Seeding, Missing
    <2>3. /\ Home(Fixture(R, s)) /\ Curated(Fixture(R, s))
          /\ Fixture(R, s).slug = [base |-> s, copy |-> 1]
          /\ Fixture(R, s).deck = TargetDeck(R, s)
      BY <2>2, TargetType, FixtureType
    <2>4. InRelease(R, problem'[i])
      BY <1>2, <2>2, <2>3 DEF InRelease, IsFixture
    <2>5. problem'[i].slug.base = s /\ Curated(problem'[i]) /\ Home(problem'[i])
      BY <2>2, <2>3
    <2> QED BY <1>2, <2>1, <2>2, <2>4, <2>5
  <1>3. CASE problem[i] = None /\ problem'[i] = None
    BY <1>3 DEF Curated, InRelease, IsFixture
  <1> QED BY <1>1, <1>2, <1>3

LEMMA SeedKeeps ==
    ASSUME Inv, NEW R \in Releases, Seed(R)
    PROVE  Inv' /\ Lasting(problem, problem')
  <1>1. PICK at : Seeding(R, at)
    BY SeedShape
  <1>2. /\ Unused(problem, tell, accepts, serial) /\ OneRow(problem)
        /\ Untold(problem, tell) /\ AllCurated(problem, pending)
    BY DEF Inv, TablesOK, TableOK
  <1>3. /\ serial \in Nat /\ tell \in [Ids -> {None, "seed", "gemini"}]
        /\ accepts \in [Ids -> SUBSET Patterns] /\ pending \subseteq Ids
    BY DEF Inv, TypeOK
  <1>4. /\ \A i \in Ids : tell'[i] = TellAfter(R, problem'[i], i)
        /\ \A i \in Ids : accepts'[i] = AcceptsAfter(R, problem'[i], i)
    BY <1>1 DEF Seeding
  <1>5. Lasting(problem, problem') /\ Homed(problem')
    BY <1>1, SeededRow DEF Lasting, Homed
  <1>6. DecksLast(decks, decks')
    BY <1>1 DEF Seeding, DecksLast, Retired
  <1>7. Unused(problem', tell', accepts', serial')
    <2> SUFFICES ASSUME NEW i \in Ids, i > serial'
                 PROVE  problem'[i] = None /\ tell'[i] = None /\ accepts'[i] = {}
      BY DEF Unused
    <2>1. i > serial
      BY <1>1, <1>3, RowsBound DEF Seeding, Ids
    <2>2. problem[i] = None /\ tell[i] = None /\ accepts[i] = {}
      BY <1>2, <2>1 DEF Unused
    <2>3. ~\E s \in Missing(R) : at[s] = i
      BY <1>1, <1>3, RowsBound DEF Seeding, Ids
    <2>4. problem'[i] = None
      BY <1>1, <2>2, <2>3 DEF Seeding
    <2> QED BY <1>4, <2>2, <2>4 DEF TellAfter, AcceptsAfter, InRelease, IsFixture
  <1>8. OneRow(problem')
    <2> SUFFICES ASSUME NEW i \in Ids, NEW j \in Ids, Curated(problem'[i]), Curated(problem'[j]),
                        problem'[i].slug = problem'[j].slug
                 PROVE  i = j
      BY DEF OneRow
    <2>1. CASE problem[i] # None /\ problem[j] # None
      <3>1. Kept(problem[i], problem'[i]) /\ Kept(problem[j], problem'[j])
        BY <1>1, <2>1, SeededRow
      <3> QED BY <1>2, <2>1, <3>1 DEF OneRow, Kept, Curated
    <2>2. ASSUME NEW k \in Ids, NEW l \in Ids, problem[k] = None, problem[l] # None,
                 Curated(problem'[k]), Curated(problem'[l]), problem'[k].slug = problem'[l].slug
          PROVE  FALSE
      <3>1. PICK s \in Missing(R) : at[s] = k /\ problem'[k] = Fixture(R, s)
        BY <1>1, <2>2, SeededRow DEF Curated
      <3>2. problem'[k].slug.base = s
        BY <3>1 DEF Fixture
      <3>3. Kept(problem[l], problem'[l])
        BY <1>1, <2>2, SeededRow
      <3>4. Curated(problem[l]) /\ problem[l].slug.base = s
        BY <2>2, <3>2, <3>3 DEF Kept, Curated
      <3> QED BY <3>4, MissingHasNoRow
    <2>3. CASE problem[i] = None /\ problem[j] = None
      <3>1. PICK s \in Missing(R) : at[s] = i /\ problem'[i] = Fixture(R, s)
        BY <1>1, <2>3, SeededRow DEF Curated
      <3>2. PICK t \in Missing(R) : at[t] = j /\ problem'[j] = Fixture(R, t)
        BY <1>1, <2>3, SeededRow DEF Curated
      <3>3. s = t
        BY <3>1, <3>2 DEF Fixture
      <3> QED BY <3>1, <3>2, <3>3
    <2> QED BY <2>1, <2>2, <2>3
  <1>9. Untold(problem', tell')
    <2> SUFFICES ASSUME NEW i \in Ids, problem'[i] # None, problem'[i].source # "curated"
                 PROVE  tell'[i] = None
      BY DEF Untold
    <2>1. ~InRelease(R, problem'[i])
      BY <1>1, SeededRow DEF Curated
    <2>2. tell[i] = None
      <3>1. CASE problem[i] = None
        <4>1. PICK s \in Missing(R) : problem'[i] = Fixture(R, s)
          BY <1>1, <3>1, SeededRow
        <4> QED BY <4>1 DEF Fixture
      <3>2. CASE problem[i] # None
        <4>1. Kept(problem[i], problem'[i])
          BY <1>1, <3>2, SeededRow
        <4> QED BY <1>2, <3>2, <4>1 DEF Untold, Kept
      <3> QED BY <3>1, <3>2
    <2> QED BY <1>4, <2>1, <2>2 DEF TellAfter
  <1>10. AllCurated(problem', pending')
    <2>1. ASSUME NEW i \in pending PROVE Curated(problem'[i])
      <3>1. Curated(problem[i]) /\ i \in Ids
        BY <1>2, <1>3 DEF AllCurated
      <3>2. Kept(problem[i], problem'[i])
        BY <1>1, <3>1, SeededRow DEF Curated
      <3> QED BY <3>1, <3>2 DEF Curated, Kept
    <2> QED BY <1>1, <2>1 DEF AllCurated, Seeding
  <1>11. TypeOK'
    <2>1. decks' \subseteq Deck
      <3>1. SystemDecks(R) \subseteq Deck
        BY ReleasesAreRead DEF SystemDecks, SystemDeck, Deck
      <3> QED BY <1>1, <3>1 DEF Seeding, Inv, TypeOK
    <2>2. tell' \in [Ids -> {None, "seed", "gemini"}]
      <3>1. \A i \in Ids : TellAfter(R, problem'[i], i) \in {None, "seed", "gemini"}
        BY <1>3 DEF TellAfter
      <3> QED BY <1>1, <3>1 DEF Seeding
    <2>3. accepts' \in [Ids -> SUBSET Patterns]
      <3>1. ASSUME NEW i \in Ids PROVE AcceptsAfter(R, problem'[i], i) \in SUBSET Patterns
        <4>1. InRelease(R, problem'[i]) =>
                  Accepted(R, problem'[i].slug.base) \subseteq Patterns
          BY <1>1, SeededRow, ReleasesAreRead DEF Accepted
        <4> QED BY <1>3, <4>1 DEF AcceptsAfter
      <3> QED BY <1>1, <3>1 DEF Seeding
    <2>4. serial' \in 0 .. MaxRows
      BY <1>1, <1>3, RowsBound DEF Seeding
    <2> QED BY <1>1, <2>1, <2>2, <2>3, <2>4 DEF Seeding, Inv, TypeOK
  <1>12. TablesOK'
    BY <1>1, <1>5, <1>7, <1>8, <1>9, <1>10 DEF TablesOK, TableOK, Seeding
  <1>13. req' = req
    BY <1>1 DEF Seeding
  <1> QED BY <1>5, <1>6, <1>11, <1>12, <1>13, CurateKeeps

-----------------------------------------------------------------------------
(* The invariant holds throughout. *)

LEMMA InitInv ==
    ASSUME Init
    PROVE  Inv
  <1>1. TypeOK
    <2>1. FirstDecks \subseteq Deck
      BY FirstDecksArePersonal DEF Deck
    <2> QED BY <2>1, RowsBound, NoRequestFine DEF Init, TypeOK
  <1>2. TablesOK
    BY DEF Init, TablesOK, TableOK, Unused, Clashes, Homed, OneRow, Curated, Untold, AllCurated
  <1>3. AllFine
    BY NoRequestFine DEF Init, AllFine
  <1> QED BY <1>1, <1>2, <1>3 DEF Inv

LEMMA NextInv ==
    ASSUME Inv, Next
    PROVE  Inv' /\ Lasting(problem, problem')
  <1>1. ASSUME NEW r \in Requests, Ask(r) PROVE Inv' /\ Lasting(problem, problem')
    BY <1>1, AskAddKeeps, AskAgainKeeps, AskCreateKeeps, AskOpenKeeps DEF Ask
  <1>2. ASSUME NEW r \in Requests, Proceed(r) PROVE Inv' /\ Lasting(problem, problem')
    BY <1>2, FindExistingKeeps, ChooseSlugKeeps, InsertProblemKeeps, RecordKeeps,
       InsertDeckKeeps, ShowRowsKeeps, FailKeeps, ResolveKeeps, StoreSourceKeeps,
       RetryResolveKeeps DEF Proceed
  <1>3. ASSUME Curate PROVE Inv' /\ Lasting(problem, problem')
    BY <1>3, StartTellsKeeps, WriteTellKeeps, SeedKeeps, IngestKeeps DEF Curate
  <1> QED BY <1>1, <1>2, <1>3 DEF Next

LEMMA StepInv ==
    ASSUME Inv, [Next]_vars
    PROVE  Inv' /\ Lasting(problem, problem')
  <1>1. CASE Next
    BY <1>1, NextInv
  <1>2. CASE UNCHANGED vars
    <2>1. Inv'
      BY <1>2 DEF vars, table, Inv, TypeOK, TablesOK, TableOK, Unused, Clashes, Homed, OneRow,
                  Untold, AllCurated, AllFine
    <2>2. Lasting(problem, problem')
      BY <1>2, SameRows DEF vars, table, Inv
    <2> QED BY <2>1, <2>2
  <1> QED BY <1>1, <1>2

\* Every state of every behaviour of the bank satisfies the invariant.
THEOREM Invariant == Spec => []Inv
  <1>1. Init => Inv
    BY InitInv
  <1>2. Inv /\ [Next]_vars => Inv'
    BY StepInv
  <1> QED BY <1>1, <1>2, PTL DEF Spec

-----------------------------------------------------------------------------
(* What follows from it. *)

\* Tables and requests keep their types.
THEOREM TypeCorrect == Spec => []TypeOK
  <1>1. Inv => TypeOK
    BY DEF Inv
  <1> QED BY <1>1, Invariant, PTL

\* However releases move patterns between categories, in whatever order and
\* with whatever requests in between, a fixture has one row.
THEOREM FixturesAreNotCopied == Spec => []OneRowPerFixture
  <1>1. Inv => OneRowPerFixture
    BY DEF Inv, TablesOK, TableOK, OneRow, OneRowPerFixture, Rows, Curated
  <1> QED BY <1>1, Invariant, PTL

\* No seed and no script ever takes a learner's problem into the bank.
THEOREM PersonalProblemsStayHome == Spec => []PersonalStaysHome
  <1>1. Inv => PersonalStaysHome
    BY DEF Inv, TablesOK, TableOK, Homed, Home, Untold, PersonalStaysHome, Rows
  <1> QED BY <1>1, Invariant, PTL

\* A problem only ever says what it was added with, its page, or a curated
\* problem of its slug.
THEOREM StatementsAreTheirOwn == Spec => []StatementIsItsOwn
  <1>1. Inv => StatementIsItsOwn
    BY DEF Inv, TablesOK, TableOK, Homed, Home, OwnStatement, StatementIsItsOwn, Rows
  <1> QED BY <1>1, Invariant, PTL

\* An add of a problem that was there ends at the row that was there.
THEOREM RepeatsFindTheirRow == Spec => []RepeatFindsItsRow
  <1>1. Inv => RepeatFindsItsRow
    BY DEF Inv, AllFine, Fine, Remembers, Held, RepeatFindsItsRow
  <1> QED BY <1>1, Invariant, PTL

\* Nobody attempts or sees a problem of another learner.
THEOREM NobodySeesOthersProblems == Spec => []OwnProblemsOnly
  <1>1. Inv => OwnProblemsOnly
    BY DEF Inv, AllFine, Fine, Relies, Held, OwnProblemsOnly
  <1> QED BY <1>1, Invariant, PTL

\* The row of a recorded attempt stays, under its slug, through every seed.
THEOREM HistoryIsKept == Spec => HistoryKept
  <1>1. Inv /\ [Next]_vars =>
          [\A r \in Requests :
              req[r].at \in Recorded =>
                  /\ problem[req[r].row] # None
                  /\ problem'[req[r].row] # None
                  /\ problem'[req[r].row].slug = problem[req[r].row].slug]_vars
    <2> SUFFICES ASSUME Inv, [Next]_vars, NEW r \in Requests, req[r].at \in Recorded
                 PROVE  /\ problem[req[r].row] # None
                        /\ problem'[req[r].row] # None
                        /\ problem'[req[r].row].slug = problem[req[r].row].slug
      OBVIOUS
    <2>1. req[r].row \in Ids /\ problem[req[r].row] # None
      BY DEF Inv, AllFine, Fine, Relies, Held
    <2>2. Lasting(problem, problem')
      BY StepInv
    <2> QED BY <2>1, <2>2 DEF Lasting, Kept
  <1> QED BY <1>1, Invariant, PTL DEF Spec, HistoryKept

-----------------------------------------------------------------------------
(* The bank between two seeds. *)

\* What no step but a seed takes from the bank: curated rows with what hangs
\* off them, rows in their decks, and the system decks.
Standing ==
    /\ \A i \in Ids : Curated(problem[i]) =>
          problem'[i] = problem[i] /\ accepts'[i] = accepts[i]
    /\ \A i \in Ids : tell[i] = "seed" => tell'[i] = "seed"
    /\ \A i \in Ids : problem[i] # None => problem'[i] # None /\ problem'[i].deck = problem[i].deck
    /\ decks \subseteq decks' /\ \A d \in decks' : d \in decks \/ d.owner # None
    /\ seeded' = seeded

LEMMA AskStands ==
    ASSUME NEW r \in Requests, Ask(r)
    PROVE  Standing
  BY DEF Ask, AskAdd, AskAgain, AskCreate, AskOpen, Begin, table, Standing

LEMMA InsertStands ==
    ASSUME Inv, serial < MaxRows, NEW row, problem' = [problem EXCEPT ![serial + 1] = row],
           UNCHANGED <<decks, tell, accepts, seeded>>
    PROVE  Standing
  <1>1. serial + 1 \in Ids /\ problem[serial + 1] = None
    <2>1. serial \in Nat /\ serial + 1 \in Ids
      BY RowsBound DEF Inv, TypeOK, Ids
    <2> QED BY <2>1 DEF Inv, TablesOK, TableOK, Unused
  <1>2. \A i \in Ids : problem[i] # None => problem'[i] = problem[i]
    BY <1>1 DEF Inv, TypeOK
  <1> QED BY <1>2 DEF Standing, Curated

LEMMA StoreStands ==
    ASSUME Inv, NEW r \in Requests, StoreSource(r)
    PROVE  Standing
  <1> DEFINE i == req[r].row
  <1>1. /\ req[r].at = "store" /\ UNCHANGED <<decks, serial, tell, accepts, pending, seeded, kinds>>
    BY DEF StoreSource
  <1>2. i \in Ids /\ problem[i] # None /\ problem[i].source \in {"link", "slug"}
    BY <1>1, RequestTyped DEF Fine, Relies, Held, Recorded
  <1>3. problem[i] \in ProblemRow
    BY <1>2 DEF Inv, TypeOK
  <1>4. \A j \in Ids : j # i => problem'[j] = problem[j]
    BY DEF StoreSource
  <1>5. problem'[i] # None /\ problem'[i].deck = problem[i].deck
    <2>1. Lasting(problem, problem') /\ problem[i].source # "curated"
      BY <1>2, StoreSourceKeeps
    <2> QED BY <1>2, <2>1 DEF Lasting, Kept
  <1>6. ~Curated(problem[i])
    BY <1>2 DEF Curated
  <1> QED BY <1>1, <1>4, <1>5, <1>6 DEF Standing

LEMMA ProceedStands ==
    ASSUME Inv, NEW r \in Requests, Proceed(r)
    PROVE  Standing
  <1>1. CASE InsertProblem(r)
    <2>1. UNCHANGED <<decks, tell, accepts, seeded>>
      BY <1>1 DEF InsertProblem
    <2>2. CASE UNCHANGED problem
      BY <2>1, <2>2 DEF Standing
    <2>3. CASE problem' # problem
      <3>1. serial < MaxRows /\ \E row : problem' = [problem EXCEPT ![serial + 1] = row]
        BY <1>1, <2>3 DEF InsertProblem
      <3> QED BY <2>1, <3>1, InsertStands
    <2> QED BY <2>2, <2>3
  <1>2. CASE StoreSource(r)
    BY <1>2, StoreStands
  <1>3. CASE InsertDeck(r)
    <2>1. req[r].at = "create" /\ UNCHANGED <<problem, tell, accepts, seeded>>
      BY <1>3 DEF InsertDeck
    <2>2. req[r].deck.owner # None
      BY <2>1, RequestTyped, NoneIsNobody DEF Fine, Relies
    <2>3. decks' = decks \/ decks' = decks \cup {req[r].deck}
      BY <1>3 DEF InsertDeck
    <2> QED BY <2>1, <2>2, <2>3 DEF Standing
  <1>4. CASE FindExisting(r) \/ ChooseSlug(r) \/ Record(r) \/ ShowRows(r) \/ Fail(r)
             \/ Resolve(r) \/ RetryResolve(r)
    <2>1. UNCHANGED <<table, seeded>>
      BY <1>4 DEF FindExisting, ChooseSlug, Record, ShowRows, Fail, Resolve, RetryResolve
    <2> QED BY <2>1 DEF table, Standing
  <1> QED BY <1>1, <1>2, <1>3, <1>4 DEF Proceed

LEMMA CurateStands ==
    ASSUME Inv, Curate, ~\E R \in Releases : Seed(R)
    PROVE  Standing
  <1>1. CASE StartTells
    BY <1>1 DEF StartTells, table, Standing
  <1>2. ASSUME NEW i \in Ids, WriteTell(i) PROVE Standing
    <2>1. UNCHANGED <<decks, problem, accepts, seeded>>
      BY <1>2 DEF WriteTell
    <2>2. \A j \in Ids : tell[j] = "seed" => tell'[j] = "seed"
      BY <1>2, NoneIsNobody DEF WriteTell, Drafted, Inv, TypeOK
    <2> QED BY <2>1, <2>2 DEF Standing
  <1>3. ASSUME NEW R \in Releases, NEW s \in Slugs, Ingest(R, s) PROVE Standing
    BY <1>3, InsertStands DEF Ingest
  <1> QED BY <1>1, <1>2, <1>3 DEF Curate

\* A step stands or is a seed.
LEMMA StepStands ==
    ASSUME Inv, [Next]_vars, ~\E R \in Releases : Seed(R)
    PROVE  Standing
  <1>1. CASE UNCHANGED vars
    BY <1>1 DEF vars, table, Standing
  <1> QED BY <1>1, AskStands, ProceedStands, CurateStands DEF Next

LEMMA SeedTells ==
    ASSUME Inv, NEW R \in Releases, Seed(R)
    PROVE  \A i \in Ids : tell[i] = "seed" => tell'[i] = "seed"
  BY SeedShape DEF Seeding, TellAfter

\* No draft and no seed replaces a curator's tell.
THEOREM CuratorsTellsStand == Spec => CuratorsTellStands
  <1>1. Inv /\ [Next]_vars => [\A i \in Ids : tell[i] = "seed" => tell'[i] = "seed"]_vars
    <2> SUFFICES ASSUME Inv, [Next]_vars
                 PROVE  \A i \in Ids : tell[i] = "seed" => tell'[i] = "seed"
      OBVIOUS
    <2> QED BY StepStands, SeedTells DEF Standing
  <1> QED BY <1>1, Invariant, PTL DEF Spec, CuratorsTellStands

-----------------------------------------------------------------------------
(* The bank is that of the release seeded last. *)

Matches(R) ==
    /\ SystemDecks(R) \subseteq decks
    /\ \A s \in FixturesOf[R] :
          \E i \in Ids : /\ problem[i] = Fixture(R, s)
                        /\ accepts[i] = Accepted(R, s)
                        /\ tell[i] = "seed"

\* A system deck without a category is there only for what it holds.
Lived(R) ==
    \A d \in decks : (d.owner = None /\ d.slug \notin DecksOf[R]) =>
        \E i \in Ids : problem[i] # None /\ problem[i].deck = d

Released == seeded # None => Matches(seeded) /\ Lived(seeded)

LEMMA StandingMatches ==
    ASSUME Inv, NEW R \in Releases, Standing, Matches(R)
    PROVE  Matches(R)'
  <1>1. SystemDecks(R) \subseteq decks'
    BY DEF Matches, Standing
  <1>2. ASSUME NEW s \in FixturesOf[R]
        PROVE  \E i \in Ids : /\ problem'[i] = Fixture(R, s)
                             /\ accepts'[i] = Accepted(R, s)
                             /\ tell'[i] = "seed"
    <2>1. PICK i \in Ids : /\ problem[i] = Fixture(R, s)
                           /\ accepts[i] = Accepted(R, s)
                           /\ tell[i] = "seed"
      BY DEF Matches
    <2>2. Curated(problem[i])
      BY <2>1, TargetType, FixtureType, ReleasesAreRead
    <2> QED BY <2>1, <2>2 DEF Standing
  <1> QED BY <1>1, <1>2 DEF Matches

LEMMA StandingLived ==
    ASSUME NEW R \in Releases, Standing, Lived(R)
    PROVE  Lived(R)'
  BY DEF Standing, Lived

LEMMA SeedMatches ==
    ASSUME Inv, NEW R \in Releases, Seed(R)
    PROVE  Matches(R)' /\ Lived(R)'
  <1>1. PICK at : Seeding(R, at)
    BY SeedShape
  <1>2. /\ decks' = (decks \cup SystemDecks(R)) \ Retired(R, problem')
        /\ \A i \in Ids : tell'[i] = TellAfter(R, problem'[i], i)
        /\ \A i \in Ids : accepts'[i] = AcceptsAfter(R, problem'[i], i)
        /\ problem' \in [Ids -> ProblemRow \cup {None}]
    BY <1>1 DEF Seeding
  <1>3. SystemDecks(R) \subseteq decks'
    BY <1>2 DEF Retired, SystemDecks, SystemDeck
  <1>4. ASSUME NEW s \in FixturesOf[R]
        PROVE  \E i \in Ids : /\ problem'[i] = Fixture(R, s)
                             /\ accepts'[i] = Accepted(R, s)
                             /\ tell'[i] = "seed"
    <2>1. \E i \in Ids : problem'[i] = Fixture(R, s)
      <3>1. CASE s \in Missing(R)
        BY <1>1, <3>1 DEF Seeding
      <3>2. CASE s \notin Missing(R)
        <4>1. PICK i \in Ids : /\ InRelease(R, Relocated(R, problem[i]))
                               /\ Relocated(R, problem[i]).slug.base = s
          BY <3>2 DEF Missing, Found
        <4>2. problem[i] # None
          BY <4>1 DEF Relocated, InRelease, IsFixture
        <4>3. problem[i] \in ProblemRow /\ Home(problem[i])
          BY <4>2, RefreshAt
        <4>4. Curated(problem[i])
          <5>1. CASE problem[i].source = "curated"
            BY <4>2, <5>1 DEF Curated
          <5>2. CASE problem[i].source # "curated"
            <6>1. Relocated(R, problem[i]) = problem[i]
              BY <5>2 DEF Relocated
            <6>2. problem[i].deck.owner # None
              BY <4>3, <5>2 DEF Home
            <6> QED BY <4>1, <6>1, <6>2, TargetType DEF InRelease, IsFixture
          <5> QED BY <5>1, <5>2
        <4>5. problem[i].slug.base = s
          <5>1. Relocated(R, problem[i]).slug = problem[i].slug
            BY <4>3 DEF Relocated, ProblemRow
          <5> QED BY <4>1, <5>1
        <4>6. problem'[i] = Fixture(R, s)
          BY <1>1, <4>2, <4>3, <4>4, <4>5, Refresh DEF Seeding, Curated
        <4> QED BY <4>6
      <3> QED BY <3>1, <3>2
    <2>2. PICK i \in Ids : problem'[i] = Fixture(R, s)
      BY <2>1
    <2>3. Curated(Fixture(R, s)) /\ Fixture(R, s).slug.base = s
      <3>1. s \in Slugs /\ TargetDeck(R, s) \in Deck
        BY TargetType, ReleasesAreRead
      <3>2. Curated(Fixture(R, s)) /\ Fixture(R, s).slug = [base |-> s, copy |-> 1]
        BY <3>1, FixtureType
      <3> QED BY <3>2
    <2>4. InRelease(R, problem'[i])
      BY <1>1, <2>2, <2>3, SeededRow
    <2>5. tell'[i] = "seed" /\ accepts'[i] = Accepted(R, s)
      BY <1>2, <2>2, <2>3, <2>4 DEF TellAfter, AcceptsAfter
    <2> QED BY <2>2, <2>5
  <1>5. Matches(R)'
    BY <1>3, <1>4 DEF Matches
  <1>6. Lived(R)'
    <2> SUFFICES ASSUME NEW d \in decks', d.owner = None, d.slug \notin DecksOf[R]
                 PROVE  \E i \in Ids : problem'[i] # None /\ problem'[i].deck = d
      BY DEF Lived
    <2>1. d \notin SystemDecks(R)
      BY DEF SystemDecks, SystemDeck
    <2>2. d \in decks /\ d \notin Retired(R, problem')
      BY <1>2, <2>1
    <2> QED BY <2>2 DEF Retired
  <1> QED BY <1>5, <1>6

LEMMA StepReleased ==
    ASSUME Inv, Released, [Next]_vars
    PROVE  Released'
  <1>1. ASSUME NEW R \in Releases, Seed(R) PROVE Released'
    <2>1. Matches(R)' /\ Lived(R)' /\ seeded' = R
      BY <1>1, SeedMatches DEF Seed
    <2> QED BY <2>1 DEF Released
  <1>2. CASE ~\E R \in Releases : Seed(R)
    <2>1. Standing
      BY <1>2, StepStands
    <2>2. seeded' = seeded
      BY <2>1 DEF Standing
    <2>3. CASE seeded # None
      <3>1. seeded \in Releases
        BY <2>3 DEF Inv, TypeOK
      <3>2. PICK R \in Releases : R = seeded
        BY <3>1
      <3>3. Matches(R) /\ Lived(R)
        BY <2>3, <3>2 DEF Released
      <3>4. Matches(R)' /\ Lived(R)'
        BY <2>1, <3>3, StandingMatches, StandingLived
      <3> QED BY <2>2, <3>2, <3>4 DEF Released, Matches, Lived
    <2>4. CASE seeded = None
      BY <2>2, <2>4 DEF Released
    <2> QED BY <2>3, <2>4
  <1> QED BY <1>1, <1>2

\* From the first seed on, every fixture of the release seeded last has its row,
\* and its deck outlives every step: what the next two theorems rest on.
LEMMA AlwaysReleased == Spec => [](Inv /\ Released)
  <1>1. Init => Inv /\ Released
    BY InitInv DEF Init, Released
  <1>2. (Inv /\ Released) /\ [Next]_vars => (Inv /\ Released)'
    BY StepInv, StepReleased
  <1> QED BY <1>1, <1>2, PTL DEF Spec

\* Until the next seed the bank is that of the release seeded last, whatever
\* it held before and whatever requests, evaluations and scripts do.
THEOREM TheBankMatches == Spec => []BankMatchesRelease
  <1>1. Inv /\ Released => BankMatchesRelease
    <2> SUFFICES ASSUME Inv, Released, seeded # None
                 PROVE  /\ SystemDecks(seeded) \subseteq decks
                        /\ \A s \in FixturesOf[seeded] :
                              \E i \in Rows : /\ problem[i] = Fixture(seeded, s)
                                             /\ accepts[i] = Accepted(seeded, s)
                                             /\ tell[i] = "seed"
      BY DEF BankMatchesRelease
    <2>1. seeded \in Releases /\ Matches(seeded)
      BY DEF Inv, TypeOK, Released
    <2>2. \A s \in FixturesOf[seeded] : Fixture(seeded, s) # None
      BY <2>1, TargetType, FixtureType, ReleasesAreRead
    <2> QED BY <2>1, <2>2 DEF Matches, Rows
  <1> QED BY <1>1, AlwaysReleased, PTL

\* A release whose bank is there finds every fixture, moves and refreshes
\* nothing, and retires nothing.
LEMMA NothingMissing ==
    ASSUME Inv, NEW R \in Releases, Matches(R)
    PROVE  Missing(R) = {}
  <1> SUFFICES ASSUME NEW s \in FixturesOf[R] PROVE Found(R, s)
    BY DEF Missing
  <1>1. PICK i \in Ids : problem[i] = Fixture(R, s)
    BY DEF Matches
  <1>2. s \in Slugs /\ TargetDeck(R, s) \in Deck
    BY TargetType, ReleasesAreRead
  <1>3. /\ Fixture(R, s) \in ProblemRow /\ Home(Fixture(R, s)) /\ Curated(Fixture(R, s))
        /\ Fixture(R, s).slug = [base |-> s, copy |-> 1]
    BY <1>2, FixtureType
  <1> DEFINE row == Fixture(R, s)
  <1> HIDE DEF row
  <1>4. InRelease(R, Relocated(R, row)) /\ Relocated(R, row).slug.base = s
    BY <1>3, Refresh DEF Curated, row
  <1> QED BY <1>1, <1>4 DEF Found, row

LEMMA NothingMoves ==
    ASSUME Inv, NEW R \in Releases, Matches(R), NEW i \in Ids
    PROVE  /\ Refreshed(R, Relocated(R, problem[i])) = problem[i]
           /\ TellAfter(R, problem[i], i) = tell[i]
           /\ AcceptsAfter(R, problem[i], i) = accepts[i]
  <1>1. CASE problem[i] = None
    BY <1>1 DEF Relocated, Refreshed, InRelease, IsFixture, TellAfter, AcceptsAfter
  <1>2. CASE problem[i] # None
    <2>1. problem[i] \in ProblemRow /\ Home(problem[i])
      BY <1>2, RefreshAt
    <2>2. CASE problem[i].source = "curated" /\ problem[i].slug.base \in FixturesOf[R]
      <3> DEFINE s == problem[i].slug.base
      <3>1. PICK j \in Ids : /\ problem[j] = Fixture(R, s)
                             /\ accepts[j] = Accepted(R, s)
                             /\ tell[j] = "seed"
        BY <2>2 DEF Matches
      <3>2. s \in Slugs /\ TargetDeck(R, s) \in Deck
        BY <2>2, TargetType, ReleasesAreRead
      <3>3. Curated(Fixture(R, s)) /\ Fixture(R, s).slug = [base |-> s, copy |-> 1]
        BY <3>2, FixtureType
      <3>4. problem[i].slug = [base |-> s, copy |-> 1]
        <4>1. problem[i].slug \in Slug /\ problem[i].slug.copy = 1
          BY <2>1, <2>2 DEF ProblemRow, Home
        <4> QED BY <4>1 DEF Slug
      <3>5. i = j
        BY <1>2, <2>2, <3>1, <3>3, <3>4 DEF Inv, TablesOK, TableOK, OneRow, Curated
      <3>6. Refreshed(R, Relocated(R, problem[i])) = Fixture(R, s)
        BY <2>1, <2>2, Refresh
      <3> QED BY <3>1, <3>5, <3>6 DEF TellAfter, AcceptsAfter
    <2>3. CASE ~(problem[i].source = "curated" /\ problem[i].slug.base \in FixturesOf[R])
      <3>1. /\ Refreshed(R, Relocated(R, problem[i])) = problem[i]
            /\ ~InRelease(R, Refreshed(R, Relocated(R, problem[i])))
        <4>1. CASE problem[i].source = "curated"
          BY <2>1, <2>3, <4>1, Refresh
        <4>2. CASE problem[i].source # "curated"
          BY <2>1, <4>2, Refresh
        <4> QED BY <4>1, <4>2
      <3> QED BY <3>1 DEF TellAfter, AcceptsAfter
    <2> QED BY <2>2, <2>3
  <1> QED BY <1>1, <1>2

LEMMA RerunSame ==
    ASSUME Inv, NEW R \in Releases, Matches(R), Lived(R)
    PROVE  Outcomes(R) = {[decks |-> decks, problem |-> problem, tell |-> tell, accepts |-> accepts]}
  <1> DEFINE now == [decks |-> decks, problem |-> problem, tell |-> tell, accepts |-> accepts]
             none == [s \in {} |-> serial]
  <1>1. Missing(R) = {} /\ Cardinality({}) = 0
    BY NothingMissing, FS_EmptySet
  <1>2. none \in Numberings({})
    BY DEF Numberings
  <1>3. ASSUME NEW at \in Numberings({}) PROVE Upserted(R, at) = problem
    <2>1. DOMAIN at = {}
      BY DEF Numberings
    <2>2. Upserted(R, at) = [i \in Ids |-> Refreshed(R, Relocated(R, problem[i]))]
      BY <2>1 DEF Upserted
    <2>3. problem = [i \in Ids |-> problem[i]]
      BY DEF Inv, TypeOK
    <2> QED BY <2>2, <2>3, NothingMoves
  <1>4. Retired(R, problem) = {}
    BY DEF Retired, Lived
  <1>5. Result(R, problem, {}) = now
    <2>1. (decks \cup SystemDecks(R)) \ {} = decks
      BY DEF Matches
    <2>2. Cascade(problem, {}) = problem
      BY DEF Cascade, Inv, TypeOK
    <2>3. [i \in Ids |-> TellAfter(R, problem[i], i)] = tell
      BY NothingMoves DEF Inv, TypeOK
    <2>4. [i \in Ids |-> AcceptsAfter(R, problem[i], i)] = accepts
      BY NothingMoves DEF Inv, TypeOK
    <2> QED BY <2>1, <2>2, <2>3, <2>4 DEF Result
  <1>6. ~Clashes(problem)
    BY DEF Inv, TablesOK, TableOK
  <1>7. now \in Outcomes(R)
    BY <1>1, <1>2, <1>3, <1>4, <1>5, <1>6 DEF Outcomes
  <1>8. ASSUME NEW new \in Outcomes(R) PROVE new = now
    <2>1. PICK at \in Numberings({}) :
              new = Result(R, Upserted(R, at), Retired(R, Upserted(R, at)))
      BY <1>1 DEF Outcomes
    <2> QED BY <1>3, <1>4, <1>5, <2>1
  <1> HIDE DEF now
  <1>9. Outcomes(R) = {now}
    BY <1>7, <1>8
  <1> QED BY <1>9 DEF now

\* Seeding the release that is there once more is no change at all.
THEOREM SeedIsIdempotent == Spec => []RerunChangesNothing
  <1>1. Inv /\ Released => RerunChangesNothing
    <2> SUFFICES ASSUME Inv, Released, seeded # None
                 PROVE  Outcomes(seeded) =
                            {[decks |-> decks, problem |-> problem, tell |-> tell, accepts |-> accepts]}
      BY DEF RerunChangesNothing
    <2>1. seeded \in Releases /\ Matches(seeded) /\ Lived(seeded)
      BY DEF Inv, TypeOK, Released
    <2> QED BY <2>1, RerunSame
  <1> QED BY <1>1, AlwaysReleased, PTL

-----------------------------------------------------------------------------
(* Decks of one name. *)

\* The requests after a step of p: the others are what they were, and p is not
\* told it created a deck.
NotCreating(p) ==
    /\ req'[p].at # "created"
    /\ \A r \in Requests \ {p} : req'[r] = req[r]

LEMMA AskCreatesNothing ==
    ASSUME Inv, NEW p \in Requests, Ask(p)
    PROVE  NotCreating(p)
  <1> USE DEF Begin, NoRequest, NotCreating, Inv, TypeOK
  <1>1. ASSUME NEW u \in Users, NEW d \in Deck, NEW x \in Inputs, AskAdd(p, u, d, x)
        PROVE  NotCreating(p)
    BY <1>1 DEF AskAdd
  <1>2. ASSUME NEW u \in Users, NEW i \in Ids, AskAgain(p, u, i) PROVE NotCreating(p)
    BY <1>2 DEF AskAgain
  <1>3. ASSUME NEW u \in Users, NEW n \in DeckNames, AskCreate(p, u, n) PROVE NotCreating(p)
    BY <1>3 DEF AskCreate
  <1>4. ASSUME NEW u \in Users, NEW d \in Deck, AskOpen(p, u, d) PROVE NotCreating(p)
    BY <1>4 DEF AskOpen
  <1> QED BY <1>1, <1>2, <1>3, <1>4 DEF Ask

LEMMA ProceedCreatesNothing ==
    ASSUME Inv, NEW p \in Requests, Proceed(p), ~InsertDeck(p)
    PROVE  NotCreating(p)
  <1> USE DEF Finish, NotCreating, Inv, TypeOK
  <1>1. CASE FindExisting(p)
    <2>1. CASE Finish(p, "slugs")
      BY <2>1
    <2>2. ASSUME NEW i, NEW n, req' = [req EXCEPT ![p].at = "record", ![p].row = i, ![p].needs = n]
          PROVE  NotCreating(p)
      BY <2>2
    <2> QED BY <1>1, <2>1, <2>2 DEF FindExisting
  <1>2. CASE ChooseSlug(p)
    BY <1>2 DEF ChooseSlug
  <1>3. CASE InsertProblem(p)
    <2>1. CASE Finish(p, "failed")
      BY <2>1
    <2>2. ASSUME NEW i, NEW n, req' = [req EXCEPT ![p].at = "record", ![p].row = i, ![p].needs = n]
          PROVE  NotCreating(p)
      BY <2>2
    <2> QED BY <1>3, <2>1, <2>2 DEF InsertProblem
  <1>4. CASE Record(p)
    <2>1. ASSUME NEW how \in {"done", "queued", "failed"}, Finish(p, how) PROVE NotCreating(p)
      BY <2>1
    <2> HIDE DEF Finish
    <2> QED BY <1>4, <2>1 DEF Record
  <1>5. CASE ShowRows(p)
    BY <1>5 DEF ShowRows
  <1>6. CASE Fail(p)
    BY <1>6 DEF Fail
  <1>7. CASE Resolve(p)
    <2>1. CASE Finish(p, "done")
      BY <2>1
    <2>2. ASSUME NEW t, req' = [req EXCEPT ![p].at = "store", ![p].text = t] PROVE NotCreating(p)
      BY <2>2
    <2> HIDE DEF NotCreating
    <2> QED BY <1>7, <2>1, <2>2 DEF Resolve
  <1>8. CASE StoreSource(p)
    BY <1>8 DEF StoreSource
  <1>9. CASE RetryResolve(p)
    BY <1>9 DEF RetryResolve
  <1> QED BY <1>1, <1>2, <1>3, <1>4, <1>5, <1>6, <1>7, <1>8, <1>9 DEF Proceed

LEMMA CurateAsksNothing ==
    ASSUME Curate
    PROVE  req' = req
  BY DEF Curate, StartTells, WriteTell, Seed, Ingest

\* The insert that tells p it created a deck found no deck of that name, while
\* whoever else was told so has one.
LEMMA InsertIsNew ==
    ASSUME Inv, NEW p \in Requests, InsertDeck(p), DeckCreatedOnce
    PROVE  DeckCreatedOnce'
  <1>1. /\ \A r \in Requests \ {p} : req'[r] = req[r]
        /\ req'[p].deck = req[p].deck
        /\ req'[p].at = "created" => req[p].deck \notin decks
    BY DEF InsertDeck, Finish, DeckIsNew, Inv, TypeOK, Request
  <1>2. \A r \in Requests : req[r].at = "created" => req[r].deck \in decks
    BY DEF Inv, AllFine, Fine, Relies
  <1> QED BY <1>1, <1>2 DEF DeckCreatedOnce

LEMMA StepCreatesOnce ==
    ASSUME Inv, [Next]_vars, DeckCreatedOnce
    PROVE  DeckCreatedOnce'
  <1>1. ASSUME NEW p \in Requests, NotCreating(p) PROVE DeckCreatedOnce'
    BY <1>1 DEF NotCreating, DeckCreatedOnce
  <1>2. ASSUME req' = req PROVE DeckCreatedOnce'
    BY <1>2 DEF DeckCreatedOnce
  <1>3. CASE Next
    <2>1. ASSUME NEW p \in Requests, Ask(p) PROVE DeckCreatedOnce'
      BY <1>1, <2>1, AskCreatesNothing
    <2>2. ASSUME NEW p \in Requests, Proceed(p) PROVE DeckCreatedOnce'
      BY <1>1, <2>2, ProceedCreatesNothing, InsertIsNew
    <2>3. CASE Curate
      BY <1>2, <2>3, CurateAsksNothing
    <2> QED BY <1>3, <2>1, <2>2, <2>3 DEF Next
  <1>4. CASE UNCHANGED vars
    BY <1>2, <1>4 DEF vars
  <1> QED BY <1>3, <1>4

\* Of any number of requests for a deck of one name one creates it.
THEOREM DecksAreCreatedOnce == Spec => []DeckCreatedOnce
  <1>1. Init => Inv /\ DeckCreatedOnce
    BY InitInv DEF Init, NoRequest, DeckCreatedOnce
  <1>2. (Inv /\ DeckCreatedOnce) /\ [Next]_vars => (Inv /\ DeckCreatedOnce)'
    BY StepInv, StepCreatesOnce
  <1> QED BY <1>1, <1>2, PTL DEF Spec

-----------------------------------------------------------------------------
(* One problem, one row. *)

\* A request that added an input holds a row of the slug of that input.
Reaches(q, P) ==
    (q.at \in Held /\ q.input # None) =>
        P[q.row].ref \in Inputs /\ P[q.row].slug.base = SlugOf[q.input]

AllReach == \A r \in Requests : Reaches(req[r], problem)

\* Every later step leaves the slug and the input of a row as they are.
LEMMA ReachesLasts ==
    ASSUME Inv, NEW r \in Requests, Reaches(req[r], problem), Lasting(problem, problem'),
           NEW q, q.at \in Held => /\ req[r].at \in Held
                                   /\ q.input = req[r].input /\ q.row = req[r].row
    PROVE  Reaches(q, problem')
  <1>1. req[r].at \in Held => req[r].row \in Ids /\ problem[req[r].row] # None
    BY DEF Inv, AllFine, Fine, Relies
  <1> QED BY <1>1 DEF Reaches, Lasting, Kept

LEMMA AskReaches ==
    ASSUME Inv, NEW p \in Requests, Ask(p)
    PROVE  /\ Reaches(req'[p], problem')
           /\ \A r \in Requests \ {p} : req'[r] = req[r]
  <1> USE DEF Begin, NoRequest, Reaches, Held, Recorded, Inv, TypeOK
  <1>1. ASSUME NEW u \in Users, NEW d \in Deck, NEW x \in Inputs, AskAdd(p, u, d, x)
        PROVE  Reaches(req'[p], problem') /\ \A r \in Requests \ {p} : req'[r] = req[r]
    BY <1>1 DEF AskAdd
  <1>2. ASSUME NEW u \in Users, NEW i \in Ids, AskAgain(p, u, i)
        PROVE  Reaches(req'[p], problem') /\ \A r \in Requests \ {p} : req'[r] = req[r]
    BY <1>2 DEF AskAgain
  <1>3. ASSUME NEW u \in Users, NEW n \in DeckNames, AskCreate(p, u, n)
        PROVE  Reaches(req'[p], problem') /\ \A r \in Requests \ {p} : req'[r] = req[r]
    BY <1>3 DEF AskCreate
  <1>4. ASSUME NEW u \in Users, NEW d \in Deck, AskOpen(p, u, d)
        PROVE  Reaches(req'[p], problem') /\ \A r \in Requests \ {p} : req'[r] = req[r]
    BY <1>4 DEF AskOpen
  <1> QED BY <1>1, <1>2, <1>3, <1>4 DEF Ask

\* The row an add finds is a learner's, as its deck is, and of its slug.
LEMMA FindReaches ==
    ASSUME Inv, NEW p \in Requests, FindExisting(p)
    PROVE  Reaches(req'[p], problem')
  <1>1. req[p] \in Request /\ req \in [Requests -> Request]
    BY RequestTyped DEF Inv, TypeOK
  <1>2. CASE Finish(p, "slugs")
    BY <1>1, <1>2 DEF Finish, Reaches, Held, Recorded
  <1>3. ASSUME NEW i \in Existing(req[p].deck, req[p].input),
               req' = [req EXCEPT ![p].at = "record", ![p].row = i,
                                  ![p].needs = NeedsSourceResolution(problem[i])],
               req[p].at = "find", problem' = problem
        PROVE  Reaches(req'[p], problem')
    <2>1. /\ req[p].input \in Inputs /\ req[p].deck.owner \in Users
          /\ req'[p].row = i /\ req'[p].input = req[p].input
      BY <1>1, <1>3 DEF Inv, AllFine, Fine, Relies, Adding
    <2>2. /\ i \in Ids /\ problem[i] # None /\ problem[i].deck = req[p].deck
          /\ problem[i].slug.base = SlugOf[req[p].input]
      BY <1>3 DEF Existing, Carries, Identity
    <2>3. problem[i].ref \in Inputs
      BY <2>1, <2>2, NoneIsNobody DEF Inv, TablesOK, TableOK, Homed, Home
    <2> QED BY <1>3, <2>1, <2>2, <2>3 DEF Reaches
  <1> QED BY <1>2, <1>3 DEF FindExisting, table

LEMMA InsertReaches ==
    ASSUME Inv, NEW p \in Requests, InsertProblem(p)
    PROVE  Reaches(req'[p], problem')
  <1>1. /\ req[p] \in Request /\ req \in [Requests -> Request]
        /\ serial \in Nat /\ problem \in [Ids -> ProblemRow \cup {None}]
    BY RequestTyped DEF Inv, TypeOK
  <1>2. CASE Finish(p, "failed")
    BY <1>1, <1>2 DEF Finish, Reaches, Held, Recorded
  <1>3. ASSUME NEW row, row.ref = req[p].input, row.slug = req[p].slug, req[p].at = "insert",
               serial < MaxRows, problem' = [problem EXCEPT ![serial + 1] = row],
               NEW n, req' = [req EXCEPT ![p].at = "record", ![p].row = serial + 1, ![p].needs = n]
        PROVE  Reaches(req'[p], problem')
    <2>1. req[p].input \in Inputs /\ req[p].slug.base = SlugOf[req[p].input]
      BY <1>3 DEF Inv, AllFine, Fine, Relies, Adding
    <2>2. serial + 1 \in Ids
      BY <1>1, <1>3, RowsBound DEF Ids
    <2>3. problem'[serial + 1] = row
      BY <1>1, <1>3, <2>2
    <2>4. req'[p].row = serial + 1 /\ req'[p].input = req[p].input
      BY <1>1, <1>3
    <2> QED BY <1>3, <2>1, <2>3, <2>4 DEF Reaches
  <1> QED BY <1>2, <1>3 DEF InsertProblem

LEMMA ProceedReaches ==
    ASSUME Inv, NEW p \in Requests, Proceed(p), Reaches(req[p], problem),
           Lasting(problem, problem')
    PROVE  Reaches(req'[p], problem')
  <1> DEFINE Same == req'[p].at \in Held => /\ req[p].at \in Held
                                            /\ req'[p].input = req[p].input
                                            /\ req'[p].row = req[p].row
  <1>1. req[p] \in Request /\ req \in [Requests -> Request]
    BY RequestTyped DEF Inv, TypeOK
  <1>2. CASE FindExisting(p)
    BY <1>2, FindReaches
  <1>3. CASE InsertProblem(p)
    BY <1>3, InsertReaches
  <1>4. ASSUME Same PROVE Reaches(req'[p], problem')
    BY <1>4, ReachesLasts
  <1>5. ASSUME NEW how, how \in Held => req[p].at \in Held, Finish(p, how) PROVE Same
    BY <1>1, <1>5 DEF Finish
  <1>6. CASE ChooseSlug(p)
    BY <1>1, <1>4, <1>6 DEF ChooseSlug, Held, Recorded
  <1>7. CASE Record(p)
    BY <1>4, <1>5, <1>7 DEF Record, Held
  <1>8. CASE InsertDeck(p)
    BY <1>4, <1>5, <1>8 DEF InsertDeck, Held, Recorded
  <1>9. CASE ShowRows(p)
    BY <1>1, <1>4, <1>9 DEF ShowRows, Held, Recorded
  <1>10. CASE Fail(p)
    BY <1>4, <1>5, <1>10 DEF Fail, Held, Recorded
  <1>11. CASE Resolve(p)
    <2>1. req[p].at \in Held
      BY <1>11 DEF Resolve, Held, Recorded
    <2>2. ASSUME NEW t, req' = [req EXCEPT ![p].at = "store", ![p].text = t] PROVE Same
      BY <1>1, <2>1, <2>2
    <2>3. ASSUME Finish(p, "done") PROVE Same
      BY <1>5, <2>1, <2>3
    <2> HIDE DEF Same
    <2> QED BY <1>4, <1>11, <2>2, <2>3 DEF Resolve
  <1>12. CASE StoreSource(p)
    BY <1>4, <1>5, <1>12 DEF StoreSource, Held, Recorded
  <1>13. CASE RetryResolve(p)
    BY <1>1, <1>4, <1>13 DEF RetryResolve, Held, Recorded
  <1> QED BY <1>2, <1>3, <1>6, <1>7, <1>8, <1>9, <1>10, <1>11, <1>12, <1>13 DEF Proceed

LEMMA StepReaches ==
    ASSUME Inv, [Next]_vars, AllReach
    PROVE  AllReach'
  <1>1. Lasting(problem, problem')
    BY StepInv
  <1>2. ASSUME NEW r \in Requests, req'[r] = req[r] PROVE Reaches(req'[r], problem')
    BY <1>1, <1>2, ReachesLasts DEF AllReach
  <1>3. ASSUME NEW p \in Requests, Ask(p) PROVE AllReach'
    BY <1>2, <1>3, AskReaches DEF AllReach
  <1>4. ASSUME NEW p \in Requests, Proceed(p) PROVE AllReach'
    <2>1. \A r \in Requests \ {p} : req'[r] = req[r]
      <3>1. CASE InsertDeck(p)
        BY <3>1 DEF InsertDeck, Finish, Inv, TypeOK
      <3> QED BY <1>4, <3>1, ProceedCreatesNothing DEF NotCreating
    <2> QED BY <1>1, <1>2, <1>4, <2>1, ProceedReaches DEF AllReach
  <1>5. ASSUME req' = req PROVE AllReach'
    BY <1>2, <1>5 DEF AllReach
  <1>6. CASE Next
    BY <1>3, <1>4, <1>5, <1>6, CurateAsksNothing DEF Next
  <1> QED BY <1>5, <1>6 DEF vars

\* A learner's rows carry the slug of their input, the index allows one row of
\* a slug, and an add ends at a row of its slug.  Where slugs tell the same
\* problems apart as the inputs do (ProblemInput), a problem has one row in a
\* deck and an add ends at its own problem.
THEOREM ProblemsAreNotDoubled ==
    ASSUME \A x, y \in Inputs : About[x] = About[y] <=> SlugOf[x] = SlugOf[y]
    PROVE  Spec => []OneProblemOneRow
  <1>1. Inv /\ AllReach => OneProblemOneRow
    <2> SUFFICES ASSUME Inv, AllReach PROVE OneProblemOneRow
      OBVIOUS
    <2>1. ASSUME NEW i \in Rows, NEW j \in Rows,
                 problem[i].source # "curated", problem[j].source # "curated",
                 problem[i].deck = problem[j].deck,
                 About[problem[i].ref] = About[problem[j].ref],
                 problem[i].slug.copy = 1, problem[j].slug.copy = 1
          PROVE  i = j
      <3>1. /\ i \in Ids /\ j \in Ids /\ problem[i] # None /\ problem[j] # None
            /\ ~Clashes(problem) /\ Home(problem[i]) /\ Home(problem[j])
            /\ problem[i].slug \in Slug /\ problem[j].slug \in Slug
        BY DEF Rows, Inv, TypeOK, TablesOK, TableOK, Homed, ProblemRow
      <3>2. problem[i].slug.base = problem[j].slug.base
        BY <2>1, <3>1 DEF Home
      <3>3. problem[i].slug = problem[j].slug
        BY <2>1, <3>1, <3>2 DEF Slug
      <3> QED BY <2>1, <3>1, <3>3 DEF Clashes
    <2>2. ASSUME NEW r \in Requests, req[r].at \in Recorded, req[r].input # None
          PROVE  About[problem[req[r].row].ref] = About[req[r].input]
      <3>1. req[r].at \in Held /\ req[r].input \in Inputs
        BY <2>2, RequestTyped DEF Held, Request
      <3>2. /\ problem[req[r].row] # None /\ req[r].row \in Ids
            /\ problem[req[r].row].ref \in Inputs
            /\ problem[req[r].row].slug.base = SlugOf[req[r].input]
        BY <2>2, <3>1 DEF AllReach, Reaches, Inv, AllFine, Fine, Relies
      <3>3. problem[req[r].row].slug.base = SlugOf[problem[req[r].row].ref]
        BY <3>2, NoneIsNobody DEF Inv, TablesOK, TableOK, Homed, Home
      <3> QED BY <3>1, <3>2, <3>3
    <2> QED BY <2>1, <2>2 DEF OneProblemOneRow
  <1>2. Init => Inv /\ AllReach
    BY InitInv DEF Init, NoRequest, AllReach, Reaches, Held, Recorded
  <1>3. (Inv /\ AllReach) /\ [Next]_vars => (Inv /\ AllReach)'
    BY StepInv, StepReaches
  <1> QED BY <1>1, <1>2, <1>3, PTL DEF Spec

-----------------------------------------------------------------------------
(* Suffixed copies. *)

\* No two adds to one deck are in flight at once.
AddsApart ==
    \A q, r \in Requests :
        (q # r /\ req[q].at \in Adding /\ req[r].at \in Adding) => req[q].deck # req[r].deck

\* No problem was stored under a suffixed slug.
NoCopies == \A i \in Rows : problem[i].slug.copy = 1

Plain(i) == problem[i] # None => problem[i].slug.copy = 1

\* An add that found no row still has the plain slug free, and chooses it.
Free(r) ==
    /\ req[r].at \in {"slugs", "insert"} => ~Taken(req[r].deck, Identity(req[r].input).slug)
    /\ req[r].at = "insert" => req[r].slug = Identity(req[r].input).slug

FreeInv == (\A i \in Ids : Plain(i)) /\ (\A r \in Requests : Free(r))

\* The rows learners have after a step are rows they had.
NothingAdded ==
    \A i \in Ids : (problem'[i] # None /\ problem'[i].source # "curated") =>
        /\ problem[i] # None
        /\ problem'[i].deck = problem[i].deck /\ problem'[i].slug = problem[i].slug

LEMMA SeedAddsNothing ==
    ASSUME Inv, NEW R \in Releases, Seed(R), NEW i \in Ids, problem[i] = None, problem'[i] # None
    PROVE  problem'[i].source = "curated"
  <1>1. PICK at : Seeding(R, at)
    BY SeedShape
  <1>2. PICK s \in Missing(R) : at[s] = i
    BY <1>1 DEF Seeding
  <1>3. problem'[i] = Fixture(R, s)
    BY <1>1, <1>2 DEF Seeding
  <1> QED BY <1>3 DEF Fixture

LEMMA IngestAddsNothing ==
    ASSUME Inv, NEW R \in Releases, NEW s \in Slugs, Ingest(R, s),
           NEW i \in Ids, problem[i] = None, problem'[i] # None
    PROVE  problem'[i].source = "curated"
  <1>1. problem' = [problem EXCEPT ![serial + 1] = Fixture(R, s)]
    BY DEF Ingest
  <1>2. problem'[i] = Fixture(R, s)
    BY <1>1 DEF Inv, TypeOK
  <1> QED BY <1>2 DEF Fixture

\* Only the insert of an add brings a learner's row.
LEMMA StepAddsNothing ==
    ASSUME Inv, [Next]_vars, ~\E r \in Requests : InsertProblem(r)
    PROVE  NothingAdded
  <1>1. Lasting(problem, problem')
    BY StepInv
  <1>2. ASSUME NEW i \in Ids, problem[i] = None, problem'[i] # None
        PROVE  problem'[i].source = "curated"
    <2>1. CASE UNCHANGED problem
      BY <1>2, <2>1
    <2>2. ASSUME NEW r \in Requests, StoreSource(r) PROVE FALSE
      BY <1>2, <2>2 DEF StoreSource
    <2>3. ASSUME NEW r \in Requests, Ask(r) PROVE UNCHANGED problem
      BY <2>3 DEF Ask, AskAdd, AskAgain, AskCreate, AskOpen, Begin, table
    <2>4. ASSUME NEW r \in Requests, Proceed(r), ~StoreSource(r) PROVE UNCHANGED problem
      BY <2>4 DEF Proceed, FindExisting, ChooseSlug, Record, InsertDeck, ShowRows, Fail, Resolve,
                  RetryResolve, table
    <2>5. CASE StartTells \/ \E j \in Ids : WriteTell(j)
      BY <2>1, <2>5 DEF StartTells, WriteTell, table
    <2>6. ASSUME NEW R \in Releases, Seed(R) PROVE problem'[i].source = "curated"
      BY <1>2, <2>6, SeedAddsNothing
    <2>7. ASSUME NEW R \in Releases, NEW s \in Slugs, Ingest(R, s)
          PROVE  problem'[i].source = "curated"
      BY <1>2, <2>7, IngestAddsNothing
    <2>8. CASE UNCHANGED vars
      BY <2>1, <2>8 DEF vars, table
    <2> QED BY <2>1, <2>2, <2>3, <2>4, <2>5, <2>6, <2>7, <2>8 DEF Next, Curate
  <1> QED BY <1>1, <1>2 DEF NothingAdded, Lasting, Kept

\* A slug that was free in a learner's deck still is.
LEMMA FreeStays ==
    ASSUME Inv, Inv', NothingAdded, NEW d, d.owner # None, NEW slug, ~Taken(d, slug)
    PROVE  ~Taken(d, slug)'
  <1> SUFFICES ASSUME NEW i \in Ids, problem'[i] # None, problem'[i].deck = d,
                      problem'[i].slug = slug
               PROVE  FALSE
    BY DEF Taken, Carries
  <1>1. problem'[i].source # "curated"
    BY DEF Inv, TablesOK, TableOK, Homed, Home
  <1> QED BY <1>1 DEF NothingAdded, Taken, Carries

LEMMA PlainStays ==
    ASSUME Inv, Inv', NothingAdded, \A i \in Ids : Plain(i), NEW i \in Ids
    PROVE  Plain(i)'
  <1> SUFFICES ASSUME problem'[i] # None PROVE problem'[i].slug.copy = 1
    BY DEF Plain
  <1>1. Home(problem'[i])
    BY DEF Inv, TablesOK, TableOK, Homed
  <1> QED BY <1>1 DEF Home, NothingAdded, Plain

\* A request in flight to a learner's deck.
LEMMA AddingDeck ==
    ASSUME Inv, NEW r \in Requests, req[r].at \in Adding
    PROVE  req[r].deck.owner # None /\ req[r].input \in Inputs
  BY RequestTyped, NoneIsNobody DEF Fine, Relies

\* What step p takes of its own request.
LEMMA OwnFree ==
    ASSUME Inv, FreeInv, NEW p \in Requests, Ask(p) \/ Proceed(p), ~InsertProblem(p)
    PROVE  /\ \A r \in Requests \ {p} : req'[r] = req[r]
           /\ \/ req'[p].at \notin {"slugs", "insert"}
              \/ /\ UNCHANGED problem
                 /\ req'[p].at \in {"slugs", "insert"} => Free(p)'
  <1> DEFINE Others == \A r \in Requests \ {p} : req'[r] = req[r]
  <1> USE DEF Inv, TypeOK
  <1>1. CASE Ask(p)
    <2>1. ASSUME NEW kind, NEW ok, NEW q, Begin(p, kind, ok, q), q.at \notin {"slugs", "insert"}
          PROVE  Others /\ req'[p].at \notin {"slugs", "insert"}
      BY <2>1 DEF Begin, NoRequest
    <2> HIDE DEF Others, Inv, TypeOK
    <2>2. ASSUME NEW u, NEW d, NEW x, AskAdd(p, u, d, x)
          PROVE  Others /\ req'[p].at \notin {"slugs", "insert"}
      BY <2>1, <2>2 DEF AskAdd, NoRequest
    <2>3. ASSUME NEW u, NEW i, AskAgain(p, u, i)
          PROVE  Others /\ req'[p].at \notin {"slugs", "insert"}
      BY <2>1, <2>3 DEF AskAgain, NoRequest
    <2>4. ASSUME NEW u, NEW n, AskCreate(p, u, n)
          PROVE  Others /\ req'[p].at \notin {"slugs", "insert"}
      BY <2>1, <2>4 DEF AskCreate, NoRequest
    <2>5. ASSUME NEW u, NEW d, AskOpen(p, u, d)
          PROVE  Others /\ req'[p].at \notin {"slugs", "insert"}
      BY <2>1, <2>5 DEF AskOpen, NoRequest
    <2>6. Others /\ req'[p].at \notin {"slugs", "insert"}
      BY <1>1, <2>2, <2>3, <2>4, <2>5 DEF Ask
    <2> QED BY <2>6 DEF Others
  <1>2. CASE FindExisting(p)
    <2>1. CASE Existing(req[p].deck, req[p].input) = {} /\ Finish(p, "slugs")
      <3>1. Others /\ req'[p] = [req[p] EXCEPT !.at = "slugs"]
        BY <2>1 DEF Finish
      <3>2. /\ req[p] \in Request /\ UNCHANGED problem
            /\ ~Taken(req[p].deck, Identity(req[p].input).slug)
        BY <1>2, <2>1 DEF FindExisting, table, Existing, Taken
      <3>3. /\ req'[p].at = "slugs" /\ req'[p].deck = req[p].deck
            /\ req'[p].input = req[p].input
        BY <3>1, <3>2 DEF Request
      <3>4. Free(p)'
        BY <3>2, <3>3 DEF Free, Taken, Carries
      <3> QED BY <3>1, <3>2, <3>4
    <2>2. ASSUME NEW i, NEW n, req' = [req EXCEPT ![p].at = "record", ![p].row = i, ![p].needs = n]
          PROVE  Others /\ req'[p].at \notin {"slugs", "insert"}
      BY <2>2 DEF Request
    <2> HIDE DEF Others
    <2> QED BY <1>2, <2>1, <2>2 DEF FindExisting
  <1>3. CASE ChooseSlug(p)
    <2> DEFINE id == Identity(req[p].input).slug
    <2>1. req[p].at = "slugs" /\ UNCHANGED problem /\ req[p] \in Request
      BY <1>3 DEF ChooseSlug, table
    <2>2. PICK slug \in UniqueSlugInDeck(req[p].deck, id) :
              req' = [req EXCEPT ![p].at = "insert", ![p].slug = slug]
      BY <1>3 DEF ChooseSlug
    <2>3. ~Taken(req[p].deck, id) /\ id \in Slug /\ id.copy = 1
      BY <2>1, AddingDeck, IdentityType DEF FreeInv, Free, Adding
    <2>4. slug = id
      <3>1. PICK k \in 1 .. MaxRows + 1 :
                slug = [id EXCEPT !.copy = k] /\ IsFirstFree(req[p].deck, id, k)
        BY <2>2 DEF UniqueSlugInDeck
      <3>2. [id EXCEPT !.copy = 1] = id
        BY <2>3 DEF Slug
      <3>3. k = 1
        <4>1. CASE k # 1
          <5>1. 1 \in 1 .. (k - 1)
            BY <4>1, RowsBound
          <5> QED BY <2>3, <3>1, <3>2, <5>1 DEF IsFirstFree
        <4> QED BY <4>1
      <3> QED BY <3>1, <3>2, <3>3
    <2> HIDE DEF id
    <2>5. /\ Others /\ req'[p].at = "insert" /\ req'[p].slug = slug
          /\ req'[p].deck = req[p].deck /\ req'[p].input = req[p].input
      BY <2>1, <2>2 DEF Request
    <2>6. Free(p)'
      BY <2>1, <2>3, <2>4, <2>5 DEF Free, Taken, Carries, id
    <2> QED BY <2>1, <2>5, <2>6
  <1>4. ASSUME NEW how, how \notin {"slugs", "insert"}, Finish(p, how)
        PROVE  Others /\ req'[p].at \notin {"slugs", "insert"}
    BY <1>4 DEF Finish, Request
  <1>5. CASE Record(p) \/ InsertDeck(p) \/ Fail(p) \/ StoreSource(p)
    BY <1>4, <1>5 DEF Record, InsertDeck, Fail, StoreSource
  <1>6. CASE ShowRows(p)
    BY <1>6 DEF ShowRows, Request
  <1>7. CASE Resolve(p)
    <2>1. ASSUME NEW t, req' = [req EXCEPT ![p].at = "store", ![p].text = t]
          PROVE  Others /\ req'[p].at \notin {"slugs", "insert"}
      BY <2>1 DEF Request
    <2>2. CASE Finish(p, "done")
      BY <1>4, <2>2
    <2>3. CASE ~Finish(p, "done")
      <3>1. \E t : req' = [req EXCEPT ![p].at = "store", ![p].text = t]
        BY <1>7, <2>3 DEF Resolve
      <3> QED BY <2>1, <3>1
    <2> QED BY <2>2, <2>3
  <1>8. CASE RetryResolve(p)
    BY <1>8 DEF RetryResolve, Request
  <1> QED BY <1>1, <1>2, <1>3, <1>5, <1>6, <1>7, <1>8 DEF Proceed

LEMMA OthersFree ==
    ASSUME Inv, Inv', NothingAdded, NEW r \in Requests, Free(r), req'[r] = req[r]
    PROVE  Free(r)'
  <1>1. ASSUME req[r].at \in {"slugs", "insert"}
        PROVE  ~Taken(req[r].deck, Identity(req[r].input).slug)'
    BY <1>1, AddingDeck, FreeStays DEF Free, Adding
  <1>2. CASE req[r].at \in {"slugs", "insert"}
    BY <1>1, <1>2 DEF Free
  <1> QED BY <1>2 DEF Free

\* The insert takes the slug it found free, and of a deck no other add is at.
LEMMA InsertFree ==
    ASSUME Inv, FreeInv, AddsApart, NEW p \in Requests, InsertProblem(p)
    PROVE  FreeInv'
  <1>1. /\ req[p].at = "insert" /\ req[p] \in Request
        /\ req[p].slug = Identity(req[p].input).slug
        /\ ~Taken(req[p].deck, req[p].slug) /\ req[p].slug.copy = 1
    <2>1. req[p].at = "insert"
      BY DEF InsertProblem
    <2> QED BY <2>1, RequestTyped, AddingDeck, IdentityType DEF FreeInv, Free, Adding
  <1> DEFINE id == Identity(req[p].input)
             row == [deck |-> req[p].deck, slug |-> req[p].slug, source |-> id.source,
                     ref |-> req[p].input, statement |-> id.statement, pattern |-> None]
  <1>2. /\ problem' = [problem EXCEPT ![serial + 1] = row]
        /\ req' = [req EXCEPT ![p].at = "record", ![p].row = serial + 1,
                              ![p].needs = NeedsSourceResolution(row)]
    BY <1>1 DEF InsertProblem
  <1>3. /\ req'[p].at = "record" /\ \A r \in Requests \ {p} : req'[r] = req[r]
    BY <1>1, <1>2 DEF Inv, TypeOK, Request
  <1>4. row.deck = req[p].deck /\ row.slug = req[p].slug
    OBVIOUS
  <1> HIDE DEF row
  <1>5. \A i \in Ids : problem'[i] = problem[i] \/ problem'[i] = row
    BY <1>2 DEF Inv, TypeOK
  <1>6. \A i \in Ids : Plain(i)'
    BY <1>1, <1>4, <1>5 DEF FreeInv, Plain
  <1>7. ASSUME NEW r \in Requests PROVE Free(r)'
    <2>1. CASE r = p \/ req[r].at \notin {"slugs", "insert"}
      BY <1>3, <2>1 DEF Free
    <2>2. CASE r # p /\ req[r].at \in {"slugs", "insert"}
      <3>1. req[r].deck # req[p].deck /\ req'[r] = req[r] /\ Free(r)
        BY <1>1, <1>3, <2>2 DEF AddsApart, Adding, FreeInv
      <3>2. ~Taken(req[r].deck, Identity(req[r].input).slug)'
        BY <1>4, <1>5, <2>2, <3>1 DEF Free, Taken, Carries, Identity
      <3> QED BY <2>2, <3>1, <3>2 DEF Free, Taken, Carries, Identity
    <2> QED BY <2>1, <2>2
  <1> QED BY <1>6, <1>7 DEF FreeInv

LEMMA FreeStep ==
    ASSUME Inv, FreeInv, AddsApart, [Next]_vars
    PROVE  FreeInv'
  <1>1. Inv'
    BY StepInv
  <1>2. CASE \E p \in Requests : InsertProblem(p)
    BY <1>2, InsertFree
  <1>3. CASE ~\E p \in Requests : InsertProblem(p)
    <2>1. NothingAdded
      BY <1>3, StepAddsNothing
    <2>2. \A i \in Ids : Plain(i)'
      BY <1>1, <2>1, PlainStays DEF FreeInv
    <2>3. ASSUME NEW r \in Requests PROVE Free(r)'
      <3>1. CASE req'[r] = req[r]
        BY <1>1, <2>1, <3>1, OthersFree DEF FreeInv
      <3>2. CASE req'[r] # req[r]
        <4>1. PICK p \in Requests : Ask(p) \/ Proceed(p)
          BY <3>2, CurateAsksNothing DEF Next, vars
        <4>2. p = r /\ (req'[r].at \notin {"slugs", "insert"} \/ Free(r)')
          BY <1>3, <3>2, <4>1, OwnFree
        <4> QED BY <4>2 DEF Free
      <3> QED BY <3>1, <3>2
    <2> QED BY <2>2, <2>3 DEF FreeInv
  <1> QED BY <1>2, <1>3

\* Two adds at once are the only way a problem is stored twice: where no deck
\* has two of them in flight, no slug is ever suffixed, whatever seeds,
\* evaluations and scripts do meanwhile.
THEOREM OnlyRacesDouble == Spec /\ []AddsApart => []NoCopies
  <1>1. Init => FreeInv
    BY DEF Init, NoRequest, FreeInv, Free, Plain
  <1>2. Inv /\ FreeInv /\ AddsApart /\ [Next]_vars => FreeInv'
    BY FreeStep
  <1>3. FreeInv => NoCopies
    BY DEF FreeInv, Plain, NoCopies, Rows
  <1> QED BY <1>1, <1>2, <1>3, Invariant, PTL DEF Spec

=============================================================================
