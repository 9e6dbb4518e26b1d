CONSTANTS
    u1 = u1
    u2 = u2
    r1 = r1
    r2 = r2
    d1 = d1
    d2 = d2
    d3 = d3
    n1 = n1
    n2 = n2
    a = a
    b = b
    contest = contest
    tab = tab
    p = p
    q = q
    link = link
    slug = slug
    text = text
    other = other
    t1 = t1
    t2 = t2
    page = page
    mine = mine
    V1 = V1
    V2 = V2
    V3 = V3
    None = None
    Users = {u1, u2}
    DeckNames = {n1, n2}
    DeckSlugs = {d1, d2, d3}
    DeckSlugOf <- MCDeckSlugOf
    Inputs = {link, slug, text, other}
    MaxWords = 3
    Fetchable <- MCFetchable
    SourceOf <- MCSourceOf
    Slugs <- MCSlugs
    SlugOf <- MCSlugOf
    About <- MCAbout
    Texts = {t1, t2, page, mine}
    TextOf <- MCTextOf
    Patterns = {p, q}
    Releases = {V1, V2, V3}
    DecksOf <- MCDecksOf
    FixturesOf <- MCFixturesOf
    PatternOf <- MCPatternOf
    AlsoAccepted <- MCAlsoAccepted
    HomeOf <- MCHomeOf
    StatementOf <- MCStatementOf
    Requests = {r1, r2}
    Mixes <- MCMixes
    FirstDecks <- MCFirstDecks
    MaxRows = 3
SYMMETRY MCSymmetry
SPECIFICATION Spec
INVARIANTS TypeOK OneRowPerFixture BankMatchesRelease RerunChangesNothing PersonalStaysHome StatementIsItsOwn RepeatFindsItsRow OneProblemOneRow
PROPERTY HistoryKept
CHECK_DEADLOCK FALSE
