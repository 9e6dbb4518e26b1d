CONSTANTS
    a = a
    b = b
    c = c
    d1 = d1
    d2 = d2
    r1 = r1
    r2 = r2
    None = None
    CloseFamilies = {}
    Problems = {a, b, c}
    Tagged = {a, b}
    Told = {a}
    Decks = {d1, d2}
    DeckOf <- MCDeckOf
    Requests = {r1, r2}
    Answers <- MCAnswers
    Overrides <- MCOverrides
    Mixes <- MCMixes
    MaxClock = 2
    MaxReviews = 2
SYMMETRY Slots
SPECIFICATION Spec
INVARIANTS TypeOK NeverEmptyHanded AheadOnlyWhenAllSeen DueFirst RatedByBandsInForce EveryAnswerIsAReview BadgeHonest
