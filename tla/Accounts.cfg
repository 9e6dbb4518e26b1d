SPECIFICATION Spec
CONSTANTS
    r1 = r1
    r2 = r2
    s1 = s1
    s2 = s2
    s3 = s3
    k1 = k1
    k2 = k2
    p1 = p1
    p2 = p2
    None = None
    Requests = {r1, r2}
    Sessions = {s1, s2, s3}
    Links = {k1, k2}
    Passwords = {p1, p2}
    Mixes <- MCMixes
    MaxEnds = 2
SYMMETRY MCSymmetry
INVARIANTS
    TypeOK
    RedeemedOnce
    EarlierLinksDie
    ExchangedOnce
    EndedMeansEnded
    OldPasswordSignsOut
PROPERTIES
    ImplementsOwnership
CHECK_DEADLOCK FALSE
