CONSTANTS
    s1 = s1
    s2 = s2
    p1 = p1
    w1 = w1
    w2 = w2
    q1 = q1
    q2 = q2
    solid = solid
    weak = weak
    Submissions <- TwoSubmissions
    Problems = {p1}
    ProblemOf <- TwoProblemOf
    Sourced = {p1}
    Slots = {w1}
    Requests = {q1, q2}
    Gradations = {solid, weak}
    None = None
    MaxAttempts = 2
    MaxStalls = 1
    Faults <- RefusedFaults
    MaxFaults = 1
    EarlyCommit = FALSE
    ConcurrentCommit = FALSE

SPECIFICATION FairSpec
INVARIANT OverrideIsHonest
PROPERTY ImplementsLifecycle
CHECK_DEADLOCK FALSE
