CONSTANTS
    s1 = s1
    s2 = s2
    p1 = p1
    w1 = w1
    w2 = w2
    q1 = q1
    q2 = q2
    solid = solid
    weak = weak
    Submissions <- OneSubmission
    Problems = {p1}
    ProblemOf <- OneProblemOf
    Sourced = {p1}
    Slots = {w1, w2}
    Requests = {q1}
    Gradations = {solid, weak}
    None = None
    MaxAttempts = 3
    MaxStalls = 1
    Faults <- RedeliveredFaults
    MaxFaults = 3
    EarlyCommit = FALSE
    ConcurrentCommit = FALSE

SPECIFICATION FairSpec
INVARIANT NeverStranded
PROPERTY Settles
CHECK_DEADLOCK FALSE
