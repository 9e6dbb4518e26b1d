CONSTANTS
    s1 = s1
    s2 = s2
    p1 = p1
    w1 = w1
    w2 = w2
    q1 = q1
    q2 = q2
    solid = solid
    weak = weak
    Submissions <- OneSubmission
    Problems = {p1}
    ProblemOf <- OneProblemOf
    Sourced = {p1}
    Slots = {w1}
    Requests = {q1, q2}
    Gradations = {solid, weak}
    None = None
    MaxAttempts = 2
    MaxStalls = 1
    Faults = {}
    MaxFaults = 0
    EarlyCommit = FALSE
    ConcurrentCommit = TRUE

SPECIFICATION Spec
PROPERTY CommittedOnce
CHECK_DEADLOCK FALSE
