CONSTANTS
    CloseFamilies <- SampleFamilies
    Patterns = {"sliding-window", "two-pointers", "monotonic-stack", "greedy", "heap"}
    MaxGuesses = 3
    MaxSeconds = 315
SPECIFICATION Spec
INVARIANT UnreasonedIsHard
CHECK_DEADLOCK FALSE
