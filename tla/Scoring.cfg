CONSTANTS
    CloseFamilies <- SampleFamilies
    Patterns = {"sliding-window", "two-pointers", "monotonic-stack", "greedy", "heap"}
    MaxGuesses = 3
    MaxSeconds = 315
SPECIFICATION Spec
INVARIANTS ScoresInRange WrongAtMostHard CorrectNeverLapses ReasonedIsEasy
PROPERTY ExtraGuessNeverCosts
CHECK_DEADLOCK FALSE
