SPECIFICATION Spec
CONSTANTS
    Epochs = 3
    Scale = 8
    Initials = {2, 8}
    Minimums = {0, 2}
    Divisors = {2}
    Cutoff = 3
    MaxMoves = 3
    sequence_length = 2
    batch_size = 2
    max_frames = 5
INVARIANTS
    BestGameIsKept
    ResultsAreOfTheirGame
    EpsilonIsScheduled
    MemoryIsExact
PROPERTIES
    BatchesAreStored
\* A run ends.
CHECK_DEADLOCK FALSE
