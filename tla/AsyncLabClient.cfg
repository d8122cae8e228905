SPECIFICATION FairSpec
CONSTANTS
    Tasks = {t1, t2, t3}
    NoTask = NoTask
    MaxStops = 1
INVARIANTS
    AnswersFit
PROPERTIES
    GivenUpIsGone
    NothingHangs
\* Each task makes one request.
CHECK_DEADLOCK FALSE
