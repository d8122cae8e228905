SPECIFICATION FairSpec
CONSTANTS
    MaxRuns = 2
    Delays = {0, 20}
    MaxBacklog = 2
    MaxPresses = 2
    MaxStatuses = 3
INVARIANTS
    ControlsAreSound
    ViewIsTrueAtRest
PROPERTIES
    ControlsComeBack
\* Where the user's and the server's budgets are used up, everything may come to rest.
CHECK_DEADLOCK FALSE
