SPECIFICATION Spec
CONSTANTS
    MaxRuns = 2
    Delays = {0, 20}
    MaxBacklog = 2
    MaxPresses = 1
    MaxStatuses = 4
PROPERTIES
    CancelIsConfirmed
CHECK_DEADLOCK FALSE
