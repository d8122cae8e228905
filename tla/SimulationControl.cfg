SPECIFICATION Spec
CONSTANTS
    MAX_MOVE_DELAY_MS = 40
    MOVE_DELAY_STEP_MS = 20
INVARIANTS
    TypeOK
    NoLostWakeup
    AtMostOneSlip
PROPERTIES
    ImplementsCheckpoint
    CancelServed
\* A run that has ended makes no further call.
CHECK_DEADLOCK FALSE
