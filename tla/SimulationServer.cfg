SPECIFICATION Spec
CONSTANTS
    Runs = {r1, r2}
    NoRun = NoRun
    Epochs = 2
    MaxFaults = 1
    MaxErrors = 1
    MaxCrashes = 1
SYMMETRY RunSymmetry
INVARIANTS
    TypeOK
    PersistedBeforeEvent
    AtMostOneEnded
    AnswersAreTrue
    StoreIsWhole
    CleanStop
PROPERTIES
    OutcomeIsFinal
    ImplementsRunLifecycle
