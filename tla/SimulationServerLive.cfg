SPECIFICATION FairSpec
CONSTANTS
    Runs = {r1, r2}
    NoRun = NoRun
    Epochs = 1
    MaxFaults = 1
    MaxErrors = 0
    MaxCrashes = 0
PROPERTIES
    CancellingEnds
    StopEnds
    QueuedEndsAnnounced
