SPECIFICATION Spec
CONSTANTS
    Runs = {r1}
    NoRun = NoRun
    Epochs = 1
    MaxFaults = 0
    MaxErrors = 0
    MaxCrashes = 0
PROPERTIES
    CancellingEndsCancelled
