SPECIFICATION FairSpec
CONSTANTS
    Threads = {t1, t2}
    NoThread = NoThread
    Units = {u1, u2, u3}
    NoUnit = NoUnit
    Statements = 2
    MaxFaults = 3
INVARIANTS
    AllOrNothing
    SessionIsSound
PROPERTIES
    ImplementsStoreCalls
    UnitsEnd
\* Units are called once, and a manager is closed once.
CHECK_DEADLOCK FALSE
