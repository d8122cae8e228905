SPECIFICATION FairSpec
CONSTANTS
    event_queue_size = 2
    Viewers = {v1, v2}
    Filters = {frame, all, run}
    FrameFilters = {frame, all}
    MaxOffers = 3
    MaxChanges = 3
    MaxFaults = 1
INVARIANTS
    QueueIsNewest
    SentAsOffered
    InterestIsKnown
PROPERTIES
    NothingIsLost
\* A publisher that is closed, with the offers and changes used up, is at rest.
CHECK_DEADLOCK FALSE
