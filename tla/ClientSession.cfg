CONSTANTS
    NULL = NULL
    Channels = {c1, c2}
    Media = {c1}
    ContainerSize = 3
    MaxRequests = 3
    MaxPending = 2
SPECIFICATION FairSpec
INVARIANTS CountExact NothingOutlivesSession OffersAreAskedFor
PROPERTIES Serves ActiveIsAnswered
CHECK_DEADLOCK FALSE
