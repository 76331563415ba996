CONSTANTS
    NULL = NULL
    Channels = {c1}
    Media = {}
    ContainerSize = 3
    MaxRequests = 3
    MaxPending = 3
SPECIFICATION Spec
INVARIANT AllAreCancelled
CHECK_DEADLOCK FALSE
