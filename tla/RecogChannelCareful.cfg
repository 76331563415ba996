CONSTANTS
    NULL = NULL
    MaxRequests = 3
    Methods = {"RECOGNIZE", "STOP", "START-INPUT-TIMERS", "DEFINE-GRAMMAR"}
    Pipelining = FALSE
    CodecMayBeLost = TRUE
    MaxLoudFrames = 2
    SdkMayFail = TRUE
    SpeechTimeout = 1
    SilenceTimeout = 1
    NoInputTimeout = 2
SPECIFICATION FairSpec
INVARIANTS SdkSessionKept
PROPERTIES ServiceRefinement EveryRequestAnswered SessionEnds
CHECK_DEADLOCK FALSE
