CONSTANTS
    NULL = NULL
    MaxRequests = 4
    Methods = {"SPEAK", "STOP", "PAUSE", "RESUME", "BARGE-IN-OCCURRED", "CONTROL", "SET-PARAMS", "DEFINE-LEXICON"}
    Queueing = FALSE
    CodecMayBeLost = TRUE
SPECIFICATION FairSpec
INVARIANTS MachineKnowsEngine
PROPERTIES StopSilences EveryRequestAnswered SessionEnds
CHECK_DEADLOCK FALSE
