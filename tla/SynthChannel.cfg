CONSTANTS
    NULL = NULL
    MaxRequests = 4
    Methods = {"SPEAK", "STOP", "PAUSE", "RESUME", "BARGE-IN-OCCURRED", "CONTROL", "SET-PARAMS", "DEFINE-LEXICON"}
    Queueing = TRUE
    CodecMayBeLost = FALSE
SPECIFICATION Spec
INVARIANTS TypeOK SpeakerState NoOrphanedSpeak
PROPERTIES ServiceRefinement ReportIsAwaited
CHECK_DEADLOCK FALSE
