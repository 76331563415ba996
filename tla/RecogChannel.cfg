CONSTANTS
    NULL = NULL
    MaxRequests = 4
    Methods = {"RECOGNIZE", "STOP", "GET-RESULT", "SET-PARAMS"}
    Pipelining = TRUE
    CodecMayBeLost = FALSE
    MaxLoudFrames = 1
    SdkMayFail = FALSE
    SpeechTimeout = 1
    SilenceTimeout = 1
    NoInputTimeout = 1
SPECIFICATION Spec
INVARIANTS TypeOK RecognitionInv
PROPERTIES ServiceRefinement
CHECK_DEADLOCK FALSE
