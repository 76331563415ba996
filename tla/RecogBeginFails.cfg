CONSTANTS
    NULL = NULL
    MaxRequests = 1
    Methods = {"RECOGNIZE"}
    Pipelining = FALSE
    CodecMayBeLost = FALSE
    MaxLoudFrames = 1
    SdkMayFail = TRUE
    SpeechTimeout = 1
    SilenceTimeout = 1
    NoInputTimeout = 1
SPECIFICATION FairSpec
PROPERTIES RecognitionCompletes
CHECK_DEADLOCK FALSE
