CONSTANTS
    NULL = NULL
    Offers <- Mixed
    MaxRequests = 4
    EngineMayBeFull = TRUE
    OpenMayFail = TRUE
SPECIFICATION FairSpec
INVARIANTS TypeOK CountExact SessionLeavesNothing
PROPERTIES AnswerComplete GrantedIsServed EveryRequestEnds
CHECK_DEADLOCK FALSE
