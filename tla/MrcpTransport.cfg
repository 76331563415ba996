SPECIFICATION FairSpec
CONSTANTS
  Channels = {c1, c2}
  MaxLinks = 2
  MaxBreaks = 1
  MaxRequests = 2
  OfferNew = FALSE
  RequestTimeout = TRUE
  ForceNew = FALSE
  MaxSharedUse = 2
  InactivityTimeout = TRUE
  TerminationTimeout = TRUE
INVARIANTS TypeOK NothingIsLeftOver OneHome AnsweredOnce OrphansAreTold
PROPERTIES RequestIsAnswered
CHECK_DEADLOCK FALSE
