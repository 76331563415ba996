CONSTANTS
    Streams = {"a", "b"}
    Timers <- MCTimers
    Width = 5
    Threshold = 7
    TxInterval = 3
    RxInterval = 2
SPECIFICATION FairSpec
PROPERTIES ReportsAreSent
