CONSTANTS
    NULL = NULL
    Timers = {t1, t2}
    Width = 5
    Threshold = 5
    Timeouts = {3}
    TicksPerMs = 2
    MaxHandling = 1
    MaxAge = 20
    MaxWakeups = 4
SPECIFICATION FairSpec
INVARIANTS RingMirrorsTimers
PROPERTIES FiresInTime TimersFire
CHECK_DEADLOCK FALSE
