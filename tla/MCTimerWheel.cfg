SPECIFICATION FairSpec
CONSTANTS
    t1 = t1
    t2 = t2
    Timers = {t1, t2}
    Near = 2
    Level = 2
    Levels = 3
    MaxDelay = 7
INVARIANTS NoneLost OnTime
PROPERTIES FireInOrder EveryTimerFires
