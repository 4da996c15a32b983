SPECIFICATION FairSpec
CONSTANTS
    Sleepers = {s1}
    Timeouts = {1, 6}
    LeastShift = 1
    LevelShift = 2
    LevelCount = 2
    MaxTime = 12
    MaxMail = 2
    MaxDelay = 1
CHECK_DEADLOCK FALSE
PROPERTIES
    SoonByDelays
    SleepEnds
    ImplementsDeadlines
