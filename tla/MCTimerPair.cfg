SPECIFICATION FairSpec
CONSTANTS
    Sleepers = {s1, s2}
    Timeouts = {1, 6}
    LeastShift = 1
    LevelShift = 2
    LevelCount = 2
    MaxTime = 8
    MaxMail = 2
    MaxDelay = 0
CHECK_DEADLOCK FALSE
PROPERTIES
    SleepEnds
    ImplementsDeadlines
