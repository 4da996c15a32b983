SPECIFICATION Spec
CONSTANTS
    Sleepers = {s1}
    Timeouts = {1}
    LeastShift = 1
    LevelShift = 2
    LevelCount = 2
    MaxTime = 8
    MaxMail = 2
    MaxDelay = 1
CHECK_DEADLOCK FALSE
PROPERTY SleepsAtLeast
