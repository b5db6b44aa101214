SPECIFICATION Spec
CONSTANTS
    w1 = w1
    w2 = w2
    c1 = c1
    loop = loop
    Ids = {w1}
    Caller = {c1}
    Poller = loop
    Proc = {c1, loop}
    Shape <- OneShot
    Interval = 1
    Timeout = 1
    MaxTimeout = 2
    PauseAfter = 2
    MinBackoff = 2
    MaxBackoff = 2
    Retention = 1
    DbFails = FALSE
    FailCap = 2
    MaxCalls = 2
    MaxRestarts = 1
    MaxTime = 2
    MaxSleep = 2
    PausedSleep = 1
PROPERTY PollStartSurvivesRestart
CHECK_DEADLOCK FALSE
