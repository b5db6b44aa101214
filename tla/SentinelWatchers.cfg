SPECIFICATION Spec
CONSTANTS
    w1 = w1
    w2 = w2
    c1 = c1
    loop = loop
    Ids = {w1, w2}
    Caller = {c1}
    Poller = loop
    Proc = {c1, loop}
    Shape <- AnyShape
    Interval = 1
    Timeout = 1
    MaxTimeout = 2
    PauseAfter = 2
    MinBackoff = 2
    MaxBackoff = 2
    Retention = 1
    DbFails = FALSE
    FailCap = 2
    MaxCalls = 3
    MaxRestarts = 0
    MaxTime = 1
    MaxSleep = 2
    PausedSleep = 1
INVARIANTS TypeOK NoLostWakeup
PROPERTIES PollsAreSpaced VerdictsAreFinal
SYMMETRY Symmetry
CHECK_DEADLOCK FALSE
