SPECIFICATION FairSpec
CONSTANTS
    NoTask = NoTask
    Task = {t1, t2}
    Recurring = {t2}
    Reminder = {t1}
    Timed = {t1, t2}
    Worker = {w1, w2}
    User = {u1}
    Permits = 2
    MaxAttempts = 2
    UserOps = {}
    Faults = {}
    AutonomyPaused = {FALSE}
    Prompt = TRUE
    MaxRounds = 1
    MaxRuns = 9
    MaxOps = 0
    MaxFaults = 0
    t1 = t1
    t2 = t2
    u1 = u1
    w1 = w1
    w2 = w2
INVARIANT TypeOK
INVARIANT AttemptsCounted
INVARIANT SingleRun
INVARIANT ExecutionsWithinAttempts
INVARIANT QuietAgreement
PROPERTY DueTaskSettles
PROPERTY ClaimsEnd
PROPERTY LifecycleSpec
