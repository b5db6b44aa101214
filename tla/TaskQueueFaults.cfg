SPECIFICATION Spec
CONSTANTS
    NoTask = NoTask
    Task = {t1}
    Recurring = {}
    Reminder = {}
    Timed = {}
    Worker = {w1, w2}
    User = {u1}
    Permits = 2
    MaxAttempts = 2
    UserOps = {"pause", "resume", "cancel", "retry", "update"}
    Faults = {"restart", "timeout", "db"}
    AutonomyPaused = {TRUE, FALSE}
    Prompt = FALSE
    MaxRounds = 1
    MaxRuns = 1
    MaxOps = 1
    MaxFaults = 1
    t1 = t1
    u1 = u1
    w1 = w1
    w2 = w2
SYMMETRY Symmetry
INVARIANT PendingRowUnleased
CHECK_DEADLOCK FALSE
