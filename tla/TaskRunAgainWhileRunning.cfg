SPECIFICATION Spec
CONSTANTS
    NoTask = NoTask
    Task = {t1}
    Recurring = {}
    Reminder = {}
    Timed = {}
    Worker = {w1, w2}
    User = {u1}
    Permits = 2
    MaxAttempts = 2
    UserOps = {}
    Faults = {}
    AutonomyPaused = {FALSE}
    Prompt = TRUE
    MaxRounds = 1
    MaxRuns = 9
    MaxOps = 0
    MaxFaults = 0
    t1 = t1
    u1 = u1
    w1 = w1
    w2 = w2
SYMMETRY Symmetry
INVARIANT ExecutionsWithinAttempts
