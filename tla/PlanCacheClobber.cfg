CONSTANTS
    Owner = {p1, p2, p3}
    Nobody = Nobody
    NoSession = NoSession
    Session <- MCSession
    Ttl = 2
    MaxTime = 1
    LoadFails = FALSE
SPECIFICATION PlanSpec
INVARIANT NoClobberedVerdicts
CHECK_DEADLOCK FALSE
