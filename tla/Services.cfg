CONSTANTS
    n1 = n1  n2 = n2  n3 = n3
    Node = {n1, n2, n3}
    Run = {r1, r2}
    Spec0 <- MCSpec0
    MaxAttempts = 2
    MaxFaults = 1
    Owner = {p1, p2}
    Session <- MCSession
    Nobody = Nobody
    NoSession = NoSession
    Ttl = 2
    MaxTime = 1
    LoadFails = FALSE
    Candidate = {c1, c2}
    Default = Default
    None = None
    Stored0 = {base}
    Evolver = {e1}
    User = {u1}
    Judge = Judge
    MaxRequests = 1
    MaxCuts = 1
    Command = {cmd1, cmd2}
    Risky = {cmd1}
    Panel = {v1, v2}
    Socket = {s1}
    NoCommand = NoCommand
    MaxAsked = 3
    MaxBreaks = 1
SPECIFICATION ServicesSpec
INVARIANTS ServicesTypeOK NoClobberedVerdicts RevertOnlyEndsTheTest CompileSound RunsAfterDependencies TraceTellsTruth RepeatsHaveACause DispatchesAreApproved
PROPERTIES LeaseIsKept RunsEnd RegressionsAreReverted ListedIsDispatched
CHECK_DEADLOCK FALSE
