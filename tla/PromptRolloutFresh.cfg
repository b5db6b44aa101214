CONSTANTS
    Candidate = {c1}
    Default = Default
    None = None
    Stored0 = {None}
    Evolver = {e1}
    User = {u1}
    Judge = Judge
    MaxRequests = 1
    MaxCuts = 0
SPECIFICATION RolloutFairSpec
PROPERTY RegressionsAreReverted
CHECK_DEADLOCK FALSE
