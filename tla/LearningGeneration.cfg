CONSTANTS
    Owner = {r1, r2}
    Nobody = Nobody
    NoSession = NoSession
    Session <- MCSession
    Ttl = 1
    MaxTime = 2
    Items = 1
SPECIFICATION FairSpec
INVARIANTS TypeOK LockedReadIsStable TakeoverBounded ReleasedLeaseIsGone
PROPERTIES FencedSpec EveryRunEnds ActiveLeaseOnlyLostToBlindAcquire
CHECK_DEADLOCK FALSE
