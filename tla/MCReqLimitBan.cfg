SPECIFICATION Spec
CONSTANTS
    Req = {r1, r2, r3}
    Unit = 2
    RateNum = 2
    Scale = 2
    BurstNum = 0
    Duration = 1
    Integral = FALSE
    TTL = 4
    DryRun = FALSE
    MaxTime = 4
    MaxFaults = 0
INVARIANT DocumentedBan
CHECK_DEADLOCK FALSE
