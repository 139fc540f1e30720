SPECIFICATION Spec
CONSTANTS
    Req = {r1, r2, r3, r4}
    Unit = 2
    RateNum = 1
    Scale = 2
    BurstNum = 1
    Duration = 4
    Integral = TRUE
    TTL = 5
    DryRun = FALSE
    MaxTime = 5
    MaxFaults = 1
SYMMETRY Symmetry
INVARIANTS TypeOK Paced NoImmortalKey BanNotProlonged
PROPERTY BanBlocks
CHECK_DEADLOCK FALSE
