SPECIFICATION Spec
CONSTANTS
    r1 = r1
    r2 = r2
    r3 = r3
    r4 = r4
    w1 = w1
    w2 = w2
    Req <- MCReq
    Worker <- MCWorker
    Home <- MCHome
    Max = 1
    Burst = 1
    DryRun = FALSE
    MaxFaults = 1
INVARIANTS TypeOK CounterAccounting HardLimit SoftLimit
PROPERTIES RejectOnlyWhenFull EventuallyReleased ImplementsGate
CHECK_DEADLOCK FALSE
