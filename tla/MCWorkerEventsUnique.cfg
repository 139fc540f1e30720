SPECIFICATION Spec
CONSTANTS
    Worker = {w1, w2}
    Unique = {u}
    None = None
    MaxEvents = 3
    MaxExpiries = 1
    MaxFaults = 0
INVARIANT OneWorkerExecutes
CHECK_DEADLOCK FALSE
