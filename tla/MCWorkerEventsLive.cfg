SPECIFICATION Spec
CONSTANTS
    Worker = {w1, w2}
    Unique = {u}
    None = None
    MaxEvents = 2
    MaxExpiries = 0
    MaxFaults = 1
PROPERTY CatchesUp
CHECK_DEADLOCK FALSE
