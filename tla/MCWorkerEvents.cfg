SPECIFICATION Spec
CONSTANTS
    Worker = {w1, w2}
    Unique = {u}
    None = None
    MaxEvents = 3
    MaxExpiries = 1
    MaxFaults = 1
INVARIANTS TypeOK OnePoller UniqueUpToExpiry
SYMMETRY Symmetry
PROPERTIES InOrderOnce CachedNotDropped
CHECK_DEADLOCK FALSE
