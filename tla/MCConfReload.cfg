SPECIFICATION Spec
CONSTANTS
    Domain = {d1, d2}
    MaxGen = 2
    MaxMtime = 2
    MaxEdits = 3
    MaxFaults = 1
INVARIANTS TypeOK RecordedMeansLoaded
PROPERTIES RollbackNoticed Converges
CHECK_DEADLOCK FALSE
