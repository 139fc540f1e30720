SPECIFICATION Spec
CONSTANTS
    Domain = {d1}
    MaxGen = 1
    MaxMtime = 2
    MaxEdits = 2
    MaxFaults = 0
INVARIANT ReloadSurvives
CHECK_DEADLOCK FALSE
