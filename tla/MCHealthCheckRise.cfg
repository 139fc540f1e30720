SPECIFICATION Spec
CONSTANTS
  Worker = {"w1", "w2"}
  Proc = {"p1", "p2"}
  Home <- MCHome
  Writer = "w1"
  FailKind = {"tcp"}
  Limit <- MCLimit
  Nil = Nil
  MaxCalls = 4
  MaxAdmin = 0
  MaxFaults = 0
PROPERTIES RiseNeedsSuccesses
CHECK_DEADLOCK FALSE
