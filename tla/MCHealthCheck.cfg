SPECIFICATION Spec
CONSTANTS
  Worker = {"w1", "w2"}
  Proc = {"p1", "p2"}
  Home <- MCHome
  Writer = "w1"
  FailKind = {"tcp"}
  Limit <- MCLimit
  Nil = Nil
  MaxCalls = 3
  MaxAdmin = 2
  MaxFaults = 1
INVARIANTS TypeOK CopiesAgree RoundsBounded RedisFollows
PROPERTIES ChangesNeedCounts
CHECK_DEADLOCK FALSE
