SPECIFICATION Spec
CONSTANTS
  Capacity = 6
  Attempts = 2
  Missing = Missing
  Nil = Nil
  OctetBits = 2
  Octets = 2
  Req <- MCReq
  Host <- MCHost
  Clients <- MCClients
  File <- MCFile
  Lists <- MCLists
  LockTTL = 1
  MaxNow = 1
  MaxMoves = 2
INVARIANTS TypeOK PlacesBalanced RightRule 
PROPERTIES ListsJudged FailsOnlyWithoutConf UsedRulesKept 
CHECK_DEADLOCK FALSE
