SPECIFICATION Spec
CONSTANTS
  c1 = c1 c2 = c2 x1 = x1 x2 = x2
  Ids = {c1}
  Tokens = {x1}
  CallLists <- OneCall
  MaxSends = 1
  MaxClears = 1
  MaxRounds = 2
  MaxOverflow = 1
  Approvals = TRUE
  Disposals = TRUE
  Teardowns = TRUE
CHECK_DEADLOCK FALSE
INVARIANTS LoopInv
PROPERTIES StopEnds SendEnds
