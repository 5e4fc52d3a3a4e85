SPECIFICATION Spec
CONSTANTS
  c1 = c1 c2 = c2 x1 = x1 x2 = x2
  Ids = {c1, c2}
  Tokens = {x1}
  CallLists <- TwoCalls
  MaxSends = 1
  MaxClears = 0
  MaxRounds = 1
  MaxOverflow = 0
  Approvals = FALSE
  Disposals = FALSE
  Teardowns = FALSE
CHECK_DEADLOCK FALSE
INVARIANTS CancelledOnlyUnanswered
