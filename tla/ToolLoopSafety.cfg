SPECIFICATION Spec
CONSTANTS
  c1 = c1 c2 = c2 x1 = x1 x2 = x2
  Ids = {c1, c2}
  Tokens = {x1}
  CallLists <- TwoCalls
  MaxSends = 2
  MaxClears = 1
  MaxRounds = 2
  MaxOverflow = 0
  Approvals = FALSE
  Disposals = TRUE
  Teardowns = TRUE
CHECK_DEADLOCK FALSE
INVARIANTS TranscriptInv StopClosesCalls StopIsShown NoHoleAfterUser
