SPECIFICATION FairSpec
CONSTANTS
  MaxTurns = 2
  Limits <- MCLimits
CHECK_DEADLOCK FALSE
INVARIANTS PermissionInv CancelIsOwn NoCollateral ShutdownKills
PROPERTIES StopEndsTurn
