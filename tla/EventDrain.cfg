SPECIFICATION Spec
CONSTANTS
  MaxFragments = 4
  MaxRounds = 2
  BatchLimit = 2
  MaxImmediate = 1
  MaxFails = 1
CHECK_DEADLOCK FALSE
INVARIANTS DrainInv
PROPERTIES KeepsPromise TextIsShown StopCloses
