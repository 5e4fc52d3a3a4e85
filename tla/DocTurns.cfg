SPECIFICATION Spec
CONSTANTS
  Panels = {A, B}
  QueueCap = 2
  MaxSends = 2
  MaxPeers = 2
  MaxTools = 2
  MaxRaises = 1
SYMMETRY Interchangeable
CHECK_DEADLOCK FALSE
INVARIANTS TurnInv CurrentIsOpen PeersInv PeersNotForgotten
