SPECIFICATION Spec
CONSTANTS
  h1 = h1 h2 = h2 s1 = s1 s2 = s2
  Callers = {h1, h2}
  Sessions = {s1}
  NoSession = NoSession
  Nobody = Nobody
  NumWorkers = 2
  MaxTasks = 1
  MaxSpawns = 2
  MaxCrashes = 1
  Abandons = TRUE
  Stops = TRUE
SYMMETRY Symmetry
INVARIANTS SlotInv OneNamespace CleanPipe NothingOutlivesShutdown ResetTold
