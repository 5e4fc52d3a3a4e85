SPECIFICATION FairSpec
CONSTANTS
  c1 = c1 s1 = s1
  Callers = {c1}
  Stoppers = {s1}
  Reaper = Reaper
  Quitter = Quitter
  Nobody = Nobody
  MaxSpawns = 2
  MaxKills = 1
  MaxCrashes = 1
INVARIANTS ChildInv NothingOutlivesRetire
PROPERTIES PipesHeld LocksReleased
