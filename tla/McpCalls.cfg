SPECIFICATION FairSpec
CONSTANTS
  r1 = r1 r2 = r2 n1 = n1 k1 = k1 k2 = k2 d1 = d1 d2 = d2
  Requests = {r1, r2}
  Notices = {n1}
  Keys = {k1, k2}
  Docs = {d1, d2}
  Nobody = Nobody
CHECK_DEADLOCK FALSE
INVARIANTS CallInv EditsApart RefusedDidNothing
PROPERTIES StopBeforeStart AllAnswered
