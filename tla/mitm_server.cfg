CONSTANTS
  t1 = t1
  t2 = t2
  h1 = h1
  h2 = h2
  Threads <- TwoThreads
  Hosts <- TwoHosts
  Sizes = {0, 1, 2}
  MaxFileName = 2
  MaxDraws = 3
SPECIFICATION Spec
INVARIANTS TypeOK Bounded EvictsRight NumbersApart StoredIsOwn
SYMMETRY ThreadSymmetry
CHECK_DEADLOCK FALSE
