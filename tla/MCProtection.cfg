CONSTANTS
  Threads = {t1, t2}
  Pages = {1, 2}
  NoThread = NoThread
  MaxDepth = 3
SPECIFICATION Spec
INVARIANTS
  WritableInScope
  RestoredAfter
SYMMETRY MCSymmetry
CHECK_DEADLOCK FALSE
