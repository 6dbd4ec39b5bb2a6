CONSTANTS
  Locals = {l1, l2}
  Resources = {r1, r2, r3}
  NULL = NULL
  MaxRefs = 2
SPECIFICATION Spec
INVARIANT EveryReferenceOwned
PROPERTY AssignsWhatItIsGiven
SYMMETRY MCSymmetry
CHECK_DEADLOCK FALSE
