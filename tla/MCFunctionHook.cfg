CONSTANTS
  h1 = h1
  h2 = h2
  h3 = h3
  f1 = f1
  f2 = f2
  p1 = p1
  p2 = p2
  NULL = NULL
  Body = Body
  Hooks = {h1, h2, h3}
  Functions = {f1, f2}
  Target <- MCTarget
  CallSites = {f2}
  Pages = {p1, p2}
  PageOf <- MCPageOf
  ImageProt = "RX"
  GenPages = {g1, g2, g3}
  HookSizes = {0, 3, 5, 7}
SPECIFICATION Spec
INVARIANTS
  TrampolinesReachBody
  RedirectsAreComplete
  SavedCodePredatesPatch
  ProtectionRestored
  TornOnlyInsidePatch
CHECK_DEADLOCK FALSE
