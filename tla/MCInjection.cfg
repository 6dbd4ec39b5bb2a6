CONSTANTS
  InitWorldHook = InitWorldHook
  FuncInvokeHook = FuncInvokeHook
  fInit = fInit
  fInvoke = fInvoke
  p1 = p1
  NULL = NULL
  Body = Body
  Threads = {t1, t2}
  Hooks = {InitWorldHook, FuncInvokeHook}
  Functions = {fInit, fInvoke}
  Target <- MCTarget
  CallSites = {}
  Pages = {p1}
  PageOf <- MCPageOf
  ImageProt = "RX"
  GenPages = {g1, g2}
  HookSizes = {0, 3, 5, 7}
SPECIFICATION InjectionSpec
INVARIANTS
  NoThreadMeetsHalfADone
  HookedCompletelyOrNotAtAll
  ClientSeesEveryCall
PROPERTIES
  CallsAreTransparent
  LauncherFinishes
  GameIsResumed
  CallsReturn
CHECK_DEADLOCK FALSE
