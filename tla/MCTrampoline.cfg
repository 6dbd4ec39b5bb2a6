CONSTANTS
  targetAddress = 300
  CodeStart = 500
  Kinds = {"plain", "rip", "rip_jmp", "call", "jmp", "jcc", "loop", "ret", "bad"}
  Count = 3
  Outside = {100}
  Data = {200, 400}
  HalfRange = 256
SPECIFICATION Spec
INVARIANTS
  DivergesOnlyKnownWays
  ShortOnlyIfEnded
  ReadsOnOnlyInBranch
CHECK_DEADLOCK FALSE
