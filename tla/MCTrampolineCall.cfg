CONSTANTS
  targetAddress = 300
  CodeStart = 500
  Kinds = {"plain", "call", "ret"}
  Count = 3
  Outside = {100}
  Data = {200, 400}
  HalfRange = 256
SPECIFICATION Spec
INVARIANT SameBehaviour
CHECK_DEADLOCK FALSE
