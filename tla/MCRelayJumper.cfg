CONSTANT
  MaxArgs = 7
SPECIFICATION FairSpec
INVARIANTS
  RelayGetsItsParameters
  StackPointerAccounted
PROPERTIES
  CallerFrameKept
  CallsComeBack
CHECK_DEADLOCK FALSE
