CONSTANTS
  Dot = Dot
  Colon = Colon
  LeftBracket = LeftBracket
  RightBracket = RightBracket
  Bad = Bad
  None = None
  LongRange = 1000000
  Texts <- MCTexts
  Addrs <- MCAddrs
SPECIFICATION AddressSpec
INVARIANTS
  PrintsItsMeaning
  ReadsItsMeaning
  PortAsGiven
CHECK_DEADLOCK FALSE
