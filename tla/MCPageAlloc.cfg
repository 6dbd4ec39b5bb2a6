CONSTANTS
  Granularity = 2
  MinApplication = 2
  MaxApplication = 19
  range = 7
  Layouts <- MCLayouts
  Addresses = {10, 11, 12}
  MaxInterference = 3
SPECIFICATION FairSpec
INVARIANTS
  InRange
  FindsSteadilyFree
  NearestBelowFirst
PROPERTIES
  SearchEnds
CHECK_DEADLOCK FALSE
