CONSTANTS
  CtuSize = 8
  MinSize = 1
  MaxMttDepth = 3
  MttDataSize = 18
  MaxTries = 4
SPECIFICATION TreeSpec
INVARIANTS Owned Rebuilt RoundTrip
CHECK_DEADLOCK FALSE
