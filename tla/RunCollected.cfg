SPECIFICATION RunFairSpec
CONSTANTS
  MaxWrites = 2
  PipeCap = 1
  LateWrites = 3
  Chatty = TRUE
  HasSignals = TRUE
  Copied = TRUE
  Limit = 2
INVARIANTS KeptWhole LimitIsExact DocumentIsWhole FailureIsMirrored
PROPERTIES ReturnsInTime
