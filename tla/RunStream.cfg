SPECIFICATION RunFairSpec
CONSTANTS
  MaxWrites = 2
  PipeCap = 1
  LateWrites = 0
  Chatty = TRUE
  HasSignals = TRUE
  Copied = TRUE
INVARIANTS TypeOK NothingLost EndIsHonest StatusKept ZeroIsWhole FailureIsMirrored StopIsNotBlamed
PROPERTIES ImplementsFeed ReturnsOnceEnded FailureStopsCommand EarlyEndDrains
