SPECIFICATION RunSpec
CONSTANTS
  MaxWrites = 2
  PipeCap = 1
  LateWrites = 1
  Chatty = FALSE
  HasSignals = TRUE
  Copied = TRUE
  Limit = 1
INVARIANT TooLargeIsReported
