SPECIFICATION FairSpec
CONSTANTS
  MaxSignals = 3
  ChanCap = 2
INVARIANTS TypeOK NotRepeated SkippedHadArrived
PROPERTY TermIsRelayed
