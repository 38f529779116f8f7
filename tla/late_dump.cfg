SPECIFICATION Spec
CONSTANTS
  Scripts <- MCTwoDumps
  FlashSizes = {5}
  Step = 2
  Unit = 2
  TopProbe = 4
  MaxLogs = 0
INVARIANTS
  DumpAlwaysFaithful
