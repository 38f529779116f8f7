SPECIFICATION SessionSpec
CONSTANTS
  Scripts <- MCScripts
  FlashSizes <- MCSizes
  Step = 2
  Unit = 2
  TopProbe = 4
  MaxLogs = 1
INVARIANTS
  TypeOK
  AnswerLag
  DumpFaithful
  WrittenLanded
  FinishedComplete
  PartSizeExact
PROPERTIES
  QuietWhileReading
  HostTerminates
