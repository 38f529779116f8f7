SPECIFICATION Spec
INVARIANTS
  TypeOK
  BootRight
  InOrder
  SdramTuned
PROPERTIES
  ImplementsFifo
  ImplementsRun
  NothingWaits
