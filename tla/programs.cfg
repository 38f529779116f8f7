SPECIFICATION Spec
INVARIANTS
  TypeOK
  HostRight
  ArchiveRight
  DecodedRight
  SdbootRight
PROPERTIES
  RemovalSafe
