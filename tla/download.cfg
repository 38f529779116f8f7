SPECIFICATION Spec
CONSTANTS
  Bits = {0}
  Space = 16
  FW = 4
  Win = 8
  Blk = 4
  Contents <- MCContents
  Locks <- MCLocks
  Downloads <- MCDownloads
  Payloads <- MCPayloads
  Areas <- MCAreas
  MaxStarts = 2
INVARIANTS
  TypeOK
  ReceivedPresent
  OutsideKept
  DamageBounded
  EraseExact
PROPERTIES
  EraseOnce
  Answered
