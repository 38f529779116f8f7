SPECIFICATION Spec
CONSTANTS
  Bits = {0}
  Space = 16
  FW = 4
  Win = 8
  Blk = 4
  Contents <- MCContents
  Locks <- MCLocks
  Downloads <- MCDownloads
  Payloads <- MCPayloads
  Areas <- MCPastEnd
  MaxStarts = 1
INVARIANTS
  EraseOnlyArea
