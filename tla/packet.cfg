SPECIFICATION PartSpec
CONSTANTS
  Base = 4
  Header = 3
  Escape = 2
  Flip <- MCFlip
  MaxPkt = 8
  Lines <- MCLines
INVARIANTS
  TypeOK
  OnlySent
  LossBounded
  NoFalseAlarm
  FrameFits
  UnreadKept
  FrameRight
