SPECIFICATION Spec
CONSTANTS
  Base = 4
  Header = 3
  Escape = 2
  Flip <- MCFlip
  Replies <- MCReplies
  MaxRead = 4
  RecvBufLen = 8
  MaxTimeouts = 2
INVARIANTS
  TypeOK
  OnlySent
  LossBounded
  NoFalseExit
  AllReturned
