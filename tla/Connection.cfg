SPECIFICATION FairSpec
CONSTANTS
  MaxSends = 3
  MessageSize = 2
  Capacity = 3
  Secure = {TRUE, FALSE}
  Loop = loop
  c1 = c1
  Closers <- OneCloser
INVARIANTS TypeOK StreamIntact FlushArmed CloseIsWhole
PROPERTIES PeerCloseIsNoticed OutputDrains
CHECK_DEADLOCK FALSE
