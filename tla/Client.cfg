SPECIFICATION FairSpec
CONSTANTS
  MaxAttempts = 2
  Datagram = {TRUE, FALSE}
INVARIANTS TypeOK ResolvedOnce DisconnectCloses
PROPERTY AttemptEnds
CHECK_DEADLOCK FALSE
