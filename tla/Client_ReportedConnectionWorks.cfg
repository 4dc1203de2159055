SPECIFICATION FairSpec
CONSTANTS
  MaxAttempts = 1
  Datagram = {FALSE}
INVARIANT ReportedConnectionWorks
CHECK_DEADLOCK FALSE
