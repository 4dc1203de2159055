SPECIFICATION FairSpec
CONSTANTS
  p1 = p1
  p2 = p2
  Producers <- MCProducers
  MaxEntries = 2
  QueueSize = 1
  BatchSize = 1
  Policies = {"BLOCK"}
PROPERTY EnqueueReturns
CHECK_DEADLOCK FALSE
