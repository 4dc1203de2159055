SPECIFICATION FairSpec
CONSTANTS
  p1 = p1
  p2 = p2
  Producers <- MCProducers
  MaxEntries = 2
  QueueSize = 2
  BatchSize = 1
  Policies = {"BLOCK", "DISCARD_OLDEST", "DISCARD_NEWEST"}
INVARIANTS TypeOK QueueBounded StatisticsAddUp ProcessedIsWritten PerThreadOrder
PROPERTIES WorkGoesOn ShutdownReturns ImplementsLog
CHECK_DEADLOCK FALSE
