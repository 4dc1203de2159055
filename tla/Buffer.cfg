SPECIFICATION Spec
CONSTANTS
  b1 = b1
  b2 = b2
  Buffers <- MCBuffers
  InitialSizes = {1, 2}
  MaxLen = 3
  MaxBytes = 6
  kMaxConnectionPoolSize = 1
INVARIANTS TypeOK GrowthBounded
PROPERTY ImplementsQueues
