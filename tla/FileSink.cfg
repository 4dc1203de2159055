SPECIFICATION Spec
CONSTANTS
  rotation_size_ = 2
  Sizes = {1, 3}
  BackupSettings = {0, 1, 3}
  MaxIndex = 3
  MaxEntries = 5
  MaxCrashes = 2
CONSTRAINT CrashesBounded
INVARIANTS TypeOK BackupsInOrder OnlyOldestLost RetentionHeld
CHECK_DEADLOCK FALSE
