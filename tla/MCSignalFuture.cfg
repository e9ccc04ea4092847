CONSTANTS
  Confined = TRUE
  FreeElsewhere = TRUE
  Mismatch = TRUE
  MaxDeferred = 3
SPECIFICATION FairSpec
INVARIANTS TypeOK ResolvesToWhatHappened DroppedIsDisconnected CrashHasCause
PROPERTY Resolves
CHECK_DEADLOCK FALSE
