CONSTANTS
  MaxTasks = 3
  MaxQueue = 2
SPECIFICATION FairSpec
INVARIANTS TypeOK SlotsAreSafe IsPendingIsTrue
PROPERTIES ImplementsTaskPool WokenIsPolled
CHECK_DEADLOCK FALSE
