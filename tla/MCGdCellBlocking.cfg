CONSTANTS
  Threads = {t1, t2, t3}
  Main = t1
  MaxCalls = 4
  UsizeMax = 3
  Misordered = TRUE
SPECIFICATION FairSpec
INVARIANTS TypeOK MutatorIsAlone FreshBorrowsRarelyFail
PROPERTIES ImplementsOwnedLock TryDropNotStale BlockedReturns
CHECK_DEADLOCK FALSE
