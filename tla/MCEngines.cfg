SPECIFICATION ESpec
CONSTANTS
  N = 3
  Size = 3
  Chunks = {0, 4}
INVARIANTS
  WorkIsAwaited
  NothingLeftInFlight
PROPERTIES
  EveryTransactionReturns
  DestroyReturns
  ImplementsDurableQueue
  DirectIsDurableQueue
