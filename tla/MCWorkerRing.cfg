SPECIFICATION FairSpec
CONSTANTS
  Slots = 1
  N = 2
  Completions = {c1, c2}
  EventMod = 3
  Gates = {"open", "full", "stopped"}
  ReapFirst = TRUE
INVARIANT NoSlotRace
INVARIANT RequestIsLive
INVARIANT DrainedAtExit
PROPERTY ImplementsDurableQueue
PROPERTY CallReturns
PROPERTY AdmittedCompletes
PROPERTY DestroyReturns
