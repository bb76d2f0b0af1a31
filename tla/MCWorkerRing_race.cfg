SPECIFICATION Spec
CONSTANTS
  Slots = 2
  N = 2
  Completions = {c1, c2}
  EventMod = 4
  Gates = {"open"}
  ReapFirst = FALSE
INVARIANT DrainedAtExit
