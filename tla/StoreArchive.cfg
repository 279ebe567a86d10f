SPECIFICATION Spec
CONSTANTS
  Writers = {"api"}
  MaxChainMemory = 1
  ResetBelow = 0
  MayBeLate = FALSE
  MaxEvents = 3
  MaxCrashes = 1
  MaxExits = 0
INVARIANT HistoryKept
CHECK_DEADLOCK FALSE
