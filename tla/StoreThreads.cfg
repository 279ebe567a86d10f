SPECIFICATION Spec
CONSTANTS
  Writers = {"api", "sync"}
  MaxChainMemory = 9
  ResetBelow = 0
  MayBeLate = FALSE
  MaxEvents = 2
  MaxCrashes = 0
  MaxExits = 0
INVARIANT HistoryKept
CHECK_DEADLOCK FALSE
