SPECIFICATION FairSpec
CONSTANTS
  Writers = {"api"}
  MaxChainMemory = 9
  ResetBelow = 0
  MayBeLate = FALSE
  MaxEvents = 4
  MaxCrashes = 3
  MaxExits = 0
PROPERTY ImplementsDurableLog
PROPERTY SavedIsWritten
CHECK_DEADLOCK FALSE
