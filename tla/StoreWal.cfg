SPECIFICATION Spec
CONSTANTS
  Writers = {"api", "sync"}
  MaxChainMemory = 2
  ResetBelow = 2
  MayBeLate = TRUE
  MaxEvents = 3
  MaxCrashes = 2
  MaxExits = 1
INVARIANT TypeOK
PROPERTY BootRetiresWal
CHECK_DEADLOCK FALSE
