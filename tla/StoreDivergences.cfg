\* Each of these is violated; TLC is asked for one at a time.
SPECIFICATION FairSpec
CONSTANTS
  Writers = {"api"}
  MaxChainMemory = 9
  ResetBelow = 0
  MayBeLate = TRUE
  MaxEvents = 3
  MaxCrashes = 1
  MaxExits = 1
CHECK_DEADLOCK FALSE
INVARIANT AckedSurvives
\* PROPERTY WalRetiredWhenDurable
\* PROPERTY DirtyIsFlushed
\* PROPERTY TimedIsWritten
\* PROPERTY CleanExitKeepsAll
\* PROPERTY FlushedSurvives
