\* Each of these is violated; TLC is asked for one at a time.
SPECIFICATION Spec
CONSTANTS
  Nodes = {a, b}
  Targets = {t}
  NoTarget = NoTarget
  Kinds = {"message"}
  MaxChainMemory = 1
  ChainLockDepth = 1
  ResetBelow = 0
  SpoolLimit = 2
  SpoolSenderLimit = 1
  SpoolTTL = 1
  MaxAge = 0
  MaxEvents = 3
  MaxSequence = 2
  MaxClaim = 0
  MaxTime = 1
  MaxForkLen = 0
  MaxOffChain = 2
CHECK_DEADLOCK FALSE
INVARIANT FullSequencesIncrease
\* INVARIANT NewPeerCanFollow
