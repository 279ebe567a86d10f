SPECIFICATION Spec
CONSTANTS
  Nodes = {a}
  Targets = {t}
  NoTarget = NoTarget
  Kinds = {"message"}
  MaxChainMemory = 9
  ChainLockDepth = 1
  ResetBelow = 2
  SpoolLimit = 2
  SpoolSenderLimit = 1
  SpoolTTL = 1
  MaxAge = 0
  MaxEvents = 2
  MaxSequence = 3
  MaxClaim = 1
  MaxTime = 1
  MaxForkLen = 0
  MaxOffChain = 2
PROPERTY PrivateSequencesNeverReused
CHECK_DEADLOCK FALSE
