SPECIFICATION Spec
CONSTANTS
  Nodes = {a}
  Targets = {t}
  NoTarget = NoTarget
  Kinds = {"message", "gate_message"}
  MaxChainMemory = 3
  ChainLockDepth = 1
  ResetBelow = 2
  SpoolLimit = 2
  SpoolSenderLimit = 1
  SpoolTTL = 1
  MaxAge = 0
  MaxEvents = 6
  MaxSequence = 2
  MaxClaim = 1
  MaxTime = 1
  MaxForkLen = 2
  MaxOffChain = 2
INVARIANT TypeOK
INVARIANT ChainLinked
INVARIANT IndexCoherent
INVARIANT HotWindowFull
INVARIANT HotSequencesIncrease
PROPERTY PrivateSequencesKept
PROPERTY ImplementsLedger
CHECK_DEADLOCK FALSE
