SPECIFICATION Spec
CONSTANTS
  Nodes = {a, b, c}
  Targets = {t}
  NoTarget = NoTarget
  Kinds = {"dm_message", "key_revoke"}
  MaxChainMemory = 9
  ChainLockDepth = 1
  ResetBelow = 2
  SpoolLimit = 2
  SpoolSenderLimit = 1
  SpoolTTL = 0
  MaxAge = 1
  MaxEvents = 3
  MaxSequence = 2
  MaxClaim = 0
  MaxTime = 2
  MaxForkLen = 0
  MaxOffChain = 1
SYMMETRY NodeSymmetry
INVARIANT SpoolBounded
INVARIANT RevocationsCoherent
CHECK_DEADLOCK FALSE
