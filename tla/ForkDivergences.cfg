\* Each of these is violated; TLC is asked for one at a time.
SPECIFICATION Spec
CONSTANTS
  Nodes = {a}
  Targets = {t}
  NoTarget = NoTarget
  Kinds = {"message", "key_revoke", "dm_message"}
  MaxChainMemory = 9
  ChainLockDepth = 1
  ResetBelow = 0
  SpoolLimit = 2
  SpoolSenderLimit = 1
  SpoolTTL = 1
  MaxAge = 0
  MaxEvents = 4
  MaxSequence = 3
  MaxClaim = 0
  MaxTime = 2
  MaxForkLen = 2
  MaxOffChain = 2
CHECK_DEADLOCK FALSE
INVARIANT SpoolBounded
\* PROPERTY RevokedKeyNeverExtends
