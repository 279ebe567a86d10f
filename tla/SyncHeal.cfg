SPECIFICATION FairSpec
CONSTANTS
  Nodes <- Two
  Seed = "seed"
  Authors = {"seed"}
  Solo = {"a"}
  Peers <- Line
  PushPeers <- Nobody
  MayCrash = {}
  Threads = {"loop", "kick"}
  Kinds = {"plain"}
  PrivateTransport = TRUE
  LocatorDense = 1
  LocatorSize = 4
  PageLimit = 1
  MaxRounds = 2
  BatchSize = 2
  ResetBelow = 3
  SoloLength = 3
  MaxEvents = 6
  MaxCrashes = 0
  MaxLosses = 0
PROPERTY ForksHeal
PROPERTY LongChainRecoverable
CHECK_DEADLOCK FALSE
