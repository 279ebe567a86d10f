SPECIFICATION FairSpec
CONSTANTS
  Nodes <- Two
  Seed = "seed"
  Authors = {"seed"}
  Solo = {}
  Peers <- Line
  PushPeers <- Nobody
  MayCrash = {"seed"}
  Threads = {"loop"}
  Kinds = {"plain"}
  PrivateTransport = TRUE
  LocatorDense = 1
  LocatorSize = 4
  PageLimit = 1
  MaxRounds = 2
  BatchSize = 2
  ResetBelow = 9
  SoloLength = 0
  MaxEvents = 3
  MaxCrashes = 1
  MaxLosses = 0
PROPERTY ForksHeal
CHECK_DEADLOCK FALSE
