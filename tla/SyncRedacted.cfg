SPECIFICATION FairSpec
CONSTANTS
  Nodes <- Two
  Seed = "seed"
  Authors = {"seed"}
  Solo = {}
  Peers <- Line
  PushPeers <- Nobody
  MayCrash = {}
  Threads = {"loop"}
  Kinds = {"plain", "private", "redacted"}
  PrivateTransport = FALSE
  LocatorDense = 1
  LocatorSize = 4
  PageLimit = 1
  MaxRounds = 2
  BatchSize = 2
  ResetBelow = 9
  SoloLength = 0
  MaxEvents = 2
  MaxCrashes = 0
  MaxLosses = 0
PROPERTY Converges
CHECK_DEADLOCK FALSE
