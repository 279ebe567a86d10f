SPECIFICATION FairSpec
CONSTANTS
  Nodes <- Three
  Seed = "seed"
  Authors = {"seed"}
  Solo = {}
  Peers <- Line
  PushPeers <- SeedPushesToA
  MayCrash = {"a", "b"}
  Threads = {"loop"}
  Kinds = {"plain"}
  PrivateTransport = TRUE
  LocatorDense = 1
  LocatorSize = 4
  PageLimit = 1
  MaxRounds = 2
  BatchSize = 2
  ResetBelow = 9
  SoloLength = 0
  MaxEvents = 3
  MaxCrashes = 1
  MaxLosses = 1
INVARIANT TypeOK
INVARIANT NothingNew
PROPERTY ImplementsReplication
PROPERTY Converges
CHECK_DEADLOCK FALSE
