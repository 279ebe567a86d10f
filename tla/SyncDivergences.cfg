\* Each of these is violated; TLC is asked for one at a time.
SPECIFICATION Spec
CONSTANTS
  Nodes <- Two
  Seed = "seed"
  Authors = {"seed"}
  Solo = {"a"}
  Peers <- Line
  PushPeers <- APushesToSeed
  MayCrash = {}
  Threads = {"loop", "kick"}
  Kinds = {"plain"}
  PrivateTransport = TRUE
  LocatorDense = 1
  LocatorSize = 4
  PageLimit = 1
  MaxRounds = 2
  BatchSize = 2
  ResetBelow = 3
  SoloLength = 2
  MaxEvents = 4
  MaxCrashes = 0
  MaxLosses = 0
CHECK_DEADLOCK FALSE
INVARIANT NothingNew
\* PROPERTY ResetOnlyForLonger
\* PROPERTY LongChainKept
