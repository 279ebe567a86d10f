SPECIFICATION Spec
CONSTANTS
  Peers = {"p", "q"}
  Seeds = {}
  Threads = {"loop"}
  PrivateRequired = TRUE
  MaxPeers = 3
  Interval = 3
  Base = 1
  Cap = 0
  Cooldown = 2
  SeedCooldown = 1
  StaleAfter = 3
  Clamp = 6
  Waits = {0}
  Refusals = {"429"}
  MaxFailures = 3
  MaxAborts = 1
PROPERTY CapZeroIsConstant
