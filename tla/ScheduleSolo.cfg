SPECIFICATION Spec
CONSTANTS
  Peers = {"p"}
  Seeds = {}
  Threads = {"loop"}
  PrivateRequired = FALSE
  MaxPeers = 3
  Interval = 3
  Base = 1
  Cap = 4
  Cooldown = 2
  SeedCooldown = 1
  StaleAfter = 3
  Clamp = 6
  Waits = {0, 5, 9}
  Refusals = {"429"}
  MaxFailures = 3
  MaxAborts = 1
PROPERTY FailuresRemembered
