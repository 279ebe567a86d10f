\* Each of these is violated; TLC is asked for one at a time.
SPECIFICATION Spec
CONSTANTS
  Peers = {"p", "q"}
  Seeds = {}
  Threads = {"loop"}
  PrivateRequired = TRUE
  MaxPeers = 3
  Interval = 3
  Base = 1
  Cap = 4
  Cooldown = 2
  SeedCooldown = 1
  StaleAfter = 3
  Clamp = 6
  Waits = {0, 5, 9}
  Refusals = {"429", "http"}
  MaxFailures = 3
  MaxAborts = 1
PROPERTY NeverHammer
\* INVARIANT NeverSilent
