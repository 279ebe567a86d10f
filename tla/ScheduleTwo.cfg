SPECIFICATION FairSpec
CONSTANTS
  Peers = {"p", "q"}
  Seeds = {"p"}
  Threads = {"loop", "kick"}
  PrivateRequired = FALSE
  MaxPeers = 1
  Interval = 2
  Base = 1
  Cap = 2
  Cooldown = 1
  SeedCooldown = 1
  StaleAfter = 2
  Clamp = 3
  Waits = {4}
  Refusals = {"429"}
  MaxFailures = 2
  MaxAborts = 1
INVARIANT TypeOK
INVARIANT NeverSilent
PROPERTY RunningNeverSticks
