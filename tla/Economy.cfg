SPECIFICATION Spec
CONSTANTS
  n1 = n1
  n2 = n2
  d1 = d1
  Bettors = {n1, n2}
  DisputeIds = {d1}
  Picks <- FewPicks
  Trigger = 0
  EvidenceWindow = 1
  ResolutionWindow = 1
  MinParticipants = 1
  MinTotalStake = 1
  MarketTime = 2
  MaxBets = 2
  MarketLength = 6
  MaxLate = 1
  p = p
  a = a
  b = b
  Nodes = {p, a, b}
  Predictors = {p}
  Aged = {p, a, b}
  Offers <- FewOffers
  Rotations <- Renamings
  MinStake = 2
  MinVotes = 2
  Parts = 2520
  MaxPool = 10
  MaxEvidence = 2
  MaxStakes = 3
  MaxVotes = 3
  MaxLinks = 2
  m1 = m1
  Members = {m1}
  MaxPetitions = 2
  LockMin = 1
  SuspendDays = 2
  DelayDays = 2
  AppealDays = 1
  GateTime = 2
  GateLength = 6
  MaxSocial = 2
INVARIANTS TypeOK SettlementBalances ShutdownIsDue
PROPERTIES StatusForward OnlyReversalsMove PredictorsHaveNoSay SupportNeverHurts ShutForGood
CHECK_DEADLOCK FALSE
