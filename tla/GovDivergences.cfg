\* Each of these is violated; TLC is asked for one at a time.
SPECIFICATION Spec
CONSTANTS
  n1 = n1
  n2 = n2
  Nodes = {n1, n2}
  Kinds = {"petition", "upgrade"}
  SignWindow = 1
  VoteWindow = 1
  ChallengeWindow = 1
  ActivationWindow = 0
  DecayAge = 2
  Heavy = {n1}
  Winners = {n1}
  Records <- OneAndOther
  MaxTime = 3
  MaxEvents = 4
  MaxWins = 1
PROPERTY ExecutedStays
\* PROPERTY VoteBeginsOnce
\* INVARIANT ActiveIsReady
