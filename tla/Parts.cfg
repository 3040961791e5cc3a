\* Every part at the size at which its interesting cases happen.
SPECIFICATION FairSpec
CONSTANTS
  NumArms = 3
  Hedged = TRUE
  Failures = {"quota", "throttle", "transient", "other"}
  Backends = {"tunnel", "batch", "script", "relayed"}
  MaxItems = 3
  MaxTotal = 7
  Size = 3
  Limits = {0, 2, 5}
  MaxAdded = 8
  Hosts = {"h1", "h2", "h3"}
  Caps = {0, 1, 2}
  MaxRecords = 4
  Views = {"home", "top"}
  Calls = {c1, c2}
  MaxFlips = 2
  MaxInstalls = 3
  Addresses = {"a", "b"}
  MaxVisits = 2
  Near = 65
  MaxSteps = 3
  NumIPs = 3
  Workers = {w1, w2}
  MaxRTT = 2
INVARIANTS
  FailureIsTheWorst NoArmCutShort
  AstrayOnlyAfterFailedReplay UnsafeSentOnce
  EveryCutServes PageIsTheNewest TableIsTheLatest PageFollowsTrust
  GreenIsItsOwn
PROPERTIES NoFlash NoFigureGoesBack EveryArmEnds ShowsTheTruth InstallSettles ScanSettles
CHECK_DEADLOCK FALSE
