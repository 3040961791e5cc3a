\* One account under three requests: slots, quota, cool-offs and the rolling
\* window, over a running clock.
SPECIFICATION Spec
CONSTANTS
  NumAccounts = 1
  DailyQuota <- MCDailyQuota
  Weight <- MCOnes
  ScriptCount <- MCOnes
  SafetyMargin = 100
  MaxInFlight = 2
  FanoutMax = 2
  Strategy = "weighted_random"
  Cooloff = 2
  ThrottleBackoff = 1
  Day = 3
  ThrottleWindow = 2
  ThrottleLimit = 1
  ErrorsToBackoff = 1
  ErrorsToCooloff = 2
  IndexPeriod = 2
  MaxTime = 4
  Requests = {r1, r2, r3}
  Batches = {r3}
  MaxAttempts = 2
  Answers = {"ok", "quota", "throttle", "transient"}
  Toggled = {1}
SYMMETRY MCSymmetry
INVARIANTS LeaseConservation QuotaOvershootBounded
PROPERTIES LeasesFormPool SpentStaysOut CooloffNotEndedByReplies
