\* Retries over three accounts, under fairness: three attempts, a single request
\* and a batch, the user's switch.
SPECIFICATION FairSpec
CONSTANTS
  NumAccounts = 3
  DailyQuota <- MCDailyQuota
  Weight <- MCOnes
  ScriptCount <- MCOnes
  SafetyMargin = 100
  MaxInFlight = 1
  FanoutMax = 2
  Strategy = "weighted_random"
  Cooloff = 2
  ThrottleBackoff = 1
  Day = 3
  ThrottleWindow = 2
  ThrottleLimit = 1
  ErrorsToBackoff = 1
  ErrorsToCooloff = 2
  IndexPeriod = 6
  MaxTime = 0
  Requests = {r1, r2}
  Batches = {r2}
  MaxAttempts = 3
  Answers = {"ok", "throttle", "other"}
  Toggled = {1}
INVARIANTS TypeOK RetryDiscipline
PROPERTIES EveryRequestReturns SlotsComeBack
