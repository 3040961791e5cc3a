\* Round robin while accounts reach their in-flight cap.
SPECIFICATION BusySpec
CONSTANTS
  NumAccounts = 3
  DailyQuota <- MCDailyQuota
  Weight <- MCOnes
  ScriptCount <- MCOnes
  SafetyMargin = 100
  MaxInFlight = 1
  FanoutMax = 2
  Strategy = "round_robin"
  Cooloff = 2
  ThrottleBackoff = 1
  Day = 3
  ThrottleWindow = 2
  ThrottleLimit = 1
  ErrorsToBackoff = 1
  ErrorsToCooloff = 2
  IndexPeriod = 6
  MaxTime = 0
  Requests = {r1, r2}
  Batches = {}
  MaxAttempts = 2
  Answers = {"other"}
  Toggled = {}
PROPERTIES EveryHealthyAccountServes
