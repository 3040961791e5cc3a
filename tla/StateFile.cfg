\* Crashes, restarts and both savers under the calls of one account.
SPECIFICATION SystemSpec
CONSTANTS
  NumAccounts = 1
  DailyQuota <- MCDailyQuota
  Weight <- MCOnes
  ScriptCount <- MCOnes
  SafetyMargin = 100
  MaxInFlight = 2
  FanoutMax = 1
  Strategy = "weighted_random"
  Cooloff = 1
  ThrottleBackoff = 1
  Day = 2
  ThrottleWindow = 1
  ThrottleLimit = 1
  ErrorsToBackoff = 1
  ErrorsToCooloff = 2
  IndexPeriod = 1
  MaxTime = 3
  Requests = {r1, r2}
  Batches = {}
  MaxAttempts = 1
  Answers = {"ok", "quota"}
  Toggled = {}
SYMMETRY MCSymmetry
INVARIANTS FileWhole SpentSurvivesRestart
PROPERTIES DiskNeverGoesBack
