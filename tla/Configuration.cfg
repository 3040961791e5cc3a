\* Two handlers at a time in the wizard and on the pages.
SPECIFICATION Spec
CONSTANTS
  Jobs = {1, 2}
  MaxTurns = 1
  InitialFiles <- Found
  DiskFails = TRUE
  Calls = {k1, k2}
  MaxCalls = 2
  Values = {"dotblank", "dot", "name"}
  Normal <- Cleaned
  Letters = {"a"}
  MaxText = 8
SYMMETRY MCSymmetry
INVARIANTS NoStepSkipped StaleOnlyBehindALateAnswer
PROPERTIES OnlyAStaleSaveForgetsSetup SaveTakesBackNothing KeystrokeIsLocal
CHECK_DEADLOCK FALSE
