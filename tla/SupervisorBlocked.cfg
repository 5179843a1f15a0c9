SPECIFICATION OfflineSpec
CONSTANTS
  Instance = {i1}
  Clear = {}
  OutCap = 3
  MaxLines = 1
  MaxStops = 1
  MaxRuns = 1
  MaxCrashes = 1
  OrphansSurvive = FALSE
  MarkMayFail = FALSE
  ListMayFail = FALSE
PROPERTIES SelfAborts
CHECK_DEADLOCK FALSE
