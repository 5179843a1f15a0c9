SPECIFICATION OfflineSpec
CONSTANTS
  Instance = {i1}
  Clear = {}
  OutCap = 14
  MaxLines = 1
  MaxStops = 1
  MaxRuns = 1
  MaxCrashes = 1
  OrphansSurvive = TRUE
  MarkMayFail = TRUE
  ListMayFail = TRUE
PROPERTIES AcceptedConcludes
CHECK_DEADLOCK FALSE
