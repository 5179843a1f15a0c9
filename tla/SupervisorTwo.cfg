SPECIFICATION Spec
CONSTANTS
  Instance = {i1, i2}
  Clear = {}
  OutCap = 1
  MaxLines = 0
  MaxStops = 0
  MaxRuns = 1
  MaxCrashes = 1
  OrphansSurvive = FALSE
  MarkMayFail = FALSE
  ListMayFail = TRUE
SYMMETRY IdSymmetry
INVARIANTS QuarantineHolds TaintRefuses
CHECK_DEADLOCK FALSE
