SPECIFICATION Spec
CONSTANTS
  Instance = {i1}
  OutCap = 1
  WireCap = 1
  DownCap = 1
  MaxTrouble = 2
  MarkMayFail = TRUE
INVARIANTS LiveViewsAgree NothingVanishes TaintKnown LinkSound NeverStalled
CHECK_DEADLOCK FALSE
