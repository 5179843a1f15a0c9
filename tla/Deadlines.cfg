SPECIFICATION Spec
CONSTANTS
  Second = 2
  Durations = {1, 2}
  Graces = {0, 1}
  Thresholds = {3}
  LongestRun = 1
  Margin = 5
  BackoffCap = 4
  Notice = 1
  MaxStops = 1
  MaxDelay = 1
  MaxBreaks = 2
  Horizon = 14
INVARIANTS
  NeverLate TimersSound OverInTime
PROPERTIES
  StopsEarned MasterOutwaits
CHECK_DEADLOCK FALSE
