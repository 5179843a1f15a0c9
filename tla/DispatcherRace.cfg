SPECIFICATION Spec
CONSTANTS
  h1 = h1
  h2 = h2
  Experiment = {e1}
  Host = {h1, h2}
  Target <- TwoHosts
  MaxStreams = 2
  ChanCap = 1
  MaxHalts = 1
  MayCancel = TRUE
  MayHeal = FALSE
INVARIANTS TriggersTaken HaltReachesAll OutcomeTrue NewestIsCurrent
PROPERTIES FirstCauseKept
CHECK_DEADLOCK FALSE
