SPECIFICATION FairSpec
CONSTANTS
  Instance = {i1}
  Clear = {c1}
  OutCap = 2
  MaxLines = 1
  MaxStops = 2
  MaxRuns = 2
  MaxCrashes = 2
  OrphansSurvive = FALSE
  MarkMayFail = FALSE
  ListMayFail = FALSE
INVARIANTS SupervisorSound NoStrandedFault CleanOutcome
PROPERTIES InjectsOnce KeepsLifecycle FaultsAreLifted AcceptedConcludes
CHECK_DEADLOCK FALSE
