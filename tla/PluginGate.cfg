SPECIFICATION Spec
CONSTANTS
  Absent = Absent
  Garbled <- Partial
  Chunk <- Chunks
  Program <- Programs
  Version = {"1", "2"}
  Manifest <- Manifests
  Libraries <- Roots
  Definition <- Definitions
  SpawnRetries = 1
  MaxInstalls = 2
  MaxModes = 1
  MaxStops = 1
  MaxCrashes = 1
INVARIANTS
  RanAsOrdered ValidationAgrees MarkerAccounted GateSound
PROPERTY KeepsContract
CHECK_DEADLOCK FALSE
