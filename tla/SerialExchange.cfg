\* Two programs on one port; two retries; one stray message; one lost request.
CONSTANTS
  Presets = {p1, p2}
  MaxClients = 2
  MaxRetries = 2
  MaxStrays = 1
  MaxLost = 1
SPECIFICATION FairSpec
INVARIANTS
  TypeOK
  ConfiguredMeansApplied
  RecordingIsMeasured
PROPERTY ProgramEnds
CHECK_DEADLOCK FALSE
