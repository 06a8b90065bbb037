\* One reader thread and three calls: restore_factory_defaults is the second
\* or the third.
CONSTANTS
  BufferSize = 1
  MaxStarts = 1
  MaxArrivals = 2
  MaxCalls = 3
  JoinMayExpire = FALSE
  Remeasure = FALSE
  Unreliable = FALSE
SPECIFICATION Spec
PROPERTY RestoreInConfigMode
