\* As MtiDevice.cfg, with goto_measurement called while measuring.
CONSTANTS
  BufferSize = 1
  MaxStarts = 2
  MaxArrivals = 3
  MaxCalls = 2
  JoinMayExpire = FALSE
  Remeasure = TRUE
  Unreliable = TRUE
SPECIFICATION Spec
INVARIANT MeasuringIsTracked
