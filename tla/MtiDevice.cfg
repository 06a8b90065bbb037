\* Three calls, two reader threads, a buffer that the stream overflows.
CONSTANTS
  BufferSize = 1
  MaxStarts = 2
  MaxArrivals = 4
  MaxCalls = 3
  JoinMayExpire = FALSE
  Remeasure = FALSE
  Unreliable = TRUE
SPECIFICATION FairSpec
INVARIANTS
  TypeOK
  AnswerIsMine
  ClosedIsQuiet
  MeasuringIsTracked
PROPERTIES
  CallReturns
  FaultIsSeen
  ImplementsOrderedDelivery
