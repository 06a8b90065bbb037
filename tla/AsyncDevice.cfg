\* Two calls, two reader threads, a queue of two messages that the stream overflows.
CONSTANTS
  QueueSize = 2
  MaxStarts = 2
  MaxArrivals = 5
  MaxCalls = 2
SPECIFICATION FairSpec
INVARIANTS
  TypeOK
  AnswerIsMine
  FailedCreateCleansUp
PROPERTIES
  QuietAfterClose
  CallReturns
  ImplementsOrderedDelivery
CHECK_DEADLOCK FALSE
