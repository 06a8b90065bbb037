\* Three reader threads (a first one and two restarts), three messages.
CONSTANTS
  MaxStarts = 3
  MaxMessages = 3
  JoinMayExpire = FALSE
SPECIFICATION Spec
INVARIANTS
  TypeOK
  OneThreadReads
  PortIsFree
PROPERTIES
  QuietAfterStop
  ImplementsOrderedDelivery
