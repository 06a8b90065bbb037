\* Two reader threads are enough: one that faults, one started meanwhile.
CONSTANTS
  MaxStarts = 2
  MaxMessages = 1
  JoinMayExpire = FALSE
SPECIFICATION Spec
INVARIANT RunningIsAlive
