\* Two ports and two devices, plugged in twice in all; start, stop and start
\* again; one probe or open that fails for no lasting reason.
CONSTANTS
  Ports = {p1, p2}
  Devices = {d1, d2}
  MaxPlugs = 2
  MaxStarts = 2
  MaxFailures = 1
SPECIFICATION FairSpec
INVARIANTS
  TypeOK
  RegisteredIsOpen
  DisconnectedOnce
PROPERTIES
  QuietAfterStop
  PortIsServed
  EmptyPortIsDropped
  StopReturns
