\* Two ports and one device, plugged in twice; start, stop and start again; one
\* probe or open that fails for no lasting reason.
CONSTANTS
  Ports = {p1, p2}
  Devices = {d1}
  MaxPlugs = 2
  MaxStarts = 2
  MaxFailures = 1
SPECIFICATION FairSpec
INVARIANTS
  StopReleasesTheRest
PROPERTIES
  QuietAfterStop
  StopReturns
