\* One port and one device, plugged in again while it is being probed.
CONSTANTS
  Ports = {p1}
  Devices = {d1}
  MaxPlugs = 2
  MaxStarts = 1
  MaxFailures = 0
SPECIFICATION Spec
INVARIANT StopClosesAll
