\* Two servers on one config directory, started and stopped at any time.
SPECIFICATION Spec
CONSTANTS
  a = a  b = b  NoOne = NoOne
  Servers = {a, b}
  Overlap = TRUE
  Interval = 1
  Cooldown = 1
  CyclesKeep = 1
  MaxTime = 2
  MaxStops = 3
  MaxRequests = 1
  Faults = {"kill"}
INVARIANTS TypeOK OneLoop LoopShown
SYMMETRY ServerSymmetry
CHECK_DEADLOCK FALSE
