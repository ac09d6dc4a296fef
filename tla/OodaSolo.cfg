\* One server after the other, with every failure.
SPECIFICATION FairSpec
CONSTANTS
  a = a  b = b  NoOne = NoOne
  Servers = {a}
  Overlap = FALSE
  Interval = 1
  Cooldown = 1
  CyclesKeep = 2
  MaxTime = 2
  MaxStops = 2
  MaxRequests = 1
  Faults = {"kill", "panic", "findings", "append"}
INVARIANTS HistoryOrdered FindingsWhole
PROPERTY TriggerServed
CHECK_DEADLOCK FALSE
