\* A host may leave between two pages; stamps, their prefetch and the
\* prune of emptied hosts may fail.
SPECIFICATION Spec
CONSTANTS
  h1 = h1  h2 = h2  s1 = s1  s2 = s2  t1 = t1  t2 = t2
  Hosts = {h1, h2}
  Software = {s1}
  Teams = {t1}
  HostTeam <- OneTeam
  MaxTime = 3
  hostBatchSize = 1
  softwareGroupFlush = 1
  Margin = 1
  Skew = 0
  ReapAge = 9
  Changes = {"report", "leave"}
  HostReap = FALSE
  Faults = {"shift", "stamp", "emptied", "prefetch"}
  QuietFrom = 9
INVARIANT StampTruthful
SYMMETRY Symmetry
CHECK_DEADLOCK FALSE
