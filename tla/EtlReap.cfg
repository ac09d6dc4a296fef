\* Full scans that reap the hosts they did not see, beside delta runs; writes
\* that fail half-way, failed pages and crashes.
SPECIFICATION Spec
CONSTANTS
  h1 = h1  h2 = h2  s1 = s1  s2 = s2  t1 = t1  t2 = t2
  Hosts = {h1, h2}
  Software = {s1}
  Teams = {t1}
  HostTeam <- OneTeam
  MaxTime = 3
  hostBatchSize = 2
  softwareGroupFlush = 2
  Margin = 1
  Skew = 0
  ReapAge = 1
  Changes = {"leave", "report"}
  HostReap = TRUE
  Faults = {"nodes", "rels", "delete", "stamp", "page", "reap", "crash"}
  QuietFrom = 9
INVARIANT InstalledNotLost
PROPERTY OnlyGoneReaped
SYMMETRY Symmetry
CHECK_DEADLOCK FALSE
