\* One host through every failure that marks its host or fails its run,
\* a clock ahead of Fleet's or behind it, and runs for another team.
SPECIFICATION FairSpec
CONSTANTS
  h1 = h1  h2 = h2  s1 = s1  s2 = s2  t1 = t1  t2 = t2
  Hosts = {h1}
  Software = {s1}
  Teams = {t1, t2}
  HostTeam <- OneHost
  MaxTime = 4
  hostBatchSize = 1
  softwareGroupFlush = 1
  Margin = 2
  Skew = 1
  ReapAge = 9
  Changes = {"enroll", "report", "refresh", "leave"}
  HostReap = FALSE
  Faults = {"users", "hosts", "nodes", "rels", "page", "save"}
  QuietFrom = 3
INVARIANTS TypeOK NothingLost
PROPERTY Converges
CHECK_DEADLOCK FALSE
