\* Three names and a batch of one; two requests to authorize, two
\* scans beside them; three snapshots, two kept.
SPECIFICATION FairSpec
CONSTANTS
  rare = rare  common = common  known = known
  enricher = enricher  route = route
  h = h  u = u  s = s  x = x  l = l
  r1 = r1  r2 = r2  v1 = v1  v2 = v2
  slack = slack  Slack = Slack  zoom = zoom
  Worker = enricher
  Callers = {enricher, route}
  Requests = {route}
  Attempts = 2
  MaxMishaps = 1
  Names = {rare, common, known}
  Eligible = {rare, common}
  Catalog = {known}
  Legacy = {common}
  Rank <- MCRank
  Threshold = 2
  BatchSize = 1
  MaxIncidents = 2
  Adders = {r1, r2}
  Software = {slack, zoom}
  Entries = {slack, zoom, Slack, " "}
  Normal <- MCNormal
  Blank = ""
  MaxAccidents = 1
  Viewers = {v1, v2}
  CacheTTL = 1
  CacheMax = 1
  MaxClock = 1
  Things = {h, u, s, x, l}
  Kind <- MCKind
  Nameless = {x}
  Links <- MCLinks
  Times = {1, 2, 3}
  Hour <- MCHour
  Retain = 2
  MaxEdits = 1
  MaxLosses = 1
  MaxAgings = 1
INVARIANTS TypeOK DriverShared NamesKept ScansCurrent SnapshotsHold
PROPERTIES OnlyGrows EveryNameSettled
CHECK_DEADLOCK FALSE
