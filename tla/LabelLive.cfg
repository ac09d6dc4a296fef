\* One label; every failure but those the drift check cannot see (crash,
\* abort, a lost remove).
SPECIFICATION FairSpec
CONSTANTS
  h1 = h1  h2 = h2  l1 = l1
  Hosts = {h1, h2}
  Labels = {l1}
  ReapAge = 9
  MaxTime = 2
  QuietFrom = 2
  MaxStreak = 0
  Changes = {"members", "list", "hosts"}
  Faults = {"page", "fetch", "nodes", "add", "relink", "mark", "reap"}
INVARIANTS TypeOK OnlyMembersLinked
PROPERTIES DriftCaught LabelsConverge
CHECK_DEADLOCK FALSE
