\* One label through every failure but that of the MERGE of a rewrite.
SPECIFICATION Spec
CONSTANTS
  h1 = h1  h2 = h2  l1 = l1
  Hosts = {h1, h2}
  Labels = {l1}
  ReapAge = 1
  MaxTime = 2
  QuietFrom = 9
  MaxStreak = 0
  Changes = {"members", "list", "hosts"}
  Faults = {"page", "fetch", "nodes", "remove", "add", "abort", "mark", "reap",
            "crash"}
PROPERTY RewriteRepairs
SYMMETRY HostSymmetry
CHECK_DEADLOCK FALSE
