\* One question of each kind; a blocklist of up to three pages, two read.
SPECIFICATION Spec
CONSTANTS
  None = None
  PageLimit = 2
  CorrelateNodeCap = 3
INVARIANTS FailuresTold BlockedFound ScoreRises TrustEarned ShownHolds
CHECK_DEADLOCK FALSE
