\* The loop alone, dying and starting again.
SPECIFICATION FairSpec
CONSTANTS
  r1 = r1  r2 = r2  ooda = ooda
  Runners = {}
  FullScanEvery = 3
  Threshold = 4
  MaxTime = 8
  Clears = FALSE
  LockPurged = FALSE
  Faults = {"etl", "auth", "crash"}
INVARIANTS CadenceKept FullScanDue
PROPERTY FullScansRecur
CHECK_DEADLOCK FALSE
