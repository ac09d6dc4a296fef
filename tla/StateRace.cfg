\* Two runs by hand and clear-db against the loop, every failure.
SPECIFICATION Spec
CONSTANTS
  r1 = r1  r2 = r2  ooda = ooda
  Runners = {r1, r2}
  FullScanEvery = 2
  Threshold = 3
  MaxTime = 3
  Clears = TRUE
  LockPurged = FALSE
  Faults = {"etl", "save", "auth", "crash"}
INVARIANTS TypeOK MutualExclusion WatermarkBacked
SYMMETRY RunnerSymmetry
CHECK_DEADLOCK FALSE
