SPECIFICATION Spec
CONSTANTS
  Workers = {w1, w2}
  MaxDeploy = 2
  MaxQueue = 1
  Templates <- BothInstalls
  Eager = FALSE
  Preinstalled = TRUE
  Faults = {"unreachable", "restore", "abort", "crash"}
CHECK_DEADLOCK FALSE
INVARIANTS TypeOK NoBackupIsNewer 
SYMMETRY Symmetry
