SPECIFICATION FairSpec
CONSTANTS
  Workers = {w1}
  MaxDeploy = 3
  MaxQueue = 1
  Templates <- Various
  Eager = TRUE
  Preinstalled = TRUE
  Faults = {"unreachable"}
CHECK_DEADLOCK FALSE
PROPERTIES SuccessMeansInstalled   
