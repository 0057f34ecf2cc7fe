SPECIFICATION FairSpec
CONSTANTS
  h = h
  Hosts = {h}
  Ports <- ThreePorts
  Requests <- Candidates
  Answers = {"confirmed", "unreachable"}
  Workers = {w1, w2}
  Inputs = {"bulk", "delete", "limit"}
  MaxScans = 2
  MaxCrashes = 1
  MaxQueue = 1
CHECK_DEADLOCK FALSE
INVARIANTS TypeOK CountsAddUp
PROPERTIES SourceNeverDowngraded  ResultsAppearWithCompletion
