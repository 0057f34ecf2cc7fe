SPECIFICATION FairSpec
CONSTANTS
  a = a
  b = b
  a1 = a1
  a2 = a2
  b1 = b1
  p = p
  q = q
  Fps = {a, b}
  CrtIds = {a1, a2, b1}
  FpOf <- FpOfEntry
  Places = {p, q}
  Suspicious = {a}
  Batches <- Repeated
  Workers = {w1}
  Readers = {r1}
  Inputs = {"files", "network", "ct", "import", "delete", "close", "cancel", "crash"}
  MaxRuns = 2
  MaxRows = 2
CHECK_DEADLOCK FALSE
INVARIANTS NoDuplicates FailedLeavesNoRows
PROPERTIES  RunEnds
