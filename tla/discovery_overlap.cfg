SPECIFICATION Spec
CONSTANTS
  a = a
  b = b
  a1 = a1
  a2 = a2
  b1 = b1
  p = p
  q = q
  Fps = {a, b}
  CrtIds = {a1, a2, b1}
  FpOf <- FpOfEntry
  Places = {p, q}
  Suspicious = {a}
  Batches <- Overlapping
  Workers = {w1, w2}
  Readers = {r1}
  Inputs = {"files", "network", "ct", "delete", "unignore", "close", "reopen", "late"}
  MaxRuns = 2
  MaxRows = 3
CHECK_DEADLOCK FALSE
INVARIANTS TypeOK CountIsRight
SYMMETRY Symmetry
