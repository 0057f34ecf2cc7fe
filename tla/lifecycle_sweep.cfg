SPECIFICATION FairSpec
CONSTANTS
  Certs = {c1, c2, c3}
  Imported = {c3}
  Workers = {w1}
  Readers = {r1}
  Inputs = {"issue", "import", "clone", "update"}
  MaxExec = 2
  MaxFp = 3
  MaxQueue = 1
CHECK_DEADLOCK FALSE
PROPERTY DueIsAttempted
