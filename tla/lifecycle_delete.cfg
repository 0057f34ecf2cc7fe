SPECIFICATION Spec
CONSTANTS
  Certs = {c1}
  Imported = {}
  Workers = {w1, w2}
  Readers = {r1}
  Inputs = {"issue", "delete", "retry", "bulk", "partial"}
  MaxExec = 2
  MaxFp = 2
  MaxQueue = 1
CHECK_DEADLOCK FALSE
SYMMETRY Symmetry
  
PROPERTY DeletedStaysDeleted
