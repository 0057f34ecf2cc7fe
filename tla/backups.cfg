SPECIFICATION Spec
CONSTANTS
  Jobs = {j1}
  JobRows <- BackupJob
  Certs = {c1, c2}
  Issued = {c1}
  Workers = {w1, w2}
  Inputs = {"request", "revoke", "delete", "run", "cleanup", "restore", "dump", "crash"}
  MaxFp = 2
  MaxRows = 2
  MaxNow = 2
  MaxEvents = 5
CHECK_DEADLOCK FALSE
SYMMETRY Symmetry
INVARIANTS TypeOK BackupIsRestorable VerifiedRestores
PROPERTIES RestoreKeepsIdentity
