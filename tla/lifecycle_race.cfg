SPECIFICATION Spec
CONSTANTS
  Certs = {c1}
  Imported = {}
  Workers = {w1, w2}
  Readers = {r1}
  Inputs = {"issue", "renew", "revoke", "retry", "cancel", "crash"}
  MaxExec = 2
  MaxFp = 2
  MaxQueue = 1
CHECK_DEADLOCK FALSE
SYMMETRY Symmetry
INVARIANTS TypeOK InProgressHasExecution RenewingHasExecution PathMatchesFingerprint
