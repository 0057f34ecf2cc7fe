SPECIFICATION FairSpec
CONSTANTS
  Certs = {c1}
  Imported = {}
  Workers = {w1, w2}
  Readers = {r1}
  Inputs = {"issue", "renew", "cancel", "maintenance", "crash"}
  MaxExec = 2
  MaxFp = 1
  MaxQueue = 1
CHECK_DEADLOCK FALSE
PROPERTY StuckRenewalIsCleared
