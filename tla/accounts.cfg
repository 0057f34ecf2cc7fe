SPECIFICATION Spec
CONSTANTS
  Names = {"admin", "ann"}
  Procs = {p1, p2}
  Inputs = {"login", "create", "disable", "enable", "demote", "promote", "reset", "password", "mfa_setup", "mfa_enable", "mfa_disable", "api"}
  MaxAttempts = 2
  MaxRequests = 6
  MaxTokens = 2
CHECK_DEADLOCK FALSE
SYMMETRY Symmetry
INVARIANTS TypeOK StartupSeeds LastAdminStays LockoutCounts OldTokensRevoked
