SPECIFICATION Spec
CONSTANTS
  Cores = {0}
  Programs <- SyncAllPrograms
  FlagBlocking = FALSE
  LocalFlagDepth = 1
  CrossFlagDepth = 1
  MaxCrossCredits = 2
  DeadlockDetect = TRUE
  FlagBalanceCheck = "error"
  MaxCycles = 0
INVARIANT
  EveryWaitIsPaired
