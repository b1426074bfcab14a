SPECIFICATION FairSpec
CONSTANTS
  Cores = {0}
  Programs <- BlockingPrograms
  FlagBlocking = TRUE
  LocalFlagDepth = 1
  CrossFlagDepth = 1
  MaxCrossCredits = 2
  DeadlockDetect = FALSE
  FlagBalanceCheck = "warn"
  MaxCycles = 0
PROPERTIES
  OrderSpec
  Terminates
