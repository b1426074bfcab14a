SPECIFICATION ExecutionSpec
CONSTANTS
  Cores = {0, 1}
  Programs <- SimulatedPrograms
  FlagBlocking = FALSE
  LocalFlagDepth = 1
  CrossFlagDepth = 1
  MaxCrossCredits = 2
  DeadlockDetect = TRUE
  FlagBalanceCheck = "error"
  MaxCycles = 20
INVARIANTS
  TypeOK
  OrderKept
  AuditIsExact
  DeadlockIsGlobal
  DeadlockIsInherent
  ExecutedAsScheduled
  FirstRendezvousSeparates
  AcceptedEdgesOrdered
PROPERTIES
  OrderSpec
