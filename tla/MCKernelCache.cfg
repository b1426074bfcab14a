CONSTANTS
  proc1 = proc1
  proc2 = proc2
  key1 = key1
  call1 = call1
  call2 = call2
  call3 = call3
  Free = Free
  Procs <- MCProcs
  Keys <- MCKeys
  Calls <- MCCalls
  ProcOf <- MCProcOf
  KeyOf <- MCKeyOf
  MaxUpsets = 1
SPECIFICATION FairCacheSpec
CHECK_DEADLOCK FALSE
INVARIANTS
  CacheTypeOK
  RaisesOnlyContested
PROPERTIES
  KeepsPromise
  EveryCallEnds
