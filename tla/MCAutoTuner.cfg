CONSTANTS
  proc1 = proc1
  proc2 = proc2
  tuner1 = tuner1
  tuner2 = tuner2
  tuner3 = tuner3
  conf1 = conf1
  conf2 = conf2
  Free = Free
  Procs <- MCProcs
  Tuners <- MCTuners
  TunerProc <- MCTunerProc
  Settings <- MCSettings
  ConfigOrder <- MCConfigOrder
  Calls <- MCCalls
  ProcOf <- MCProcOf
  KeyOf <- MCKeyOf
  Latencies <- MCLatencies
  NumWorkers = 1
  Worst = 3
SPECIFICATION FairTunerSpec
CHECK_DEADLOCK FALSE
INVARIANTS
  TunerTypeOK
  BestOfMeasured
  ResultOfOneConfig
  TunerRaisesOnlyContested
PROPERTIES
  EveryRunEnds
