SPECIFICATION FairSpec
CONSTANTS
  Warmup = 1
  Iterations = 2
  InjectEvery = 2
  EntropyBytes = 2
  MaxResponse = 3
  PoolMax = 2
  Threshold = 1
  MaxRequests = 2
  MaxFaults = 2
INVARIANTS
  RowsAreWindows
  RowsBalance
  AcceptedIsMixed
  FailuresAreTold
PROPERTIES BenchEnds
