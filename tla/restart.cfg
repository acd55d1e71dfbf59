SPECIFICATION RestartFairSpec
CONSTANTS
    p1 = p1
    p2 = p2
    NoOverride = NoOverride
    Ports = {p1, p2}
    PortsOf <- SamePort
    ChunkBytes = 1
    JitterPerChunk = 1
    MaxSampleBytes = 1
    MaxBursts = 2
    BurstCount = 1
    ClientTrials = 1
    MaxResends = 1
    MaxBoots = 4
    MaxAttempts = 3
    BoardIdle = TRUE
    Trials = 2
    StimBursts = NoOverride
    StimBytes = NoOverride
    FaultKinds = {"drop", "error", "idle"}
    MaxFaults = 2
CHECK_DEADLOCK FALSE
INVARIANTS
    ResetMapsToItsCapture
    ReportsAreWhole
PROPERTIES
    RunnerEnds
