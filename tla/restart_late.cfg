SPECIFICATION RestartSpec
CONSTANTS
    p1 = p1
    p2 = p2
    NoOverride = NoOverride
    Ports = {p1, p2}
    PortsOf <- SamePort
    ChunkBytes = 1
    JitterPerChunk = 1
    MaxSampleBytes = 1
    MaxBursts = 2
    BurstCount = 1
    ClientTrials = 1
    MaxResends = 0
    MaxBoots = 3
    MaxAttempts = 2
    BoardIdle = TRUE
    Trials = 2
    StimBursts = NoOverride
    StimBytes = NoOverride
    FaultKinds = {"delay"}
    MaxFaults = 1
CHECK_DEADLOCK FALSE
INVARIANTS
    ResetMapsToItsCapture
