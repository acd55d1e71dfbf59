SPECIFICATION Spec
CONSTANTS
    p1 = p1
    p2 = p2
    NoOverride = NoOverride
    Ports = {p1, p2}
    PortsOf <- SamePort
    ChunkBytes = 2
    JitterPerChunk = 1
    MaxSampleBytes = 3
    MaxBursts = 2
    BurstCount = 2
    ClientTrials = 2
    MaxResends = 1
    MaxBoots = 1
    Trials = 2
    StimBursts = 3
    StimBytes = 9
    FaultKinds = {"drop", "dup", "delay", "error"}
    MaxFaults = 2
CHECK_DEADLOCK FALSE
INVARIANTS
    BuffersInBounds
    SeenTellsBurstBytes
    CompleteRawIsOneTrial
    FaultCostsOneTrial
