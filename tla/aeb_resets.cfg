SPECIFICATION FairSpec
CONSTANTS
    p1 = p1
    p2 = p2
    NoOverride = NoOverride
    Ports = {p1, p2}
    PortsOf <- MaybeSamePort
    ChunkBytes = 1
    JitterPerChunk = 1
    MaxSampleBytes = 2
    MaxBursts = 2
    BurstCount = 1
    ClientTrials = 1
    MaxResends = 0
    MaxBoots = 2
    Trials = 2
    StimBursts = NoOverride
    StimBytes = NoOverride
    FaultKinds = {"drop", "dup", "delay", "error", "idle"}
    MaxFaults = 2
CHECK_DEADLOCK FALSE
INVARIANTS
    CaptureWrittenOnce
    MatchedRawIsOneTrial
    PortsTellBootsApart
PROPERTIES Terminates
