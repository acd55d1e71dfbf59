SPECIFICATION BenchFairSpec
CONSTANTS
    p1 = p1
    t1 = t1
    u1 = u1
    s1 = s1
    Ports = {p1}
    Uptimes = {u1}
    Timings = {t1}
    Startups = {s1}
    Filled = Filled
    DeviceProfile = 2
    ServerProfiles = {1, 2}
    CounterMod = 2
    CreditBits = 128
    LocalCredit = 256
    AllowLocalRefill = FALSE
    FaultKinds = {"drop", "late", "error", "split"}
    MaxFaults = 2
    MaxBoots = 5
    Runs = 4
CHECK_DEADLOCK FALSE
INVARIANTS
    RunsAreTrue
    LogsAgree
    SlowBootCostsOne
PROPERTIES
    BenchEnds
