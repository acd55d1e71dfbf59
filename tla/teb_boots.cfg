SPECIFICATION FairSpec
CONSTANTS
    p1 = p1
    p2 = p2
    t1 = t1
    u1 = u1
    u2 = u2
    s1 = s1
    s2 = s2
    Ports = {p1}
    Uptimes = {u1, u2}
    Timings = {t1}
    Startups = {s1}
    Filled = Filled
    DeviceProfile = 2
    ServerProfiles = {1, 2}
    CounterMod = 8
    CreditBits = 128
    LocalCredit = 256
    AllowLocalRefill = FALSE
    FaultKinds = {"drop", "dup", "late", "damage", "error"}
    MaxFaults = 2
    MaxBoots = 3
CHECK_DEADLOCK FALSE
INVARIANTS
    SeedIsBound
    OwnCapsule
    CreditIsTheCapsules
    FailsOnlyByFault
PROPERTIES
    BootsDecide
