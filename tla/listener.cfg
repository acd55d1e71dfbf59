\* Three sessions: two bursts a trial, then idle ones with shorter and with the
\* longest windows; two faults.
SPECIFICATION ListenerSpec
CONSTANTS
    Sessions <- MCSessions
    Trials = 3
    MaxBursts = 2
    MaxChunks = 2
    QueueLength = 4
    MaxFaults = 2
INVARIANTS PacketLossIsTrue LossCostsOneTrial WindowIsTheRowsOwn
CHECK_DEADLOCK FALSE
