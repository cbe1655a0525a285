SPECIFICATION FairSpec
CONSTANTS
    Keys = {k1}
    Tokens = {t1, t2}
    NoDev = NoDev
    Burst = 1
    MaxPlugs = 0
    MaxPanics = 1
    MaxFails = 0
INVARIANTS TokenJobs
PROPERTIES InfoComes
