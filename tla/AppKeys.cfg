SPECIFICATION Spec
SYMMETRY Symmetry
CONSTANTS
    Keys = {k1, k2}
    Tokens = {}
    NoDev = NoDev
    Burst = 1
    MaxPlugs = 2
    MaxPanics = 1
    MaxFails = 1
INVARIANTS TypeOK PaneOfSelected PinToItsKey ListSettled
PROPERTIES LockOutlivesJobs ResetAfterReplug
