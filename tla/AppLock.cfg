SPECIFICATION Spec
SYMMETRY Symmetry
CONSTANTS
    Keys = {k1}
    Tokens = {}
    NoDev = NoDev
    Burst = 1
    MaxPlugs = 0
    MaxPanics = 0
    MaxFails = 0
INVARIANTS LockSticks
