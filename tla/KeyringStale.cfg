CONSTANTS
    k1 = k1  k2 = k2  k3 = k3  n1 = n1  n2 = n2
    Names = {n1, n2}
    Serials = {k1, k2}
    Rows <- KeyRows
    Salts = {s1, s2}
    NoSerial = NoSerial
    NoSalt = NoSalt
    Procs = {p1}
    OldFiles <- Older
    MaxCrashes = 0
    MaxErrors = 1
    MaxForeign = 1
    MaxSaltLosses = 0
SPECIFICATION Spec
PROPERTY ConversionKeepsNames
CHECK_DEADLOCK FALSE
