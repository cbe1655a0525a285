CONSTANTS
    k1 = k1  k2 = k2  k3 = k3  n1 = n1  n2 = n2
    Names = {n1, n2}
    Serials = {k1}
    Rows <- KeyRows
    Salts = {s1, s2, s3}
    NoSerial = NoSerial
    NoSalt = NoSalt
    Procs = {p1, p2}
    OldFiles <- OneName
    MaxCrashes = 1
    MaxErrors = 0
    MaxForeign = 0
    MaxSaltLosses = 0
SPECIFICATION Spec
PROPERTY RegistryNeverTorn
CHECK_DEADLOCK FALSE
