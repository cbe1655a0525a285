CONSTANTS
    r1 = r1
    t1 = t1
    n1 = n1
    Opaque = {r1}
    Notes = {t1}
    Names = {n1, n2}
    BadNames = {n2}
    Skipped = {s1}
    Junk = Junk
    NoItem = NoItem
    Procs = {app, ctl}
    Apps = {app}
    Scanners = {app}
    Frag = 3
    MaxCells = 4
    Stored <- MCStored
    MaxOps = 2
    MaxForeign = 1
SPECIFICATION Spec
INVARIANTS TypeOK ReadsWhole NoStaleName
PROPERTIES WritesOnCurrent DestroysOnlyShown
