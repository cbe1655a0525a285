CONSTANTS
    a = a  b = b  ab = ab
    colon = colon  slash = slash  accent = accent
    s1 = s1  s2 = s2
    Labels <- MCLabels
    NoLabel = NoLabel
    Length <- MCLength
    Ambiguous = {colon}
    PeriodLike = {slash}
    NonAscii = {accent}
    StartsLabel <- MCStartsLabel
    Capacity <- MCCapacity
    LastSlot = 2
    Unknown = Unknown
    NoName = NoName
    Imports <- MCImports
    Elsewhere = {ab}
    Holds <- MCHolds
    Secrets = {s1, s2}
    NoSecret = NoSecret
    MaxForeign = 2
SPECIFICATION FairSpec
INVARIANTS TypeOK ReportTrue RoomAsPlanned PlannedFits OneWrongTry
PROPERTIES KeepsListed RunEnds
