\* A key moved out of a slot the session had not read: the pane takes its new slot as empty.
SPECIFICATION Spec
CONSTANTS
    Slots = {s1, s2}
    Keys = {k1, k2}
    None = None
    Unnamed = Unnamed
    Unread = Unread
    Verified = Verified
    MaxTries = 1
    MaxFaults = 1
    MaxWrites = 3
SYMMETRY SlotKeySymmetry
INVARIANT EmptyIsEmpty
