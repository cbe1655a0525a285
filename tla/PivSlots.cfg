\* The PIV pane on one card with two slots: caches, import reports, certificates.
SPECIFICATION Spec
CONSTANTS
    Slots = {s1, s2}
    Keys = {k1, k2}
    None = None
    Unnamed = Unnamed
    Unread = Unread
    Verified = Verified
    MaxTries = 2
    MaxFaults = 1
    MaxWrites = 2
SYMMETRY SlotKeySymmetry
INVARIANT TypeOK
INVARIANT CacheCurrent
INVARIANT ImportSays
PROPERTY StoresMatching
