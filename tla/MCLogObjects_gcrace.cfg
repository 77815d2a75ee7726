SPECIFICATION Spec
CONSTANTS
    None = None
    x = x
    y = y
    c1 = c1
    c2 = c2
    u1 = u1
    u2 = u2
    Addresses <- MCAddresses
    Contents <- MCContents
    Uploaders <- MCUploaders
    Grace = 1
    MaxDuration = 0
    StorageQuotas = {2}
    Overlap = TRUE
    MaxClock = 2
SYMMETRY Symmetry
INVARIANTS
    CommittedHasBytes
