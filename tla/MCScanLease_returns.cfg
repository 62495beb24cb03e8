SPECIFICATION FairSpec
CONSTANTS
    Proc = {p1, p2}
    Pid = {A, B}
    Boot = {b1}
    Unknown = Unknown
    None = None
    Corrupt = Corrupt
    MaxUses = 1
    ClaimDepth = 2
    Faults = TRUE

PROPERTIES CallsReturnUnlessBlocked

CHECK_DEADLOCK FALSE
