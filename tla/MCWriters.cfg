SPECIFICATION WritersSpec
CONSTANTS
    Proc = {p1, p2}
    Pid = {A, B}
    Boot = {b1}
    Unknown = Unknown
    None = None
    Corrupt = Corrupt
    MaxUses = 2
    ClaimDepth = 2
    Faults = TRUE
    c1 = c1  c2 = c2
    Caller = {c1, c2}
    MaxAttempts = 1
    MaxMilestones = 2
    MaxEvents = 3
    MemoryFaults = TRUE
    w1 = w1  w2 = w2
    Writer = {w1, w2}
    Capacity = 2
    Rotated = 2
    Past = 1
    MaxRecords = 6
    FsErrors = TRUE
    k1 = k1  k2 = k2
    Key = {k1, k2}
    MaxVersion = 2
    HistoryLimit = 2
    MaxScans = 3
    HistoryFaults = TRUE
INVARIANTS
    TypeOK OneWriter OneInGate WriterOnDisk NothingOrphaned UnlinksWhatItChecked
    GenerationBound LossIsAge ConflictsKept
    FoldsAll StatusFollowsRegistry
    TimelineReplays HistoryKept
PROPERTIES ImplementsLock
SYMMETRY Interchangeable
VIEW View
CHECK_DEADLOCK FALSE
