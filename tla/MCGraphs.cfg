SPECIFICATION Spec
CONSTANTS
    p = p  q = q  a = a  i = i  j = j  x = x  y = y
    Planner = {p, q}
    Agent = {a}
    Ingester = {i, j}
    Component = {x, y}
    TierChoices <- EachTier
    MaxDeep = 1
    MaxOrdinal = 1
    MaxRun = 1
    MaxPlan = 2
    MaxScan = 2
    MaxChange = 2
    Kills = TRUE
    Nodes = 4
    Buckets = 2
    MinGroup = 2
    PacketSize = 2
    MaxPackets = 2
    Source = {1, 2, 3, 4}
    Namings <- DistinctAndNot
    CycleLimit = 3
    MaxImports = 4
    Part = {1, 2, 3}
    Stranger = {4}
    MaxUses = 3
INVARIANTS
    DeepMapTypeOK
    StatusCounts AccountAddsUp
    EachOnce FirstPartConnected
    CyclesAreReal NoKnotMissed
    DeadIsUnreachable
PROPERTIES AcceptedStays
SYMMETRY Interchangeable
CHECK_DEADLOCK FALSE
