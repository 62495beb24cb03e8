SPECIFICATION Spec
CONSTANTS
    w1 = w1  w2 = w2  cli = cli
    dashboard = dashboard  navgator = navgator
    a = a  b = b
    Caller = {w1, w2, cli}
    Process = {dashboard, navgator}
    ProcOf <- Home
    Path = {a}
    Ops <- AllOps
    MaxAttempts = 1
    None = None
    FsErrors = TRUE
    Crashes = TRUE
INVARIANTS TypeOK LossNeedsOverlap OverlapNeedsBreach ScansCountedOnce
PROPERTIES StealsTheStale
VIEW View
SYMMETRY Interchangeable
CHECK_DEADLOCK FALSE
