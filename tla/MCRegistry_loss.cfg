SPECIFICATION Spec
CONSTANTS
    w1 = w1  w2 = w2  cli = cli
    dashboard = dashboard  navgator = navgator
    a = a  b = b
    Caller = {w1, w2, cli}
    Process = {dashboard, navgator}
    ProcOf <- Home
    Path = {a, b}
    Ops <- Register
    MaxAttempts = 1
    None = None
    FsErrors = FALSE
    Crashes = FALSE
INVARIANTS LossIsRecorded
CHECK_DEADLOCK FALSE
