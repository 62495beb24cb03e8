SPECIFICATION FairSpec
CONSTANTS
    w1 = w1  w2 = w2  cli = cli
    dashboard = dashboard  navgator = navgator
    a = a  b = b
    Caller = {w1, w2, cli}
    Process = {dashboard, navgator}
    ProcOf <- Home
    Path = {a}
    Ops <- RegisterOne
    MaxAttempts = 1
    None = None
    FsErrors = TRUE
    Crashes = TRUE

PROPERTIES MutationsEnd
CHECK_DEADLOCK FALSE
