SPECIFICATION FairSpec
CONSTANTS
    File = {f}
    Hooks = {h1, h2}
    Refreshers = {}
    Scans = {s}
    MaxAttempts = 2
    Crashes = FALSE
    Errors = FALSE
PROPERTIES EditDrained
CHECK_DEADLOCK FALSE
