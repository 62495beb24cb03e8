SPECIFICATION Spec
CONSTANTS
    File = {f}
    Hooks = {h1, h2}
    Refreshers = {r}
    Scans = {}
    MaxAttempts = 2
    Crashes = FALSE
    Errors = FALSE
INVARIANTS FlightShown
CHECK_DEADLOCK FALSE
