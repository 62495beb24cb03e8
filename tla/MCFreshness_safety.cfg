SPECIFICATION Spec
CONSTANTS
    File = {f}
    Hooks = {h1, h2}
    Refreshers = {r}
    Scans = {}
    MaxAttempts = 2
    Crashes = TRUE
    Errors = TRUE
INVARIANTS TypeOK ClearedOnceScanned NothingForgotten  FlightHasACause
VIEW View
SYMMETRY Interchangeable
CHECK_DEADLOCK FALSE
