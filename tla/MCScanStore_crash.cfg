SPECIFICATION Spec
CONSTANTS
    lib = lib  app = app  manifest = manifest
    File = {lib, app}
    Manifests = {}
    Versions <- TwoVersions
    Imports <- OneImport
    Modes = {"auto", "full"}
    Cap = 1
    None = None
    Crashes = TRUE
    Errors = TRUE
CONSTRAINT FewFaults
INVARIANTS TypeOK  StoredGraphClosed CapHonoured
