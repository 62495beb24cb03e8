SPECIFICATION Spec
CONSTANTS
    lib = lib  app = app  manifest = manifest
    File = {lib, app, manifest}
    Manifests = {manifest}
    Versions <- AnyVersions
    Imports <- OneImport
    Modes = {"auto", "full"}
    Cap = 1
    None = None
    Crashes = FALSE
    Errors = FALSE
INVARIANTS NoopIsCurrent
