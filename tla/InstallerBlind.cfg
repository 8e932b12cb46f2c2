SPECIFICATION Spec
CONSTANTS
    Secrets = {"root-pw", "db", "api"}
    Templates = {"app.env"}
    Keys = {"root-pw", "db", "api"}
    Files = {"host.yaml", "app.yaml"}
    KeysIn <- MCKeysIn
    Manifests = {"old", "new"}
    Manifest <- MCManifest
    UserMode = FALSE
    Root = Root
    Stable = Stable
    None = None
    Procs = {p1}
    MaxTime = 3
    SameSecond = FALSE
    Versions = {v1, v2}
    Damaged = Damaged
    MaxEdits = 0
    MaxFaults = 1
    MaxBoots = 1
    MaxBlind = 2
    Empty = Empty
INVARIANTS
    OneSecureStore
    LiveWholeOrHidden
CHECK_DEADLOCK FALSE
