SPECIFICATION Spec
CONSTANTS
    Secrets = {"db", "api"}
    Templates = {}
    Keys = {"db", "api"}
    Files = {"app.yaml"}
    KeysIn <- MCKeysIn
    Manifests = {"only"}
    Manifest <- MCKeepZero
    UserMode = TRUE
    Root = Root
    Stable = Stable
    None = None
    Procs = {p1, p2}
    MaxTime = 2
    SameSecond = FALSE
    Versions = {v1, v2}
    Damaged = Damaged
    MaxEdits = 0
    MaxFaults = 0
    MaxBoots = 0
    MaxBlind = 0
    Empty = Empty
INVARIANT LiveComplete
CHECK_DEADLOCK FALSE
