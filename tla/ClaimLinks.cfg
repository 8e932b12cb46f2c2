SPECIFICATION Spec
CONSTANTS
    Secrets = {"db", "api"}
    Templates = {}
    Keys = {"db", "api"}
    Files = {"app.yaml"}
    KeysIn <- MCKeysIn
    Manifests = {"only"}
    Manifest <- MCPair
    UserMode = FALSE
    Root = Root
    Stable = Stable
    None = None
    Procs = {p1}
    MaxTime = 2
    SameSecond = FALSE
    Versions = {v1, v2}
    Damaged = Damaged
    MaxEdits = 0
    MaxFaults = 1
    MaxBoots = 0
    MaxBlind = 0
    Empty = Empty
INVARIANT OutOfTreeLinksResolve
CHECK_DEADLOCK FALSE
