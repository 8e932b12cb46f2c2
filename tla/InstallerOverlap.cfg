SPECIFICATION Spec
CONSTANTS
    Secrets = {"db", "api"}
    Templates = {}
    Keys = {"db", "api"}
    Files = {"app.yaml"}
    KeysIn <- MCKeysIn
    Manifests = {"only"}
    Manifest <- MCPair
    UserMode = TRUE
    Root = Root
    Stable = Stable
    None = None
    Procs = {p1, p2}
    MaxTime = 3
    SameSecond = FALSE
    Versions = {v1, v2}
    Damaged = Damaged
    MaxEdits = 0
    MaxFaults = 1
    MaxBoots = 0
    MaxBlind = 0
    Empty = Empty
INVARIANTS
    OnlyFinishedPublished
PROPERTIES
    LinkNeverWithdrawn
CHECK_DEADLOCK FALSE
