SPECIFICATION Spec
CONSTANTS
    Secrets = {"db", "api"}
    Templates = {"app.env"}
    Keys = {"db", "api"}
    Files = {"app.yaml", "host.yaml"}
    KeysIn <- MCKeysIn
    Manifests = {"only"}
    Manifest <- MCRenamed
    UserMode = FALSE
    Root = Root
    Stable = Stable
    None = None
    Procs = {p1}
    MaxTime = 2
    SameSecond = FALSE
    Versions = {v1, v2}
    Damaged = Damaged
    MaxEdits = 0
    MaxFaults = 0
    MaxBoots = 0
    MaxBlind = 0
    Empty = Empty
INVARIANT TemplateHoldsReferencedSecret
CHECK_DEADLOCK FALSE
