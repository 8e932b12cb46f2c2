SPECIFICATION Spec
CONSTANTS
    Secrets = {"root-pw", "db", "api"}
    Templates = {"app.env"}
    Keys = {"root-pw", "db", "api"}
    Files = {"host.yaml", "app.yaml"}
    KeysIn <- MCKeysIn
    Manifests = {"old", "new"}
    Manifest <- MCManifest
    UserMode = FALSE
    Root = Root
    Stable = Stable
    None = None
    Procs = {p1}
    MaxTime = 3
    SameSecond = FALSE
    Versions = {v1, v2}
    Damaged = Damaged
    MaxEdits = 1
    MaxFaults = 1
    MaxBoots = 1
    MaxBlind = 0
    Empty = Empty
INVARIANTS
    TypeOK
    LiveComplete
    OneDecryptionPerFile
    WidenedLast
    NeverBlocked
    PublishedWithinBudget
PROPERTIES
    LiveUntouched
    PublishesAtomically
CHECK_DEADLOCK FALSE
