SPECIFICATION Spec
CONSTANTS
    me = me  them = them  node = node  host = host  vault = vault  pgp = pgp  typo = typo  None = None
    Split <- MCSplit
    Unknown = {"--frobnicate"}
    Numbers = {"2"}
    Up <- MCUp
    Cwd = "repo"
    PathOf <- MCPathOf
    Hits <- MCHits
    Valid = {me, them, node}
    Ssh = {host}
    Places = {"xdg", "home", "var", "host"}
    DefaultPlaces <- MCDefaultPlaces
    Configs <- MCConfigs
    KeyTexts <- MCKeyTexts
    Envs <- MCEnvs
    Disks <- MCDisks
    Lines <- MCLines
    Manifests <- MCManifests
    MaxSteps = 3
PROPERTY
    NearestGoverns
CHECK_DEADLOCK FALSE
