SPECIFICATION Spec
CONSTANTS
    Scratch = {"hosts.yaml", "users.yaml"}
    Sidecars = {swap}
    Nested = {backup}
    Refusals = {"list", "overwrite", "unlink", "rmdir"}
    MaxEdits = 3
INVARIANTS
    ScratchShredded
    TextIsPrivate
CHECK_DEADLOCK FALSE
