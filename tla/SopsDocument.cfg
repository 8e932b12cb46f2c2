SPECIFICATION Spec
CONSTANTS
    me = me  them = them  None = None
    Ints <- MCInts
    Floats <- MCFloats
    Shown <- MCShown
    Lookalikes = {"t0", "t1"}
    Analyses <- MCAnalyses
    Colons <- MCColons
    Matches <- MCMatches
    Letters <- MCLetters
    EncWord = "ENC"
    Version = "3.12.1"
    Drafts <- MCDrafts
    Policies <- MCPolicies
    AgeLists <- MCAgeLists
    Held = {me}
    Sets <- MCSets
    Unsets <- MCUnsets
    Rewrites <- MCRewrites
    Times = {"t0", "t1"}
    MaxCommands = 3
INVARIANTS
    TypeOK
    OpensAsMeant
    PolicyKept
PROPERTIES
    MixesRunTogether
    OneLeafSealed
    OthersShownAlike
CHECK_DEADLOCK FALSE
