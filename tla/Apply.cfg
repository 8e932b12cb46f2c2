SPECIFICATION FairSpec
CONSTANTS
    Paths <- AllPaths
    Absent = Absent
    Map = Map
    Operator = Operator
    None = None
    Procs = {p1}
    Names = {"n1", "n2", "n3", "n4", "n5", "n6"}
    Items = {"i1", "i2"}
    Files = {"f1", "f2"}
    Plan <- MixedPlans
    Plans = {"mixed", "partial", "mocked"}
    Docs <- SparseDocs
    MaxRuns = 2
    MaxFaults = 2
INVARIANTS
    TypeOK
    SuccessMeansPresent
    Accounted
PROPERTIES
    KeptUnlessRotated
    OnlyPlannedPaths
    AppliesEnd
CHECK_DEADLOCK FALSE
