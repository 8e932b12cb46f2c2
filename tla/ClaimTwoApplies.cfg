SPECIFICATION Spec
CONSTANTS
    Paths <- AllPaths
    Absent = Absent
    Map = Map
    Operator = Operator
    None = None
    Procs = {p1, p2}
    Names = {"n1", "n2", "n3", "n4", "n5", "n6"}
    Items = {"i1", "i2"}
    Files = {"f1", "f2"}
    Plan <- MixedPlans
    Plans = {"mixed", "mocked"}
    Docs <- SparseDocs
    MaxRuns = 2
    MaxFaults = 0
PROPERTY
    KeptUnlessRotated
CHECK_DEADLOCK FALSE
