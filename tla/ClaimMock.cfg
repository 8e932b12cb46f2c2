SPECIFICATION Spec
CONSTANTS
    Paths <- AllPaths
    Absent = Absent
    Map = Map
    Operator = Operator
    None = None
    Procs = {p1}
    Names = {"n1", "n2"}
    Items = {}
    Files = {"f1"}
    Plan <- MockPlans
    Plans = {"mocked"}
    Docs <- EmptyDocs
    MaxRuns = 1
    MaxFaults = 0
CHECK_DEADLOCK FALSE
PROPERTY
    MockTouchesNothing
