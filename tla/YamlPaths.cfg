SPECIFICATION Spec
CONSTANTS
    Paths <- FourDeep
    Absent = Absent
    Map = Map
    Old = Old
    New = New
INVARIANTS
    StoresAsTheLoop
    SetThenGet
    SecondSetHolds
