SPECIFICATION Spec
CONSTANTS
    Operators = {o1, o2}
    Terms = {1, 2}
    Docs = {"d1", "d2"}
    Contents <- TwoTexts
    Sample <- OneSample
    Mode = "rebuild"
    MaxEdits = 1
SYMMETRY Symmetry
CHECK_DEADLOCK FALSE
INVARIANTS
    TypeOK
    NoCollision
    SearchIsExact
PROPERTY ImplementsTable
