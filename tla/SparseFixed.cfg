SPECIFICATION Spec
CONSTANTS
    Operators = {o1}
    Terms = {1, 2}
    Docs = {"d1", "d2"}
    Contents <- TwoTexts
    Sample <- OneSample
    Mode = "fixed"
    MaxEdits = 1
CHECK_DEADLOCK FALSE
PROPERTIES
    FixedKeepsIndexes
