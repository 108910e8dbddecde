SPECIFICATION TodoSpec
CONSTANTS
    Chars = {"x", " "}
    Space = " "
    MaxLen = 2
    MaxId = 3
    MaxRuns = 3
INVARIANTS
    ListIsRight
PROPERTIES
    EditsOneTodo
CHECK_DEADLOCK FALSE
