SPECIFICATION Spec
CONSTANTS
    Scanners <- All
    Texts <- AllTexts
    LaterTexts <- NextTexts
    NFiles = 2
INVARIANTS
    ReportsInText
    ConformingLines
    NoLineLost
    InOrder
    OwnReports
PROPERTIES
    Terminates
CHECK_DEADLOCK FALSE
