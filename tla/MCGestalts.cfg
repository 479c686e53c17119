SPECIFICATION GSpec
CONSTANTS
    Definitions <- AllDefinitions
    Sources <- KindSet
    FileLists <- SmallLists
    Unweighed <- Markup
    MaxFiles = 3
INVARIANTS
    Supported
    Closed
PROPERTIES
    GTerminates
CHECK_DEADLOCK FALSE
