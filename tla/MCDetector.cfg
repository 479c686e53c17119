SPECIFICATION Spec
CONSTANTS
    NULL = NULL
    BINARY = BINARY
    Label = 2
    Width = 4
    Buffer = 5
    ShebangWithin = 3
    PuppetWithin = 7
    Files <- Groups
    Magic <- Says
    Languages <- Names
    ByExtension <- ExtensionTable
    ByName <- NameTable
    ByFilename <- FilenameTable
    ModeOf <- Modes
    Lower <- Small
INVARIANTS
    UndecoratedAgrees
    LinesSoFar
    EmptyLinesIrrelevant
CHECK_DEADLOCK FALSE
