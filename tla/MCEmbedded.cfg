SPECIFICATION EmbSpec
CONSTANTS
    Scanners <- Both
    Hosts <- AllHosts
    Texts <- EmbTexts
    LaterTexts <- NextTexts
    NFiles = 2
INVARIANTS
    StackBounded
    EmbReportsInText
    EmbNoLineLost
PROPERTIES
    LanguageOnLine
    LineInItsLanguage
    EmbTerminates
CHECK_DEADLOCK FALSE
