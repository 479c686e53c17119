SPECIFICATION Spec
CONSTANTS
    NLic = 2
    MaxLang = 2
    MaxPos = 2
    Overrides <- OverridePair
INVARIANT
    AnyLanguageReported
CHECK_DEADLOCK FALSE
