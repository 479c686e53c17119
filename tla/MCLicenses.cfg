SPECIFICATION Spec
CONSTANTS
    NLic = 3
    MaxLang = 2
    MaxPos = 2
    Overrides <- OverrideChain
INVARIANTS
    MaximalSurvive
    ListIsSpecific
    SomethingReported
CHECK_DEADLOCK FALSE
