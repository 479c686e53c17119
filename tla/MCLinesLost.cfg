SPECIFICATION Spec
CONSTANTS
    Scanners <- Php
    Texts <- PhpTexts
    LaterTexts <- PhpTexts
    NFiles = 1
INVARIANTS
    EveryLineReported
CHECK_DEADLOCK FALSE
