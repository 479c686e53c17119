SPECIFICATION SFSpec
CONSTANTS
    empty = empty
    short = short
    long = long
    c = c
    ruby = ruby
    NoLanguage = NoLanguage
    Languages = {c, ruby}
    Parsers = {c, ruby}
    Versions = {empty, short, long}
    Size <- Sizes
    Answer <- ByContents
    Spans <- TwoHalves
    Indents = {0, 1}
    MaxReports = 2
INVARIANTS
    NoOverrun
    AllCounted
    ParserGivenTheFile
    SizeAgrees
    OneVersion
    AnswersAgree
CHECK_DEADLOCK FALSE
