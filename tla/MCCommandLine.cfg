SPECIFICATION CLSpec
CONSTANTS
    Paths <- DPaths
    Hidden <- DHidden
    LinkTo <- ToS
    Trees <- DTrees
    ArgLists <- DArgs
    Cwd <- d
    MaxChanges = 1
    Alphabet <- Names
    Has <- DHas
    Answers <- DAnswers
    MaxListed = 5
INVARIANTS
    StayedListedOnce
    ListedRightly
    SummaryOfFiles
    RowsOfFiles
PROPERTIES
    ClientOfLoc
    Ends
CHECK_DEADLOCK FALSE
