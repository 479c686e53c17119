SPECIFICATION Spec
CONSTANTS
    Languages = {c, ruby, sql}
    c = c
    ruby = ruby
    sql = sql
    Lists = {files, total}
    files = files
    total = total
    LocAmounts <- SmallLocs
    DeltaAmounts <- SmallDeltas
    MaxCalls = 5
SYMMETRY Symmetry
INVARIANTS
    OneEntry
    LocsComplete
    TotalsConserved
CHECK_DEADLOCK FALSE
