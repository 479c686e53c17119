SPECIFICATION Spec
CONSTANTS
    Languages = {c, ruby, sql}
    c = c
    ruby = ruby
    sql = sql
    Lists = {files, total}
    files = files
    total = total
    LocAmounts <- SmallLocs
    DeltaAmounts <- SmallDeltas
    MaxCalls = 4
INVARIANTS
    DeltasComplete
CHECK_DEADLOCK FALSE
