SPECIFICATION SFDSpec
CONSTANTS
    one = one
    two = two
    three = three
    empty = empty
    java = java
    ruby = ruby
    Languages = {java, ruby}
    Lines = {one, two, three}
    Empty = empty
    Hash <- Hashed
    Buffers <- Few
    FilePairs <- Pairs
    Large = 6
INVARIANTS
    KCandidates
    LeastChange
    DeltaOfFiles
PROPERTY
    Terminates
CHECK_DEADLOCK FALSE
