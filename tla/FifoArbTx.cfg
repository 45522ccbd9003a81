SPECIFICATION TxSpec
CONSTANTS
    Code <- MCCode
    Tag <- MCTag
    Depth = 2
    HostDepth = 1
INVARIANTS
    Inv
PROPERTIES
    MergesUntilCollision
