SPECIFICATION RxFairSpec
CONSTANTS
    Code <- MCCode
    Tag <- MCTag
    Depth = 2
    HostDepth = 2
INVARIANTS
    NoDrop
    IInv
PROPERTIES
    RoutesPackets
    Forwards
