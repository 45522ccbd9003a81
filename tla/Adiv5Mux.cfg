SPECIFICATION Spec
CONSTANTS
    JtagReq <- MCJtagReq
    SwdReq <- MCSwdReq
    Data = {d1, d2}
    Depth = 2
    PhyDepth = 2
    JtagRetryMax = 1
    SwdRetryMax = 2
    MaxBad = 2
INVARIANT
    PairedUndisturbed
PROPERTIES
    ServesInOrder
    Completes
