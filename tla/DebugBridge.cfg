SPECIFICATION FairSpec
CONSTANTS
    Transfers <- MCTransfers
    AddrSpace = 48
    Depth = 2
    CtrMod = 4
    SeqReads = FALSE
    Garbage = {0, 7}
    Repeated = FALSE
    MaxLate = 1
INVARIANT
    Inv
PROPERTIES
    TransparentUntilFault
    Ends
