SPECIFICATION Spec
CONSTANTS
    Transfers <- MCTransfers
    AddrSpace = 48
    Depth = 2
    CtrMod = 4
    SeqReads = TRUE
    Garbage = {0, 7}
    Repeated = FALSE
    MaxLate = 1
INVARIANT AtOwnAddress
