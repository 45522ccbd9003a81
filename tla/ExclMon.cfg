SPECIFICATION Spec
CONSTANTS
    Addr = {a1, a2}
    NoAddr = NoAddr
    MaxDelay = 3
INVARIANTS
    AckedIsAtomicUnlessOverlapped
    AckedInTimeUnlessOverlapped
    Reserved
