SPECIFICATION BlockingSpec
CONSTANTS
    Size = 1
    MaxItems = 6
INVARIANT
    IInv
PROPERTIES
    ImplementsQueue
    Wakes
CHECK_DEADLOCK FALSE
