SPECIFICATION Spec
CHECK_DEADLOCK FALSE
CONSTANTS
    Sizes = {1, 4}
    MaxBlockSize = 2
    MaxBlocks = 5
    MaxItems = 6
    MaxWalks = 1
INVARIANTS
    NoRaceButSize
    Asserts
    SizeHonestUnlessStrayed
PROPERTY
    ImplementsQueue
