SPECIFICATION FairSpec
CONSTANTS
    B = 2
    Commands <- MCCommands
    ReadData <- MCReadData
    MaxTodo = 2
    RespDepth = 1
INVARIANTS
    NoByteMissed
    AnswerSafe
    IInv
PROPERTIES
    Answered
    CarriesOut
