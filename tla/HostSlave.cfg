SPECIFICATION FairSpec
CONSTANTS
    B = 2
    Transfers <- MCTransfers
    AnswerData <- MCAnswerData
    Depth = 2
INVARIANTS
    Inv
PROPERTIES
    TwoCycleError
    AnswersUntilLoss
    Ends
