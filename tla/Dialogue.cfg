CONSTANTS
    ByteBits = 4
    CharBits = 3
    GroupSize = 5
    Padding = Padding
    NewLine = NewLine
    Nul = Nul
    BlockSize = 2
    BlockCipher <- MCBlockCipher
    Typed <- MCTyped
    Valid <- MCValid
    Answers <- MCAnswers
    IV <- MCIV
    Tails <- MCTails
    MaxLength = 16
    Window = 16
    MaxRequests = 3
    MaxCuts = 1
SPECIFICATION DialogueSpec
INVARIANTS DialogueTypeOK AnswersBelong FaultsMoveEnds AnswersIntact PortionsDecode DivisionIsIrrelevant NobodyWaitsForNothing
CHECK_DEADLOCK FALSE
