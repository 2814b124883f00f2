CONSTANTS
    ByteBase = 4
    Radix = 16384
    WindowLimits <- MCWindowLimits
    ChallengeLength = 3
    MinText = 8
    BankKeys <- MCBankKeys
    AtmKey <- MCAtmKey
    Random <- MCRandom
SPECIFICATION ChallengeSpec
INVARIANTS ChallengeReturns ArithmeticIsExact
\* The exchange ends with its verdict.
CHECK_DEADLOCK FALSE
