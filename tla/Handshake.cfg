CONSTANTS
    Faults = {"cut", "quit", "genrsa"}
    Zero = TRUE
    MaxKeys = 2
SPECIFICATION HandshakeFairSpec
INVARIANTS BankProven DialogueCanBegin AtmAfterBank AckCaptured FailsForCause
PROPERTIES HandshakeEnds
CHECK_DEADLOCK FALSE
