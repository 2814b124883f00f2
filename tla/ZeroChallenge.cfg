CONSTANTS
    Faults = {}
    Zero = TRUE
    MaxKeys = 0
SPECIFICATION HandshakeSpec
INVARIANTS RefusesOnlyOthers
CHECK_DEADLOCK FALSE
