CONSTANTS
    Bridges = {b1, b2}
    MaxData = 1
    Window = 1
    MaxSent <- OneUp
    Faults = {"reset"}
SPECIFICATION ProxyFairSpec
PROPERTIES SentArrives EndsTogether BacklogAccepted
CHECK_DEADLOCK FALSE
