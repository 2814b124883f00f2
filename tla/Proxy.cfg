CONSTANTS
    Bridges = {b1}
    MaxData = 2
    Window = 2
    MaxSent <- MoreUp
    Faults = {"reset", "accept", "refuse"}
SPECIFICATION ProxySpec
INVARIANTS ProxyTypeOK NothingLostWhileOpen
PROPERTIES ClosesForCause LastWordsDelivered ImplementsRelay
CHECK_DEADLOCK FALSE
