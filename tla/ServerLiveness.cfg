CONSTANTS
    alice = alice
    bob = bob
    c1 = c1
    c2 = c2
    Users <- MCUsers
    AccountOf <- MCAccountOf
    Pin <- MCPin
    Opening <- MCOpening
    Conns <- MCConns
    MaxBalance = 1
    Amounts = {}
    Requests <- FewRequests
    Faults = {"reset", "timeout", "accept", "cut"}
SPECIFICATION FairSpec
\* After an accept error the bank process ends with its last session, and in a crash.
CHECK_DEADLOCK FALSE
PROPERTIES
    RequestsAreRead
    BacklogServed
    ClosedAreReleased
