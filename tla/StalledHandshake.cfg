CONSTANTS
    alice = alice
    bob = bob
    c1 = c1
    c2 = c2
    Users <- MCUsers
    AccountOf <- MCAccountOf
    Pin <- MCPin
    Opening <- MCOpening
    Conns <- MCConns
    MaxBalance = 1
    Amounts = {}
    Requests <- FewRequests
    Faults = {}
SPECIFICATION BankFairSpec
PROPERTY
    BacklogServed
