CONSTANTS
    alice = alice
    bob = bob
    io = io
    cli = cli
    NoThread = NoThread
    Users <- MCUsers
    AccountOf <- MCAccountOf
    Pin <- MCPin
    Opening <- MCOpening
    MaxBalance = 2
    Amounts = {0, 1}
    Threads <- MCThreads
    Calls <- MCCalls
SPECIFICATION MutexSpec
INVARIANTS
    LockHeldInsideOnly
    ChecksStillHold
    ReadsAreCurrent
PROPERTY
    ImplementsBank
