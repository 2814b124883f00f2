CONSTANTS
    alice = alice
    bob = bob
    eve = eve
    Users <- MCUsers
    AccountOf <- MCAccountOf
    Pin <- MCPin
    Opening <- MCOpening
    MaxBalance = 4
    Amounts = {0, 1, 3}
SPECIFICATION BankSpec
INVARIANTS
    BankTypeOK
    BalancesNonNegative
    MoneyConserved
PROPERTY
    DebitsNeedLogin
