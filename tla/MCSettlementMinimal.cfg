CONSTANTS
    MaxUser = 5
    MaxCents = 3
    Users <- MCUsers
    CurrencyOrder <- OneCurrency
    Inputs <- ZeroSum
SPECIFICATION Spec
INVARIANTS
    MinimalTransfers
CHECK_DEADLOCK FALSE
