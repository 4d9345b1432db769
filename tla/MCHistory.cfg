CONSTANTS
    a = a
    b = b
    c = c
    d = d
    e = e
    EUR = EUR
    USD = USD
    Currencies <- MCCurrencies
    Scale = 12
    DayLength = 2
    Weightings <- MCWeightings
    Templates <- MCTemplates
    Ids <- MCIds
    Dates <- MCDates
    MaxClock = 1
SPECIFICATION Spec
INVARIANTS
    TypeOK
    BalanceIsClosedSum
    DriftBounded
    TimelineIsPastBalance
    SpendingLinesUp
    SpendingAgrees
PROPERTIES
    PastIsStable
