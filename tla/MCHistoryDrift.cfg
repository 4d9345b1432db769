CONSTANTS
    a = a
    b = b
    c = c
    d = d
    e = e
    EUR = EUR
    USD = USD
    Currencies <- MCCurrencies
    Scale = 60
    DayLength = 2
    Weightings <- DriftWeightings
    Templates <- DriftTemplates
    Ids <- MCIds
    Dates <- MCDates
    MaxClock = 1
SPECIFICATION Spec
INVARIANTS
    WithinOneCent
