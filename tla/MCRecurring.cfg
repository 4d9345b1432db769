CONSTANTS
    Threads = {phone, laptop}
    Templates = {rent}
    Frequencies = {"weekly", "monthly"}
    StartDates <- MCStartDates
    Null = Null
    MaxExpenses = 2
    MaxDates = 3
SYMMETRY ThreadSymmetry
SPECIFICATION Spec
INVARIANTS
    TypeOK
    NoOccurrenceLost
    SettledOnce
    LinksResolve
    WellSpaced
PROPERTIES
    FrozenSinceReceived
