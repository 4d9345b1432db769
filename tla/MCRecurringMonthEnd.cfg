CONSTANTS
    Threads = {phone, laptop}
    Templates = {rent}
    Frequencies = {"monthly"}
    StartDates <- EndOfJanuary
    Null = Null
    MaxExpenses = 2
    MaxDates = 3
SYMMETRY ThreadSymmetry
SPECIFICATION Spec
INVARIANTS
    MonthlyIsEveryMonth
