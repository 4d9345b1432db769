CONSTANTS
    MaxUser = 4
    MaxCents = 4
    Users <- MCUsers
    CurrencyOrder <- MCCurrencyOrder
    Inputs <- WithSecondCurrency
SPECIFICATION Spec
INVARIANTS
    TypeOK
    SuggestionsSound
    FewSuggestions
    OneSideSettled
    SettledUpToDrift
PROPERTIES
    EveryMatchSettles
CHECK_DEADLOCK FALSE
