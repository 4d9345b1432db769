SPECIFICATION Spec
CONSTANTS
    Queries = {"groups", "suggestions"}
    OpSets <- MCOpSets
    MaxCalls = 2
    ListGroups = {"g1", "g2"}
    MaxRank = 3
    Filters <- MCFilters
    LIMIT = 1
    RouteGroups = {"g1", "g2"}
    MaxVisits = 2
    Photos = {"p1", "p2"}
    MaxScans = 2
    MaxSaves = 2
    MaxAnswers = 2
    Characters = {"0", "2", ".", "+", "-", "/", "(", ")"}
    MaxText = 5
    MaxSelection = 1
    AmountTexts <- MCAmountTexts
    People = {"u1", "u2", "u3"}
    Me = "u1"
    Money = {"EUR", "USD", "PLN"}
    Users = {"a"}
    Tabs = {"t1", "t2"}
    BrowserOf <- MCBrowserOf
    SessionIds = {"s1"}
INVARIANTS
    TypeOK
    SavedIsShown
    CursorsOfOneQuery
    SavesAreSound
    ShownIsSent
    PartiesMakeSense
    NotFoundIsReal
    LoggedOutStaysOut
PROPERTIES
    DraftsSurviveAnswers
