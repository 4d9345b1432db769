CONSTANTS
    g1 = g1
    alice = alice
    bob = bob
    EUR = EUR
    USD = USD
    r1 = r1
    r2 = r2
    Groups = {g1}
    Users = {alice, bob}
    Currencies = {EUR, USD}
    Rows = {r1, r2}
    Weights = {1, 2}
    Threads = {phone, laptop}
    Admins = {}
    Nobody = Nobody
    Start <- MCStart
    Requests <- GroupRequests
SPECIFICATION FairSpec
INVARIANTS
    TypeOK
    StoredRowsHaveParents
    StoredKeysUnique
    StoredDefaultListed
PROPERTIES
    FrozenSinceReceived
    ImplementsGroupBook
    EveryRequestAnswered
