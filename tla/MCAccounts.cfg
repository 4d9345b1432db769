SPECIFICATION AccountsSpec
CONSTANTS
    Users = {"a", "b"}
    Tabs = {"t1", "t2"}
    BrowserOf <- MCBrowserOf
    SessionIds = {"s1"}
PROPERTIES
    LastAdminStays
