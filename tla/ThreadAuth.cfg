CONSTANTS
    get = get
    refresh = refresh
    login = login
    logout = logout
    NoCall = NoCall
    Getters = {get}
    Refreshers = {refresh}
    Logins = {login}
    Logouts = {logout}
    MaxTokens = 2
SPECIFICATION MCFairSpec
INVARIANTS
    TypeOK
    PromiseKept
    CacheConsistent
PROPERTIES
    EveryCallEnds
