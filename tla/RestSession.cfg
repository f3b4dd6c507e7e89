CONSTANTS
    r1 = r1
    login = login
    logout = logout
    NoCall = NoCall
    Requests = {r1}
    Logins = {login}
    Logouts = {logout}
    MaxRetries = 2
    MaxTokens = 3
SPECIFICATION MCSpec
INVARIANTS
    RejectionIsEarned
PROPERTIES
    LiveTokenDroppedOnlyByRefresh
