CONSTANTS
    r1 = r1
    r2 = r2
    NoCall = NoCall
    Requests = {r1, r2}
    Logins = {}
    Logouts = {}
    MaxRetries = 2
    MaxTokens = 2
SPECIFICATION MCFairSpec
INVARIANTS
    TypeOK
    AtMostOnce
    HonestOutcome
    LoopNeverFallsThrough
    LockDiscipline
    RejectionIsEarned
PROPERTIES
    KeepsThePromise
    EveryCallEnds
