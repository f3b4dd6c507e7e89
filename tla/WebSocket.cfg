CONSTANTS
    Payloads <- MixedPayloads
    Frames = {"sound", "odd"}
    MaxConns = 3
    MaxSubs = 2
SPECIFICATION MCFairSpec
INVARIANTS
    TypeOK
    SubscriptionsSurvive
    ListenEndsForAReason
PROPERTIES
    ListenStops
    ListenRecovers
