CONSTANTS
    NoSeq = NoSeq
    NoCall = NoCall
    TrnmOf <- Trnm
    SeqOf <- Seq
    Calls <- AllCalls
    Silent <- SilentCalls
    MaxSockets = 1
SPECIFICATION MCFairSpec
INVARIANTS
    TypeOK
    LoneReplyReachesItsCall
    PendingDrains
PROPERTIES
    EveryRequestEnds
