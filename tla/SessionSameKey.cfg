CONSTANTS
    NoSeq = NoSeq
    NoCall = NoCall
    TrnmOf <- Trnm
    SeqOf <- Seq
    Calls <- AlikeSearches
    Silent <- NoSilent
    MaxSockets = 1
SPECIFICATION MCSpec
INVARIANTS
    ReplyReachesItsCall
