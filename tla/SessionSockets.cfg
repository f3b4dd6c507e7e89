CONSTANTS
    NoSeq = NoSeq
    NoCall = NoCall
    TrnmOf <- Trnm
    SeqOf <- Seq
    Calls <- TwoSearches
    Silent <- NoSilent
    MaxSockets = 2
SPECIFICATION MCSpec
INVARIANTS
    OneSocket
