CONSTANTS
    MaxRetries = 3
    MaxPages = 3
    MaxTotal = 4
    Scale = 10
    Alphabet = {"0", "5", ".", ",", "-", "+", " ", "x"}
    MaxText = 4
    Precision = 2
    Texts <- ShortTexts
    Payloads <- SmallPayloads
    AskedNames <- GivenNames
    Prices <- EdgePrices
SPECIFICATION MCSpec
INVARIANTS
    ClientTypeOK
    EachPageOnce
    CompleteUnlessCapped
    ConversionKeepsMeaning
    RecordsAreTheLongest
    LimitPriceIsQuotable
PROPERTIES
    EveryReadEnds
