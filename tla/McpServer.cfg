CONSTANTS
    Calls = {"any", "other"}
    TriedBy <- Tried
    Settings = {"", " True "}
SPECIFICATION MCSpec
INVARIANTS
    TypeOK
    LiveOrderNeedsOptIn
    OneEnvironment
    ToolReachesItsEndpoint
    AnswersAreTrue
