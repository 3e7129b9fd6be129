SPECIFICATION Spec
CONSTANTS
    Count = 2
    Images = {1}
    Scope <- MCScope
    Cases = 2
    MinTrials = 2
    RankingMin = 2
    SuiteLane = "vlm"
    None = None
    Options <- MCOptions
    MaxFrames = 2
    Torn = Torn
    Samples = {1, 2}
    Inputs <- MCInputs
INVARIANTS
    TypeOK
    PromotedIsComplete
    PromotedIsReviewed
    RankedHadMemory
    ZeroExitIsEarned
    RoutedIsComplete
    PrimaryIsQ4First
CHECK_DEADLOCK FALSE
