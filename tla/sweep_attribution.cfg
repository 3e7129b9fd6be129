CONSTANTS
    None = None
    Count = 1
    MaxRuns = 2
    MaxRecords = 2
    FreshPrefix = TRUE
    Images = {}
    Blocked = {}
    Threshold = 1
    Override <- NoOverride
    Samples = {0, 1}
    Prepare = TRUE
    Stubborn = {"starting", "loading", "serving", "hung"}
    Hangs = TRUE
    Unkillable = TRUE
    CrashAt <- Anywhere
    Tears = FALSE

SPECIFICATION Spec
INVARIANTS
    TypeOK
    MeasuredAlone
    OrphansAreReported
    ProfileOfOwnBenchmark
    FailedVariantsHaveNoRow
PROPERTY
    AttributedRecords

CHECK_DEADLOCK FALSE
