CONSTANTS
    None = None
    Count = 2
    MaxRuns = 1
    MaxRecords = 1
    FreshPrefix = TRUE
    Images = {}
    Blocked = {}
    Threshold = 1
    Override <- NoOverride
    Samples = {1}
    Prepare = FALSE
    Stubborn = {"starting"}
    Hangs = FALSE
    Unkillable = FALSE
    CrashAt = {}
    Tears = FALSE

SPECIFICATION Spec
PROPERTY
    ReadyMeansOwnServer

CHECK_DEADLOCK FALSE
