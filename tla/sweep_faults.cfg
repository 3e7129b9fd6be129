CONSTANTS
    None = None
    Count = 3
    MaxRuns = 1
    MaxRecords = 1
    FreshPrefix = TRUE
    Images = {2, 3}
    Blocked = {3}
    Threshold = 1
    Override <- SecondOverridden
    Samples = {0, 1, None}
    Prepare = TRUE
    Stubborn = {"starting", "serving"}
    Hangs = FALSE
    Unkillable = TRUE
    CrashAt <- Anywhere
    Tears = TRUE

SPECIFICATION FairSpec
PROPERTIES
    Implements
    ManifestWritten

CHECK_DEADLOCK FALSE
