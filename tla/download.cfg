CONSTANTS
    Launchers = {l1}
    Chunks = 3
    Inodes = {f1, f2}
    Serial = TRUE
    Portal = TRUE
    None = None

SPECIFICATION FairSpec
INVARIANTS
    TypeOK
    DestinationWhole
PROPERTIES
    Implements
    Arrives

CHECK_DEADLOCK TRUE
