CONSTANTS
    Launchers = {l1,l2}
    Chunks = 3
    Inodes = {f1, f2, f3, f4}
    Serial = FALSE
    Portal = FALSE
    None = None

SPECIFICATION Spec
INVARIANT
    DestinationWhole

CHECK_DEADLOCK TRUE
