SPECIFICATION Spec
CONSTANTS
    Count = 3
    Primary = 1
    Fallback = 2
    Images = {1, 2}
    ModelOf <- MCModelOf
    MiB = 2
    StepMiB = 4
    None = None
    Requests <- MCRequests
    Options <- MCOptions
    Hosts <- MCHosts
    Boots <- MCBoots
    DefaultGate = 2
    Samples <- MCSamples
    Reserved <- MCReserved
INVARIANT EvidenceStopsNothing
CHECK_DEADLOCK FALSE
