SPECIFICATION Spec
CONSTANTS
    MaxRequests = 4
    Bios <- Touching
    Wheres = {"SORT", "BACK"}
    Privileged = {TRUE}
    MayOverlap = FALSE
    Scheduler = "clook"
    MergeLevels = {"merges"}
    MaxSectors = 3
    MaxRequeues = 1
    MayAbort = FALSE
INVARIANTS
    BoundaryPending
    InFlightExact
PROPERTIES
    KeepsBarriers
    DrainSweeps
