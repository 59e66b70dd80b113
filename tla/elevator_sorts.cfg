SPECIFICATION Spec
CONSTANTS
    MaxRequests = 4
    Bios <- Blocks
    Wheres = {"SORT", "SORT_MERGE"}
    Privileged = {TRUE}
    MayOverlap = FALSE
    Scheduler = "clook"
    MergeLevels = {"merges", "noxmerges", "nomerges"}
    MaxSectors = 3
    MaxRequeues = 0
    MayAbort = FALSE
INVARIANTS
    TypeOK
    KeptOnce
    HashMatches
    LastMergeHeld
    QueueSorted
