SPECIFICATION FairSpec
CONSTANTS
    MaxRequests = 3
    Bios <- Mixed
    Wheres = {"SORT_MERGE", "FRONT"}
    Privileged = {TRUE, FALSE}
    MayOverlap = TRUE
    Scheduler = "team42_noop"
    MergeLevels = {"merges"}
    MaxSectors = 3
    MaxRequeues = 1
    MayAbort = TRUE
INVARIANTS
    BooksAgree
PROPERTIES
    EverySubmissionEnds
