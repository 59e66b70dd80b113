SPECIFICATION Spec
CONSTANTS
    Pages = {q1, q2}
    Threads = {t1}
    NoPage = NoPage
    Fits = {"BESTFIT"}
    PAGE_SIZE = 12
    SLOB_BREAK1 = 6
    SLOB_BREAK2 = 8
    MINALIGN = 4
    RCU_SIZE = 2
    Sizes = {1, 10}
    Caches <- ManyCaches
    MaxBlocks = 4
    WORD = 1
SYMMETRY Symmetry
CHECK_DEADLOCK FALSE
PROPERTIES
    BestBlockOfAllPages
