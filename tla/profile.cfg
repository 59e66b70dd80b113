SPECIFICATION Spec
CONSTANTS
    Null = Null
    MaxProcs = 4
    MaxNest = 3
INVARIANTS
    ListsAreTheTree
    FormedProfileIsRead
    CleanUpFreesAll
