SPECIFICATION FairSpec
CONSTANTS
    noop = noop
    clook = clook
    Modules = {noop, clook}
    BuiltIn = {noop}
    NameOf <- Named
    Queues = {d1, d2}
    Callers = {c1, c2}
    Boot <- TryBoth
    Slots = {x1, x2, x3}
    None = None
    MaxIO = 1
INVARIANTS
    TypeOK
    TypesHeld
    QuiescedIsEmpty
    ChangeKeepsOneElevator
PROPERTIES
    CallEnds
