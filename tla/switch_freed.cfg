SPECIFICATION Spec
CONSTANTS
    noop = noop
    clook = clook
    Modules = {noop, clook}
    BuiltIn = {noop}
    NameOf <- Named
    Queues = {d1}
    Callers = {c1}
    Boot <- TryBoth
    Slots = {x1, x2}
    None = None
    MaxIO = 1
INVARIANTS
    NoCallIntoFreed
