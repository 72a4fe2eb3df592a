\* A handler, two workers and a page whose stream keeps one summary; two writes.
CONSTANTS
    h = h
    w = w
    z = z
    c = c
    Closed = Closed
    Handlers = {h}
    Workers = {w, z}
    Clients = {c}
    Capacity = 1
    MaxWrites = 2
    MaxDrains = 2
    MaxOpens = 1
    Allowed = {}
SPECIFICATION FairSpec
INVARIANT
    ShownIsCurrent
PROPERTIES
    NeverBackwards
    CatchesUp
CHECK_DEADLOCK FALSE
