CONSTANTS
    p1 = p1
    p2 = p2
    Client = {p1, p2}
    Sizes = {4, 8}
    Pages = 2
    heap_begin = 0
    heap_end = 64
    Preemptive = FALSE
    MaxCalls = 4
SPECIFICATION Spec
INVARIANTS TypeOK NoSharing ChainSound PagesExclusive
PROPERTY GrowsWhenFull
CHECK_DEADLOCK FALSE
