CONSTANTS
    Slots = {s0, s1, s2, s3}
    IdleSlot = s0
    Null = Null
    Starts <- BootStarts
    Faulty = {1, 4}
    Scraps = {1}
    Watched = {s1}
SPECIFICATION FairSpec
INVARIANTS TypeOK RingSound PidsUnique PreemptionOff
PROPERTIES NeverResumesFreed WaitsForExit RoundRobinSpec BootCompletes NobodyStarves
