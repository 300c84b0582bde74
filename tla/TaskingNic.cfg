CONSTANTS
    Slots = {s0, s1, s2, s3}
    IdleSlot = s0
    Null = Null
    Starts <- MCStarts
    Faulty = {}
    Scraps = {}
    Watched = {}
SPECIFICATION NicSpec
INVARIANT OthersSeeARing
CHECK_DEADLOCK FALSE
