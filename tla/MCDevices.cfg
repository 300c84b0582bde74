CONSTANTS
    Size = 3
    Keys = 5
    Other = Other
    Sectors = 3
    Words = 2
    Calls = 3
    MaxSects = 2
SPECIFICATION DevicesSpec
INVARIANTS CacheSound DiskSound
PROPERTIES KeysArrive DiskCallsEnd
CHECK_DEADLOCK FALSE
