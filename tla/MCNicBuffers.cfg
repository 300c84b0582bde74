CONSTANTS
    RX = 2
    TX = 2
    Blocks = 6
    Sends = 2
    Frames = 3
SPECIFICATION Spec
INVARIANTS OnlySentIsFreed
CHECK_DEADLOCK FALSE
