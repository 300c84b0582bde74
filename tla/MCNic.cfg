CONSTANTS
    RX = 3
    TX = 2
    Blocks = 7
    Sends = 3
    Frames = 3
SPECIFICATION FairSpec
INVARIANTS TypeOK RingsAgree FramesInOrder ListSound
PROPERTIES SendsComplete
CHECK_DEADLOCK FALSE
