CONSTANTS
    Bits = 16
    Numbers <- MCNumbers
    Octets <- MCOctets
    Lines <- MCLines
    Me <- MCMe
    Sources <- MCSources
    Frames <- MCFrames
    Old = {0, 255}
    Bit = {0, 1}
    Width = 2
    MaxRoutes = 3
    N = 2
    HalfBits = 8
    Devices = 2
    Functions = 2
    Bars <- MCBars
    Mac <- MCMac
    Entries = 8
    MaxPages = 2
    KernelBase = 64
    KernelEnd = 99
    EndWords <- MCEndWords
    Rams <- MCRams
SPECIFICATION Spec
INVARIANTS TextReadsBack EchoAnswers FindsBest CardsFound MemoryLaidOut
PROPERTIES ComesBack
CHECK_DEADLOCK FALSE
