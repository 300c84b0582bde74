CONSTANTS
    p1 = p1
    p2 = p2
    irq = irq
    NL = NL
    TAB = TAB
    BS = BS
    Blank = Blank
    None = None
    Copy = Copy
    Chars <- Letters
    Proc = {p1, p2, irq}
    Handler = {irq}
    Script <- PrintScript
    Outcomes = {TRUE, FALSE}
    W = 2
    H = 3
SPECIFICATION UntilMixed
INVARIANTS TypeOK MutualExclusion WritesOnScreen ScreenShowsLog
PROPERTIES AtomicUntilMixed ReturnsUnlessHandlerWaits
CHECK_DEADLOCK FALSE
