CONSTANTS
    p1 = p1
    p2 = p2
    irq = irq
    NL = NL
    TAB = TAB
    BS = BS
    Blank = Blank
    None = None
    Copy = Copy
    Chars <- Letters
    Proc = {p1, p2}
    Handler = {}
    Script <- GameScript
    Outcomes = {FALSE}
    W = 2
    H = 3
SPECIFICATION FairSpec
PROPERTY PrintsAtomically
CHECK_DEADLOCK FALSE
