CONSTANTS
    ARP_CACHE_SIZE = 2
    Me = Me
    Gw = Gw
    Zero = Zero
    Null = Null
    g1 = g1
    g2 = g2
    h = h
    peer = peer
    other = other
    Peers = {peer, other}
    GwMac = g1
    Claims <- AllClaims
    Packets = 3
    Frames = 3
SPECIFICATION FairSpec
INVARIANTS EntriesSound BuffersAccounted AnswersWhole
PROPERTIES SentRight DeferredLeaves
CHECK_DEADLOCK FALSE
