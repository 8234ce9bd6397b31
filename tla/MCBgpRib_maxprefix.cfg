SPECIFICATION FairSpec
CONSTANTS
    a1 = a1
    a2 = a2
    bad = bad
    p1 = p1
    p2 = p2
    NoAttr = NoAttr
    NoPeer = NoPeer
    Withdraw = Withdraw
    n1 = n1
    n2 = n2
    Attr = {a1, bad}
    Peer = {p1}
    Prefix = {n1, n2}
    InPolicy <- MCInPolicy
    OutPolicy <- MCOutPolicy
    Pmax <- MCOne
    SoftReconfig = {}
    Graceful = {}
    NexthopVaries = {p1}
    EarlyRepeats = FALSE
    SlowClearing = FALSE
    MaxQueue = 2
INVARIANTS
    PrefixCount
PROPERTIES
    OverLimitEnds
