SPECIFICATION Spec
CONSTANTS
    a1 = a1
    a2 = a2
    bad = bad
    p1 = p1
    p2 = p2
    NoAttr = NoAttr
    NoPeer = NoPeer
    Withdraw = Withdraw
    n1 = n1
    n2 = n2
    Attr = {a1, a2, bad}
    Peer = {p1, p2}
    Prefix = {n1}
    InPolicy <- MCInPolicy
    OutPolicy <- MCOutPolicy
    Pmax <- MCNoLimit
    SoftReconfig = {}
    Graceful = {}
    NexthopVaries = {p1}
    EarlyRepeats = FALSE
    SlowClearing = FALSE
    MaxQueue = 2
INVARIANTS
    TypeOK
    OneSelected
    RemovedIsScheduled
    FibHasSelected
    SettledAdjOut
    SettledFib
    SettledSelection
