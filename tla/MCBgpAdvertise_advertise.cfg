SPECIFICATION Spec
CONSTANTS
    p1 = p1
    p2 = p2
    p3 = p3
    a1 = a1
    a2 = a2
    Prefix <- MCPrefix
    Attr <- MCAttr
    PacketMax = 2
    WriteMax = 2
    RestartRcv = TRUE
    MaxChanges = 2
    Withdrawal = Withdrawal
    None = None
INVARIANTS
    TypeOK
    NothingForgotten
    QueuedIsScheduled
    WriterArmed
PROPERTIES
    ViewRefined
    Informed
CHECK_DEADLOCK FALSE
