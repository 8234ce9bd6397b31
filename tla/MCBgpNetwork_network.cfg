SPECIFICATION Spec
CONSTANTS
    Router <- MCRing
    Link <- MCRingLink
    AS <- MCRingAS
    Cost <- MCRingCost
    RouteMap <- MCRing
    Base <- MCBase
    Options <- MCAlways
    MedRange = 16
    MaxWire = 1
    MaxChanges = 2
    Self = Self
    Withdraw = Withdraw
    None = None
INVARIANTS
    TypeOK
    PathCost
    SettledIsShortest
PROPERTY
    Converges
CHECK_DEADLOCK FALSE
