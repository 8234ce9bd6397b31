SPECIFICATION FairSpec
CONSTANTS
    Router <- MCTriangle
    Link <- MCTriangleLink
    AS <- MCTriangleAS
    Cost <- MCTriangleCost
    RouteMap <- MCTriangle
    Base <- MCTriangleBase
    Options <- MCDefault
    MedRange = 16
    MaxWire = 1
    MaxChanges = 1
    Self = Self
    Withdraw = Withdraw
    None = None
PROPERTY
    Converges
CHECK_DEADLOCK FALSE
