SPECIFICATION Spec
CONSTANTS
    q1 = q1
    q2 = q2
    q3 = q3
    q4 = q4
    None = None
    MedMax = 9
    LocalPref = 1
    Peer <- MCFour
    Sort <- MCMixed
    RouterId <- MCRouterId
    Address <- MCAddress
    Paths <- MCChecks
    NexthopVaries = {q3}
    Metrics = {0, 1}
    Configs <- MCConfigs
INVARIANTS
    TypeOK
    Stable
    BestOverall
    OrderFree
    BestMedOfNeighbour
