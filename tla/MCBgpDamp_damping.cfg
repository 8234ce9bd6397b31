SPECIFICATION Spec
CONSTANTS
    Route = {r1, r2}
    Attr = {a, b}
    NoAttr = NoAttr
    None = None
    Penalty = 50
    Reuse = 10
    Suppress = 40
    Ceiling = 40
    MaxSuppress = 24
    DecayArray <- MCDecayArray
    Indexed = 10
    Slots <- MCSlots
    ListSize = 13
    ScanInterval = 12
    MaxFlaps = 3
INVARIANTS TypeOK Linked TimelyReuse PrefixCount
PROPERTIES Settles
