SPECIFICATION Spec
CONSTANTS
    Families <- MCTwo
    Configs <- MCPlain
    MaxSockets = 1
    MaxEvents = 2
    MaxClear = 2
INVARIANTS
    ClearedFirst
