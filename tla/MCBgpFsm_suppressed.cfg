SPECIFICATION Spec
CONSTANTS
    Families <- MCOne
    Configs <- MCPlain
    MaxSockets = 1
    MaxEvents = 2
    MaxClear = 2
INVARIANTS
    NeverStartsSuppressed
