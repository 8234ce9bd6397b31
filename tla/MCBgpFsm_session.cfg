SPECIFICATION Spec
CONSTANTS
    Families <- MCOne
    Configs <- MCSession
    MaxSockets = 2
    MaxEvents = 3
    MaxClear = 1
INVARIANTS
    TypeOK
    NeverStuck
    Disconnected
    FreshStart
