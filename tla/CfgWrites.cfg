SPECIFICATION Spec
CONSTANTS
    k1 = k1
    k2 = k2
    w1 = w1
    w2 = w2
    w3 = w3
    NoStamp = NoStamp
    NoWrite = NoWrite
    Keys = {k1, k2}
    Writes = {w1, w2, w3}
    KeyOf <- KeyOfTwoKeys
    Inits = {}
    Explicit = {3}
    MaxTries = 2
    MaxMicros = 20
    MaxClock = 2
    StepsBack = TRUE
    Faults = FALSE
SYMMETRY Symmetry
INVARIANT CfgTypeOK
INVARIANT NewestWins
INVARIANT RowsUnique
PROPERTY StampsIncreaseBelowMax
PROPERTY ImplementsRegister
