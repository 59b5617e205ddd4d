SPECIFICATION FairSpec
CONSTANTS
    k1 = k1
    k2 = k2
    w1 = w1
    w2 = w2
    w3 = w3
    NoStamp = NoStamp
    NoWrite = NoWrite
    Keys = {k1}
    Writes = {w1, w2, w3}
    KeyOf <- KeyOfInitKey
    Inits = {w3}
    Explicit = {2}
    MaxTries = 2
    MaxMicros = 20
    MaxClock = 1
    StepsBack = TRUE
    Faults = TRUE
INVARIANT NewestWins
PROPERTY LaterPutWins
PROPERTY CallsEnd
