SPECIFICATION Spec
CONSTANTS
    k1 = k1
    k2 = k2
    w1 = w1
    w2 = w2
    w3 = w3
    NoStamp = NoStamp
    NoWrite = NoWrite
    Keys = {k1}
    Writes = {w1, w2}
    KeyOf <- KeyOfOneKey
    Inits = {w2}
    Explicit = {2}
    MaxTries = 2
    MaxMicros = 20
    MaxClock = 1
    StepsBack = FALSE
    Faults = FALSE
INVARIANT InitOverwrites
