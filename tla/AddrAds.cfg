SPECIFICATION Spec
CONSTANTS
    any4 = any4
    any6 = any6
    lan = lan
    lo = lo
    Addrs = {any4, any6, lan, lo}
    Wildcards = {any4, any6}
    Skipped = {lo}
    IsV4 <- Families
    Ifaces <- HostIfaces
    Binds <- StartLists
    Interval = 4
    Ttl = 8
    PruneInterval = 4
    MaxPass = 1
    MaxLate = 1
INVARIANT AdsTypeOK
INVARIANT BindAllOrNothing
INVARIANT BoundReachable
INVARIANT RefreshedInTime
INVARIANT OneMissShortGap
INVARIANT PrunedInTime
