SPECIFICATION FairSpec
CONSTANTS
    c1 = c1
    c2 = c2
    c3 = c3
    l1 = l1
    l2 = l2
    k1 = k1
    Conns = {c1, c2, c3}
    Listeners = {l1, l2}
    ListenerOf <- TwoListeners
    MaxConns = 1
    Creds = {k1}
INVARIANT ChanTypeOK
INVARIANT PermitAccounting
INVARIANT AuthorizedAnew
PROPERTY RefusedOnlyWhenFull
PROPERTY ConnsDecided
PROPERTY RequestsAnswered
PROPERTY DropEndsAll
