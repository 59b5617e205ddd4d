SPECIFICATION FairSpec
CONSTANTS
    c1 = c1
    pager = pager
    r1 = r1
    NoConn = NoConn
    NoReader = NoReader
    Chars = {"*", "?", "[", "]", "a", "b"}
    Keys <- ThreeKeys
    KeyRank <- ByteOrder
    Expiring <- OneKey
    Stamps <- NegativeToTwo
    Conns = {c1}
    Readers = {pager, r1}
    Pager = pager
    PageSize = 1
    Prefixes <- OnePrefix
    Sorts = {"KeyDesc"}
    Limits = {2}
CHECK_DEADLOCK FALSE
INVARIANT ReadsTypeOK
INVARIANT EachConnOnce
INVARIANT PagesCover
PROPERTY ListsByPrefix
PROPERTY ReadsEnd
