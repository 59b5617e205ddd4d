SPECIFICATION FairSpec
CONSTANTS
    w1 = w1
    w2 = w2
    Writers = {w1, w2}
    Depth = 2
    Names = {"s", "t"}
    Chunks <- TwoChunks
    ShardsOf <- Shards
INVARIANT FilesTypeOK
INVARIANT KeptUntilUnlinked
INVARIANT RetryIsEnough
PROPERTY EmptyShardsGo
