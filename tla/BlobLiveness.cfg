SPECIFICATION FairSpec
CONSTANTS
    k1 = k1
    k2 = k2
    c1 = c1
    b1 = b1
    b2 = b2
    NoBlob = NoBlob
    w1 = w1
    Keys = {k1}
    Chunks = {c1}
    Blobs = {b1, b2}
    EntryOf <- OneChunkEntryOf
    ChunkOf <- TwoContentsOf
    IsFinal <- NoneIsFinal
    Writers = {w1}
    Removers = {}
    Readers = {}
    PruneBatch = 1
    Tasks = {"cleanup"}
PROPERTY OrphanCollected
