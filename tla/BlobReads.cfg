SPECIFICATION Spec
CONSTANTS
    k1 = k1
    k2 = k2
    c1 = c1
    b1 = b1
    b2 = b2
    NoBlob = NoBlob
    w1 = w1
    r1 = r1
    g1 = g1
    Keys = {k1}
    Chunks = {c1}
    Blobs = {b1, b2}
    EntryOf <- OneChunkEntryOf
    ChunkOf <- TwoContentsOf
    IsFinal <- OneIsFinal
    Writers = {w1}
    Removers = {r1}
    Readers = {g1}
    PruneBatch = 1
    Tasks = {"cleanup"}
INVARIANT RowsKeepFiles
INVARIANT RowsHaveFiles
PROPERTY LostOnlyWhenMoved
PROPERTY ImplementsChunkMap
