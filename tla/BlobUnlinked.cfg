SPECIFICATION Spec
CONSTANTS
    k1 = k1
    k2 = k2
    c1 = c1
    b1 = b1
    b2 = b2
    NoBlob = NoBlob
    w1 = w1
    w2 = w2
    r1 = r1
    Keys = {k1}
    Chunks = {c1}
    Blobs = {b1, b2}
    EntryOf <- OneChunkEntryOf
    ChunkOf <- TwoContentsOf
    IsFinal <- NoneIsFinal
    Writers = {w1, w2}
    Removers = {r1}
    Readers = {}
    PruneBatch = 1
    Tasks = {}
SYMMETRY Symmetry
INVARIANT UnlinkedIsUnreferenced
