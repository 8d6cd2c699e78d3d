CONSTANTS
    e1 = e1
    b1 = b1
    b2 = b2
    p1 = p1
    p2 = p2
    a1 = a1
    m1 = m1
    m2 = m2
    u1 = u1
    t1 = t1
    t2 = t2
    s1 = s1
    s2 = s2
    s3 = s3
    None = None
    Epochs = {e1}
    Batches = {b1}
    Packs = {p1}
    Entries = {a1, m2}
    Units = {u1}
    Sessions = {s1, s3}
    Threads = {t1, t2}
    EpochOf <- MCEpochOf
    BatchOf <- MCBatchOf
    PackOf <- MCPackOf
    UnitOf <- MCUnitOf
    UnitEpoch <- MCUnitEpoch
    Metadata <- MCMetadata
    Paths <- MCPaths
    Contents <- MCContents
    PathOf <- MCPathOf
    ContentOf <- MCContentOf
    Priority <- MCPriority
    Cursors <- MCCursors
    Base <- MCBase
    Target <- MCTarget
    SessionBatch <- MCSessionBatch
    Retried = {}
    OperationColumn = TRUE
    InitialCursor <- MCInitialCursor
    InitialDisk <- MCInitialDisk
SPECIFICATION ServingSpec
SYMMETRY Symmetry
INVARIANT IInv
