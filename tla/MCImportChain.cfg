CONSTANTS
    e1 = e1
    e2 = e2
    rival = rival
    b1 = b1
    b2 = b2
    b3 = b3
    p1 = p1
    p2 = p2
    p3 = p3
    a2 = a2
    m1 = m1
    m2 = m2
    m3 = m3
    u1 = u1
    u2 = u2
    u3 = u3
    t1 = t1
    t2 = t2
    s1 = s1
    s2 = s2
    s3 = s3
    None = None
    Epochs = {e1, e2, rival}
    Batches = {b1, b2, b3}
    Packs = {p1, p2, p3}
    Entries = {a2, m1, m2, m3}
    Units = {u1, u2, u3}
    Sessions = {s1, s2, s3}
    Threads = {t1, t2}
    EpochOf <- MCEpochOf
    BatchOf <- MCBatchOf
    PackOf <- MCPackOf
    UnitOf <- MCUnitOf
    UnitEpoch <- MCUnitEpoch
    Metadata <- MCMetadata
    Paths <- MCPaths
    Contents <- MCContents
    PathOf <- MCPathOf
    ContentOf <- MCContentOf
    Priority <- MCPriority
    Cursors <- MCCursors
    Base <- MCBase
    Target <- MCTarget
    SessionBatch <- MCSessionBatch
    Retried = {}
    OperationColumn = TRUE
    InitialCursor <- MCInitialCursor
    InitialDisk <- MCInitialDisk
SPECIFICATION ServingSpec
SYMMETRY Symmetry
INVARIANTS OneOpenEpoch ServesTarget
PROPERTY MirrorSpec
