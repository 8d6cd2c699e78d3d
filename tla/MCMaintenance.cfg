CONSTANTS
    e1 = e1
    b1 = b1
    p1 = p1
    a1 = a1
    m1 = m1
    u1 = u1
    s1 = s1
    t1 = t1
    t2 = t2
    j1 = j1
    j2 = j2
    r1 = r1
    r2 = r2
    None = None
    Epochs = {e1}
    Batches = {b1}
    Packs = {p1}
    Entries = {a1, m1}
    Units = {u1}
    Sessions = {s1}
    Threads = {t1}
    EpochOf <- MCEpochOf
    BatchOf <- MCBatchOf
    PackOf <- MCPackOf
    UnitOf <- MCUnitOf
    UnitEpoch <- MCUnitEpoch
    Metadata <- MCMetadata
    Paths = {"pool", "index"}
    Contents <- MCContents
    PathOf <- MCPathOf
    ContentOf <- MCContentOf
    Priority <- MCPriority
    Cursors <- MCCursors
    Base <- MCBase
    Target <- MCTarget
    SessionBatch <- MCSessionBatch
    Retried = {}
    OperationColumn = TRUE
    InitialCursor <- MCInitialCursor
    InitialDisk <- MCInitialDisk
    Jobs = {j1, j2}
    Kinds <- MCKinds
    Claims = {r1}
    Mentions <- MCMentions
    Indexes <- MCIndexes
    Managed = {"pool", "index"}
    Roots = {r1, r2}
    InitialRoot = r1
    Elsewhere <- MCElsewhere
SPECIFICATION MSpec
INVARIANTS MTypeOK Exclusive OpenEpochKeepsFiles
PROPERTIES GCKeepsListed CatalogIsWhole JobsEnd
