CONSTANTS
    e1 = e1
    e2 = e2
    b1 = b1
    b2 = b2
    p1 = p1
    p2 = p2
    a1 = a1
    a2 = a2
    u1 = u1
    u2 = u2
    t1 = t1
    t2 = t2
    s1 = s1
    s2 = s2
    None = None
    Epochs = {e1, e2}
    Batches = {b1, b2}
    Packs = {p1, p2}
    Entries = {a1, a2}
    Units = {u1, u2}
    Sessions = {s1, s2}
    Threads = {t1, t2}
    EpochOf <- MCEpochOf
    BatchOf <- MCBatchOf
    PackOf <- MCPackOf
    UnitOf <- MCUnitOf
    UnitEpoch <- MCUnitEpoch
    Metadata = {}
    Paths = {"pool"}
    Contents = {"v1", "v2"}
    PathOf <- MCPathOf
    ContentOf <- MCContentOf
    Priority <- MCPriority
    Cursors = {"c0", "c1", "c2"}
    Base <- MCBase
    Target <- MCTarget
    SessionBatch <- MCSessionBatch
    Retried = {s1, s2}
    OperationColumn = TRUE
    InitialCursor <- MCInitialCursor
    InitialDisk <- MCEmptyDisk
SPECIFICATION CapsuleSpec
SYMMETRY Symmetry
INVARIANTS ImportedIsInstalled RegistrableCapsuleIsExact
