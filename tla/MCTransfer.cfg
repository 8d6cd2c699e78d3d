CONSTANTS
    e1 = e1
    b1 = b1
    b2 = b2
    p1 = p1
    p2 = p2
    a1 = a1
    m1 = m1
    u1 = u1
    s1 = s1
    s2 = s2
    None = None
    Epochs = {e1}
    Batches = {b1, b2}
    Packs = {p1, p2}
    Entries = {m1, a1}
    Units = {u1}
    Sessions = {s1, s2}
    Threads = {s1, s2}
    EpochOf <- MCEpochOf
    BatchOf <- MCBatchOf
    PackOf <- MCPackOf
    UnitOf <- MCUnitOf
    UnitEpoch <- MCUnitEpoch
    Metadata = {m1}
    Paths <- MCPaths
    Contents <- MCContents
    PathOf <- MCPathOf
    ContentOf <- MCContentOf
    Priority <- MCPriority
    Cursors <- MCCursors
    Base <- MCBase
    Target <- MCTarget
    SessionBatch <- MCSessionBatch
    Retried = {}
    OperationColumn = TRUE
    InitialCursor <- MCInitialCursor
    InitialDisk <- MCInitialDisk
    MaxBreaks = 2
SPECIFICATION TransferSpec
CHECK_DEADLOCK FALSE
INVARIANT LocalNotAhead
PROPERTIES ResumeCompletes WorkspaceCatchesUp
