CONSTANTS
    Size = 5
    Chunk = 2
    h1 = h1
    h2 = h2
    None = None
    Handlers = {h1, h2}
    MaxBreaks = 2
    MaxLosses = 2
SPECIFICATION UploadSpec
CHECK_DEADLOCK FALSE
INVARIANTS RowBehindFile UploadedIsWhole
PROPERTY UploadEnds
